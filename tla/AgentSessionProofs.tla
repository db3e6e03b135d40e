-------------------------- MODULE AgentSessionProofs --------------------------
(***************************************************************************)
(* Proofs about AgentSession, for every number of texts, calls of          *)
(* prompt(), retries, tool calls and answers, with overlapping prompts and *)
(* without.                                                                *)
(*                                                                         *)
(* The inductive invariant is IInv.  Its parts:                            *)
(*   RunInv    the run, the call that runs it and the delay of a retry     *)
(*   Alone     one call is busy, as long as nothing crossed                *)
(*   Served    what a call leaves behind when it is done                   *)
(*   Single    the same without overlapping prompts, crossed or not        *)
(*   Patience  what the errors in a row are bounded by                     *)
(*   TextInv   where each of the user's texts is                           *)
(* A lemma <Action>Does says what an action does to each field; the proofs *)
(* of the parts cite these and never open the actions.                     *)
(***************************************************************************)
EXTENDS AgentSession, SequenceTheorems, TLAPS

\* A call of prompt() with a run, a retry, a compaction or a continuation of its own.
Busy(p) == prompt[p].pc \notin {"idle", "preflight", "settling"}

\* The agent runs exactly as long as one call waits for it; messages on their way have a run
\* that sends them; a delay belongs to the call that sleeps; the session listens to the agent
\* but for a compaction by hand, which alone lets compact() wait.
RunInv ==
  /\ loop.pending # <<>> <=> loop.pc \in {"prompt", "inject"}
  /\ loop.pc = "tools" => loop.calls # 0
  /\ \A p \in Prompter : prompt[p].pc # "idle" => prompt[p].text \in Text
  /\ agent.run <=> loop.pc # "none"
  /\ agent.run <=> \E p \in Prompter : prompt[p].pc = "running"
  /\ \A p, q \in Prompter : prompt[p].pc = "running" /\ prompt[q].pc = "running" => p = q
  /\ session.retrying \in Prompter => prompt[session.retrying].pc = "sleep"
  /\ session.connected <=> manual = "none"
  /\ "compact" \in session.waiting => manual = "waits"

\* As long as nothing crossed one call is busy, and the session is active exactly then.
Alone ==
  ~user.crossed =>
    /\ \A p, q \in Prompter : Busy(p) /\ Busy(q) => p = q
    /\ session.active <=> \E p \in Prompter : Busy(p)
    /\ session.active => manual = "none"
    /\ manual # "waits"
    /\ ~session.active => session.bash = 0 /\ session.attempt = 0
    /\ session.waiting # {} => session.active \/ \E p \in Prompter : prompt[p].pc = "settling"
    /\ \A p \in Prompter : prompt[p].pc = "sleep" => session.retrying = p

\* What the agent and the count of retries look like at each place of a call.
Served ==
  ~user.crossed =>
    /\ \A p \in Prompter :
         prompt[p].pc \in {"cancelled", "overflow", "length", "threshold", "done"} => session.attempt = 0
    /\ \A p \in Prompter : prompt[p].pc = "sleep" => agent.trail = 0
    /\ \A p \in Prompter : prompt[p].pc = "continue" => session.attempt = 0 \/ agent.trail = 0
    /\ \A p \in Prompter : prompt[p].pc = "done" => ~HasQueued
    /\ loop.pc \in {"start", "stream"} => agent.trail = 0
    /\ loop.pc \in {"tools", "turn"} =>
         session.last \in {"stop", "calls", "length"} /\ session.attempt = 0
    /\ loop.pc = "turn" /\ loop.more => agent.trail = 0
    /\ loop.pc = "end" => /\ session.last # "none"
                          /\ session.last \in Errors => agent.trail = 1
                          /\ session.last \notin Errors => session.attempt = 0

\* What nothing can cross without overlapping prompts: a prompt waits for the compaction.
Single ==
  "overlap" \notin Faults =>
    /\ \A p, q \in Prompter :
         prompt[p].pc \notin {"idle", "settling"} /\ prompt[q].pc \notin {"idle", "settling"} => p = q
    /\ session.active <=> \E p \in Prompter : Busy(p)
    /\ \A p \in Prompter : prompt[p].pc = "preflight" => manual = "none"
    /\ manual = "compacting" => ~session.active

\* How many errors in a row the session has accounted for: the retries it counts, and after the
\* one recovery those before it with the overflow.
Credit == session.attempt + (IF session.recovered THEN MaxRetries + 1 ELSE 0)

\* No more errors in a row than accounted for wherever the session may go on by itself.
Patience ==
  "overlap" \notin Faults =>
    /\ \A p \in Prompter :
         prompt[p].pc \in {"sleep", "overflow", "length", "cancelled"} => user.failures <= Credit
    /\ \A p \in Prompter : prompt[p].pc = "continue" => user.failures <= Credit \/ agent.trail # 0
    /\ \A p \in Prompter :
         prompt[p].pc = "threshold" => user.failures <= Credit \/ (agent.trail # 0 /\ log.trail # 0)
    /\ loop.pc \in {"start", "inject", "stream", "tools", "turn"} => user.failures <= Credit
    /\ loop.pc = "end" => user.failures <= Credit + 1
    /\ session.last \in Errors => loop.pc = "end" /\ agent.trail # 0 /\ log.trail # 0
    /\ session.last # "none" => loop.pc # "none"
    /\ session.last \notin Errors \cup {"none"} => user.failures = 0
    /\ ~session.connected /\ session.last # "none" => loop.pc = "end" \/ agent.aborted

\* The texts of the prompts that are prepared, in the lists the user sees, in the agent's queues,
\* and on their way to the model.
Preparing == {prompt[p].text : p \in {q \in Prompter : prompt[q].pc = "preflight"}}
Shown == Range(session.steering) \cup Range(session.followUp)
Waiting == Range(agent.steering) \cup Range(agent.followUp)
Pending == Range(loop.pending)

\* No two prompts have the same text.
OneEach ==
  \A p, q \in Prompter :
    prompt[p].pc = "preflight" /\ prompt[q].pc = "preflight" /\ prompt[p].text = prompt[q].text => p = q

\* The agent's queues are the ends of the lists the user sees, and no text is listed twice.
Lists ==
  /\ IsSuffix(agent.steering, session.steering)
  /\ IsSuffix(agent.followUp, session.followUp)
  /\ IsInjective(session.steering) /\ IsInjective(session.followUp) /\ IsInjective(loop.pending)
  /\ Range(session.steering) \cap Range(session.followUp) = {}

\* Each text said is somewhere, and in no two places that exclude each other.
Places ==
  /\ Shown \cup Pending \cup Preparing \cup log.texts \cup user.unheard \subseteq 1 .. user.said
  /\ Preparing \cap (Shown \cup Pending \cup log.texts \cup user.unheard) = {}
  /\ Pending \cap Waiting = {}
  /\ log.texts \cap (Shown \cup Pending \cup user.unheard) = {}
  /\ user.unheard \cap (Waiting \cup Pending) = {}
  /\ Shown \subseteq Waiting \cup Pending \cup user.unheard
  /\ 1 .. user.said \subseteq Preparing \cup Waiting \cup Pending \cup log.texts \cup user.told
                              \cup (IF user.crossed THEN user.unheard ELSE {})

TextInv == Lists /\ OneEach /\ Places

IInv == TypeOK /\ RunInv /\ Alone /\ Served /\ Single /\ Patience /\ TextInv

------------------------------------------------------------------------------
(* Sequences.                                                              *)

\* Striking off position j.
LEMMA RemoveAtElements ==
  ASSUME NEW T, NEW q \in Seq(T), NEW j \in 1 .. Len(q)
  PROVE  /\ RemoveAt(q, j) \in Seq(T)
         /\ Len(RemoveAt(q, j)) = Len(q) - 1
         /\ \A i \in 1 .. Len(q) - 1 : RemoveAt(q, j)[i] = IF i < j THEN q[i] ELSE q[i + 1]
<1> DEFINE a == SubSeq(q, 1, j - 1)
           b == SubSeq(q, j + 1, Len(q))
<1>1. a \in Seq(T) /\ Len(a) = j - 1 /\ \A i \in 1 .. j - 1 : a[i] = q[i]
  OBVIOUS
<1>2. b \in Seq(T) /\ Len(b) = Len(q) - j /\ \A i \in 1 .. Len(q) - j : b[i] = q[j + i]
  OBVIOUS
<1>3. RemoveAt(q, j) = a \o b
  BY DEF RemoveAt
<1> HIDE DEF a, b
<1>4. /\ a \o b \in Seq(T)
      /\ Len(a \o b) = Len(a) + Len(b)
      /\ \A i \in 1 .. Len(a) + Len(b) : (a \o b)[i] = IF i <= Len(a) THEN a[i] ELSE b[i - Len(a)]
  BY <1>1, <1>2, ConcatProperties
<1>5. ASSUME NEW i \in 1 .. Len(q) - 1
      PROVE  (a \o b)[i] = IF i < j THEN q[i] ELSE q[i + 1]
  <2>1. i \in 1 .. Len(a) + Len(b)
    BY <1>1, <1>2
  <2>2. CASE i < j
    BY <2>1, <2>2, <1>1, <1>4
  <2>3. CASE ~(i < j)
    <3>1. (a \o b)[i] = b[i - (j - 1)]
      BY <2>1, <2>3, <1>1, <1>4
    <3>2. i - (j - 1) \in 1 .. Len(q) - j /\ j + (i - (j - 1)) = i + 1
      BY <2>3
    <3> QED BY <2>3, <3>1, <3>2, <1>2
  <2> QED BY <2>2, <2>3
<1>6. Len(a) + Len(b) = Len(q) - 1
  BY <1>1, <1>2
<1> QED BY <1>3, <1>4, <1>5, <1>6

LEMMA RemoveFirstIs ==
  ASSUME NEW T, NEW q \in Seq(T), NEW j \in 1 .. Len(q), IsInjective(q)
  PROVE  RemoveFirst(q, q[j]) = RemoveAt(q, j)
<1> DEFINE t == q[j]
           I == {i \in 1 .. Len(q) : q[i] = t}
<1>1. I = {j}
  BY DEF IsInjective
<1>2. SelectInSeq(q, LAMBDA v : v = t) = j
  BY <1>1 DEF SelectInSeq, Min
<1>3. \E i \in 1 .. Len(q) : q[i] = t
  OBVIOUS
<1> HIDE DEF t
<1>4. RemoveFirst(q, t) = RemoveAt(q, SelectInSeq(q, LAMBDA v : v = t))
  BY <1>3, Zenon DEF RemoveFirst
<1> QED BY <1>4, <1>2 DEF t

LEMMA RangeOf ==
  ASSUME NEW T, NEW q \in Seq(T), NEW t
  PROVE  t \in Range(q) <=> \E i \in 1 .. Len(q) : q[i] = t
BY DEF Range

LEMMA RemoveFirstMissing ==
  ASSUME NEW T, NEW q \in Seq(T), NEW t, t \notin Range(q)
  PROVE  RemoveFirst(q, t) = q
<1>1. ~ \E i \in 1 .. Len(q) : q[i] = t
  BY RangeOf
<1> QED BY <1>1, Zenon DEF RemoveFirst

\* Of a queue without doubles.
LEMMA Removed ==
  ASSUME NEW T, NEW q \in Seq(T), NEW t, IsInjective(q)
  PROVE  /\ RemoveFirst(q, t) \in Seq(T)
         /\ IsInjective(RemoveFirst(q, t))
         /\ Range(RemoveFirst(q, t)) = Range(q) \ {t}
<1>1. CASE t \in Range(q)
  <2>1. PICK j \in 1 .. Len(q) : q[j] = t
    BY <1>1, RangeOf
  <2> DEFINE r == RemoveAt(q, j)
  <2>2. /\ r \in Seq(T) /\ Len(r) = Len(q) - 1
        /\ \A i \in 1 .. Len(q) - 1 : r[i] = IF i < j THEN q[i] ELSE q[i + 1]
    BY RemoveAtElements
  <2>3. RemoveFirst(q, t) = r
    BY RemoveFirstIs, <2>1
  <2> HIDE DEF r
  <2>4. IsInjective(r)
    <3> SUFFICES ASSUME NEW a \in 1 .. Len(r), NEW b \in 1 .. Len(r), r[a] = r[b] PROVE a = b
      BY <2>2 DEF IsInjective
    <3> DEFINE at(i) == IF i < j THEN i ELSE i + 1
    <3>1. r[a] = q[at(a)] /\ r[b] = q[at(b)] /\ at(a) \in 1 .. Len(q) /\ at(b) \in 1 .. Len(q)
      BY <2>2
    <3>2. \A m, n \in 1 .. Len(q) : q[m] = q[n] => m = n
      BY DEF IsInjective
    <3> HIDE DEF at
    <3>3. at(a) = at(b)
      BY <3>1, <3>2
    <3>4. (IF a < j THEN a ELSE a + 1) = (IF b < j THEN b ELSE b + 1)
      BY <3>3 DEF at
    <3> QED BY <3>4
  <2>5. ASSUME NEW x \in Range(q), x # t PROVE x \in Range(r)
    <3>1. PICK i \in 1 .. Len(q) : q[i] = x
      BY RangeOf
    <3>2. CASE i < j
      <4>1. r[i] = x /\ i \in 1 .. Len(r)
        BY <3>1, <3>2, <2>2
      <4> QED BY <4>1, RangeOf, <2>2
    <3>3. CASE ~(i < j)
      <4>1. r[i - 1] = x /\ i - 1 \in 1 .. Len(r)
        BY <3>1, <3>3, <2>1, <2>2, <2>5
      <4> QED BY <4>1, RangeOf, <2>2
    <3> QED BY <3>2, <3>3
  <2>6. ASSUME NEW x \in Range(r) PROVE x \in Range(q) /\ x # t
    <3>1. PICK i \in 1 .. Len(r) : r[i] = x
      BY RangeOf, <2>2
    <3>2. PICK k \in 1 .. Len(q) : q[k] = x /\ k # j
      BY <3>1, <2>2
    <3>3. x # t
      BY <3>2, <2>1 DEF IsInjective
    <3> QED BY <3>2, <3>3, RangeOf
  <2> QED BY <2>2, <2>3, <2>4, <2>5, <2>6
<1>2. CASE t \notin Range(q)
  BY <1>2, RemoveFirstMissing
<1> QED BY <1>1, <1>2

\* A sequence ends with another.
LEMMA SuffixIs ==
  ASSUME NEW T, NEW s \in Seq(T), NEW q \in Seq(T)
  PROVE  IsSuffix(s, q) <=> /\ Len(s) <= Len(q)
                            /\ \A i \in 1 .. Len(s) : s[i] = q[i + (Len(q) - Len(s))]
<1> DEFINE rs == Reverse(s)
           rq == Reverse(q)
<1>1. /\ rs \in Seq(T) /\ Len(rs) = Len(s) /\ \A i \in 1 .. Len(s) : rs[i] = s[(Len(s) - i) + 1]
  BY DEF Reverse
<1>2. /\ rq \in Seq(T) /\ Len(rq) = Len(q) /\ \A i \in 1 .. Len(q) : rq[i] = q[(Len(q) - i) + 1]
  BY DEF Reverse
<1>3. IsSuffix(s, q) <=> IsPrefix(rs, rq)
  BY DEF IsSuffix
<1> HIDE DEF rs, rq
<1>4. IsPrefix(rs, rq) <=> Len(s) <= Len(q) /\ \A i \in 1 .. Len(s) : rs[i] = rq[i]
  BY <1>1, <1>2 DEF IsPrefix
<1>5. ASSUME Len(s) <= Len(q), \A i \in 1 .. Len(s) : rs[i] = rq[i], NEW i \in 1 .. Len(s)
      PROVE  s[i] = q[i + (Len(q) - Len(s))]
  <2>1. (Len(s) - i) + 1 \in 1 .. Len(s)
    OBVIOUS
  <2>2. rs[(Len(s) - i) + 1] = s[i]
    BY <2>1, <1>1
  <2>3. rq[(Len(s) - i) + 1] = q[i + (Len(q) - Len(s))]
    <3>1. (Len(s) - i) + 1 \in 1 .. Len(q)
      BY <2>1, <1>5
    <3>2. (Len(q) - ((Len(s) - i) + 1)) + 1 = i + (Len(q) - Len(s))
      OBVIOUS
    <3> QED BY <3>1, <3>2, <1>2
  <2>4. rs[(Len(s) - i) + 1] = rq[(Len(s) - i) + 1]
    BY <2>1, <1>5
  <2> QED BY <2>2, <2>3, <2>4
<1>6. ASSUME Len(s) <= Len(q), \A i \in 1 .. Len(s) : s[i] = q[i + (Len(q) - Len(s))],
             NEW i \in 1 .. Len(s)
      PROVE  rs[i] = rq[i]
  <2>1. (Len(s) - i) + 1 \in 1 .. Len(s)
    OBVIOUS
  <2>2. s[(Len(s) - i) + 1] = q[((Len(s) - i) + 1) + (Len(q) - Len(s))]
    BY <2>1, <1>6
  <2>3. rs[i] = s[(Len(s) - i) + 1]
    BY <1>1
  <2>4. rq[i] = q[(Len(q) - i) + 1]
    <3>1. i \in 1 .. Len(q)
      BY <1>6
    <3> QED BY <3>1, <1>2
  <2>5. ((Len(s) - i) + 1) + (Len(q) - Len(s)) = (Len(q) - i) + 1
    OBVIOUS
  <2> QED BY <2>2, <2>3, <2>4, <2>5
<1> QED BY <1>3, <1>4, <1>5, <1>6

LEMMA SuffixRange ==
  ASSUME NEW T, NEW s \in Seq(T), NEW q \in Seq(T), IsSuffix(s, q)
  PROVE  Range(s) \subseteq Range(q)
<1> SUFFICES ASSUME NEW x \in Range(s) PROVE x \in Range(q)
  OBVIOUS
<1>0. PICK i \in 1 .. Len(s) : s[i] = x
  BY RangeOf
<1>1. i + (Len(q) - Len(s)) \in 1 .. Len(q) /\ s[i] = q[i + (Len(q) - Len(s))]
  BY SuffixIs
<1> QED BY <1>0, <1>1, RangeOf

LEMMA SuffixInjective ==
  ASSUME NEW T, NEW s \in Seq(T), NEW q \in Seq(T), IsSuffix(s, q), IsInjective(q)
  PROVE  IsInjective(s)
<1> SUFFICES ASSUME NEW i \in 1 .. Len(s), NEW k \in 1 .. Len(s), s[i] = s[k] PROVE i = k
  BY DEF IsInjective
<1>1. /\ i + (Len(q) - Len(s)) \in 1 .. Len(q) /\ s[i] = q[i + (Len(q) - Len(s))]
      /\ k + (Len(q) - Len(s)) \in 1 .. Len(q) /\ s[k] = q[k + (Len(q) - Len(s))]
  <2>1. Len(s) <= Len(q) /\ \A n \in 1 .. Len(s) : s[n] = q[n + (Len(q) - Len(s))]
    BY SuffixIs
  <2> QED BY <2>1
<1>2. \A m, n \in 1 .. Len(q) : q[m] = q[n] => m = n
  BY DEF IsInjective
<1>3. i + (Len(q) - Len(s)) = k + (Len(q) - Len(s))
  BY <1>1, <1>2
<1> QED BY <1>3

\* The end of a sequence that does not hold t is not touched when t is struck off.
LEMMA SuffixRemoved ==
  ASSUME NEW T, NEW s \in Seq(T), NEW q \in Seq(T), NEW t, IsSuffix(s, q), IsInjective(q),
         t \notin Range(s)
  PROVE  IsSuffix(s, RemoveFirst(q, t))
<1>1. CASE t \in Range(q)
  <2>1. PICK j \in 1 .. Len(q) : q[j] = t
    BY <1>1, RangeOf
  <2> DEFINE r == RemoveAt(q, j)
  <2>2. /\ r \in Seq(T) /\ Len(r) = Len(q) - 1
        /\ \A i \in 1 .. Len(q) - 1 : r[i] = IF i < j THEN q[i] ELSE q[i + 1]
    BY RemoveAtElements
  <2>3. RemoveFirst(q, t) = r
    BY RemoveFirstIs, <2>1
  <2> HIDE DEF r
  <2>4. Len(s) <= Len(q) /\ \A i \in 1 .. Len(s) : s[i] = q[i + (Len(q) - Len(s))]
    BY SuffixIs
  <2>5. j <= Len(q) - Len(s)
    <3>1. ASSUME j > Len(q) - Len(s) PROVE FALSE
      <4>1. j - (Len(q) - Len(s)) \in 1 .. Len(s)
        BY <3>1, <2>4
      <4>2. (j - (Len(q) - Len(s))) + (Len(q) - Len(s)) = j
        OBVIOUS
      <4>3. s[j - (Len(q) - Len(s))] = t
        BY <4>1, <4>2, <2>4, <2>1
      <4> QED BY <4>1, <4>3, RangeOf
    <3> QED BY <3>1
  <2>6. Len(s) <= Len(r)
    BY <2>5, <2>2
  <2>7. ASSUME NEW i \in 1 .. Len(s) PROVE s[i] = r[i + (Len(r) - Len(s))]
    <3>1. i + (Len(r) - Len(s)) \in 1 .. Len(q) - 1 /\ ~(i + (Len(r) - Len(s)) < j)
      BY <2>5, <2>2
    <3>2. (i + (Len(r) - Len(s))) + 1 = i + (Len(q) - Len(s))
      BY <2>2
    <3>3. r[i + (Len(r) - Len(s))] = q[i + (Len(q) - Len(s))]
      BY <3>1, <3>2, <2>2
    <3> QED BY <3>3, <2>4
  <2> QED BY <2>2, <2>3, <2>6, <2>7, SuffixIs
<1>2. CASE t \notin Range(q)
  BY <1>2, RemoveFirstMissing
<1> QED BY <1>1, <1>2

\* Adding to both.
LEMMA SuffixAppend ==
  ASSUME NEW T, NEW s \in Seq(T), NEW q \in Seq(T), NEW t \in T, IsSuffix(s, q)
  PROVE  IsSuffix(Append(s, t), Append(q, t))
<1> DEFINE a == Append(s, t)
           b == Append(q, t)
<1>1. /\ a \in Seq(T) /\ Len(a) = Len(s) + 1 /\ a[Len(s) + 1] = t
      /\ \A i \in 1 .. Len(s) : a[i] = s[i]
  OBVIOUS
<1>2. /\ b \in Seq(T) /\ Len(b) = Len(q) + 1 /\ b[Len(q) + 1] = t
      /\ \A i \in 1 .. Len(q) : b[i] = q[i]
  OBVIOUS
<1>3. Len(s) <= Len(q) /\ \A i \in 1 .. Len(s) : s[i] = q[i + (Len(q) - Len(s))]
  BY SuffixIs
<1> HIDE DEF a, b
<1>4. Len(a) <= Len(b) /\ Len(b) - Len(a) = Len(q) - Len(s)
  BY <1>1, <1>2, <1>3
<1>5. ASSUME NEW i \in 1 .. Len(a) PROVE a[i] = b[i + (Len(q) - Len(s))]
  <2>1. CASE i = Len(s) + 1
    BY <2>1, <1>1, <1>2
  <2>2. CASE i \in 1 .. Len(s)
    <3>1. i + (Len(q) - Len(s)) \in 1 .. Len(q)
      BY <2>2, <1>3
    <3> QED BY <2>2, <3>1, <1>1, <1>2, <1>3
  <2> QED BY <2>1, <2>2, <1>1
<1> QED BY <1>1, <1>2, <1>4, <1>5, SuffixIs DEF a, b

LEMMA AppendedTo ==
  ASSUME NEW T, NEW q \in Seq(T), NEW t \in T
  PROVE  /\ Append(q, t) \in Seq(T)
         /\ Range(Append(q, t)) = Range(q) \cup {t}
         /\ IsInjective(q) /\ t \notin Range(q) => IsInjective(Append(q, t))
<1> DEFINE b == Append(q, t)
<1>1. /\ b \in Seq(T) /\ Len(b) = Len(q) + 1 /\ b[Len(q) + 1] = t
      /\ \A i \in 1 .. Len(q) : b[i] = q[i]
  OBVIOUS
<1> HIDE DEF b
<1>2. ASSUME NEW x PROVE x \in Range(b) <=> x \in Range(q) \cup {t}
  <2>1. x \in Range(b) <=> \E i \in 1 .. Len(q) + 1 : b[i] = x
    BY <1>1, RangeOf
  <2>2. x \in Range(q) <=> \E i \in 1 .. Len(q) : q[i] = x
    BY RangeOf
  <2>3. ASSUME NEW i \in 1 .. Len(q) + 1, b[i] = x PROVE x \in Range(q) \cup {t}
    BY <2>3, <2>2, <1>1
  <2>4. ASSUME NEW i \in 1 .. Len(q), q[i] = x PROVE x \in Range(b)
    BY <2>4, <2>1, <1>1
  <2>5. t \in Range(b)
    BY <1>1, RangeOf
  <2> QED BY <2>1, <2>2, <2>3, <2>4, <2>5
<1>3. ASSUME IsInjective(q), t \notin Range(q) PROVE IsInjective(b)
  <2>1. \A i \in 1 .. Len(q) : q[i] # t
    BY <1>3, RangeOf
  <2> QED BY <2>1, <1>1, <1>3 DEF IsInjective
<1> QED BY <1>1, <1>2, <1>3 DEF b

\* The first of a sequence, and the rest.
LEMMA HeadAndTail ==
  ASSUME NEW T, NEW q \in Seq(T), q # <<>>
  PROVE  /\ Head(q) \in T /\ Tail(q) \in Seq(T) /\ Len(Tail(q)) = Len(q) - 1
         /\ Range(q) = {Head(q)} \cup Range(Tail(q))
         /\ IsSuffix(Tail(q), q)
         /\ IsInjective(q) => Head(q) \notin Range(Tail(q))
<1> DEFINE r == Tail(q)
<1>1. /\ Head(q) \in T /\ Head(q) = q[1] /\ r \in Seq(T) /\ Len(r) = Len(q) - 1 /\ Len(q) \in Nat \ {0}
      /\ \A i \in 1 .. Len(q) - 1 : r[i] = q[i + 1]
  OBVIOUS
<1> HIDE DEF r
<1>2. ASSUME NEW x PROVE x \in Range(q) <=> x \in {q[1]} \cup Range(r)
  <2>1. x \in Range(q) <=> \E i \in 1 .. Len(q) : q[i] = x
    BY RangeOf
  <2>2. x \in Range(r) <=> \E i \in 1 .. Len(q) - 1 : r[i] = x
    BY RangeOf, <1>1
  <2>3. ASSUME NEW i \in 1 .. Len(q), q[i] = x PROVE x \in {q[1]} \cup Range(r)
    <3>1. CASE i = 1
      BY <2>3, <3>1
    <3>2. CASE i # 1
      <4>1. i - 1 \in 1 .. Len(q) - 1 /\ (i - 1) + 1 = i
        BY <3>2, <1>1
      <4> QED BY <4>1, <2>2, <2>3, <1>1
    <3> QED BY <3>1, <3>2
  <2>4. ASSUME NEW i \in 1 .. Len(q) - 1, r[i] = x PROVE x \in Range(q)
    BY <2>4, <2>1, <1>1
  <2>5. q[1] \in Range(q)
    BY <1>1, RangeOf
  <2> QED BY <2>1, <2>2, <2>3, <2>4, <2>5
<1>3. IsSuffix(r, q)
  <2>1. Len(q) - Len(r) = 1
    BY <1>1
  <2> QED BY <1>1, <2>1, SuffixIs
<1>4. IsInjective(q) => q[1] \notin Range(r)
  <2> SUFFICES ASSUME IsInjective(q), NEW i \in 1 .. Len(q) - 1, r[i] = q[1] PROVE FALSE
    BY <1>1, RangeOf
  <2>1. q[i + 1] = q[1] /\ i + 1 \in DOMAIN q /\ 1 \in DOMAIN q /\ i + 1 # 1
    BY <1>1
  <2> QED BY <2>1 DEF IsInjective
<1> QED BY <1>1, <1>2, <1>3, <1>4 DEF r

LEMMA EmptyAndOne ==
  /\ \A T : <<>> \in Seq(T)
  /\ Range(<<>>) = {} /\ IsInjective(<<>>)
  /\ \A t : Range(<<t>>) = {t} /\ IsInjective(<<t>>)
BY DEF Range, IsInjective

LEMMA SuffixSelf ==
  ASSUME NEW T, NEW q \in Seq(T)
  PROVE  IsSuffix(q, q) /\ IsSuffix(<<>>, q)
<1>1. IsSuffix(q, q)
  BY SuffixIs
<1> DEFINE e == <<>>
<1>2. e \in Seq(T) /\ Len(e) = 0
  OBVIOUS
<1> HIDE DEF e
<1>3. Len(e) <= Len(q) /\ \A i \in 1 .. Len(e) : e[i] = q[i + (Len(q) - Len(e))]
  BY <1>2
<1>4. IsSuffix(e, q)
  BY <1>2, <1>3, SuffixIs
<1> QED BY <1>1, <1>4 DEF e

LEMMA SuffixOfSuffix ==
  ASSUME NEW T, NEW s \in Seq(T), NEW q \in Seq(T), NEW r \in Seq(T), IsSuffix(s, q), IsSuffix(q, r)
  PROVE  IsSuffix(s, r)
<1>1. Len(s) <= Len(q) /\ \A i \in 1 .. Len(s) : s[i] = q[i + (Len(q) - Len(s))]
  BY SuffixIs
<1>2. Len(q) <= Len(r) /\ \A i \in 1 .. Len(q) : q[i] = r[i + (Len(r) - Len(q))]
  BY SuffixIs
<1>3. ASSUME NEW i \in 1 .. Len(s) PROVE s[i] = r[i + (Len(r) - Len(s))]
  <2>1. i + (Len(q) - Len(s)) \in 1 .. Len(q)
    BY <1>1
  <2>2. (i + (Len(q) - Len(s))) + (Len(r) - Len(q)) = i + (Len(r) - Len(s))
    OBVIOUS
  <2> QED BY <2>1, <2>2, <1>1, <1>2
<1> QED BY <1>1, <1>2, <1>3, SuffixIs

\* What a drain takes from a queue, and leaves.
LEMMA DrainSplits ==
  ASSUME NEW T, NEW queue \in Seq(T)
  PROVE  /\ Drained(queue) \in Seq(T) /\ Left(queue) \in Seq(T)
         /\ Drained(queue) = <<>> <=> queue = <<>>
         /\ Range(queue) = Range(Drained(queue)) \cup Range(Left(queue))
         /\ IsSuffix(Left(queue), queue)
         /\ IsInjective(queue) => /\ IsInjective(Drained(queue))
                                  /\ Range(Drained(queue)) \cap Range(Left(queue)) = {}
<1>1. CASE agent.mode = "all" \/ queue = <<>>
  <2>1. Drained(queue) = queue /\ Left(queue) = <<>>
    BY <1>1 DEF Drained, Left
  <2> QED BY <2>1, EmptyAndOne, SuffixSelf
<1>2. CASE ~(agent.mode = "all" \/ queue = <<>>)
  <2>1. Drained(queue) = <<Head(queue)>> /\ Left(queue) = Tail(queue) /\ queue # <<>>
    BY <1>2 DEF Drained, Left
  <2>2. <<Head(queue)>> \in Seq(T) /\ <<Head(queue)>> # <<>>
    BY <2>1, HeadAndTail
  <2> QED BY <2>1, <2>2, HeadAndTail, EmptyAndOne
<1> QED BY <1>1, <1>2

------------------------------------------------------------------------------
(* The types, and what the helpers keep of them.                           *)

\* The types of the records.
Pcs      == {"idle", "preflight", "running", "sleep", "cancelled", "overflow", "length",
             "threshold", "continue", "done", "settling"}
Sessions == [active : BOOLEAN, connected : BOOLEAN, attempt : 0 .. MaxRetries,
             retrying : Prompter \cup {None}, recovered : BOOLEAN,
             last : Replies \cup {"none", "aborted"}, waiting : SUBSET {"abort", "compact"},
             steering : Seq(Text), followUp : Seq(Text), bash : 0 .. MaxBash]
Agents   == [run : BOOLEAN, aborted : BOOLEAN, mode : {"all", "one-at-a-time"},
             steering : Seq(Text), followUp : Seq(Text), trail : Nat]
Loops    == [pc : {"none", "prompt", "start", "inject", "stream", "tools", "turn", "end"},
             pending : Seq(Text), skip : BOOLEAN, calls : 0 .. MaxCalls, more : BOOLEAN]
Prompts  == [pc : Pcs, text : Text \cup {None}]
Logs     == [texts : SUBSET Text, trail : Nat]
Users    == [said : 0 .. MaxTexts, told : SUBSET Text, unheard : SUBSET Text, failures : Nat,
             crossed : BOOLEAN]

LEMMA Types ==
  TypeOK <=> /\ session \in Sessions
             /\ agent \in Agents
             /\ loop \in Loops
             /\ prompt \in [Prompter -> Prompts]
             /\ log \in Logs
             /\ manual \in {"none", "waits", "compacting"}
             /\ user \in Users
             /\ spent \in 0 .. MaxReplies
BY DEF TypeOK, Sessions, Agents, Loops, Prompts, Pcs, Logs, Users

LEMMA TypesNext ==
  TypeOK' <=> /\ session' \in Sessions
              /\ agent' \in Agents
              /\ loop' \in Loops
              /\ prompt' \in [Prompter -> Prompts]
              /\ log' \in Logs
              /\ manual' \in {"none", "waits", "compacting"}
              /\ user' \in Users
              /\ spent' \in 0 .. MaxReplies
BY DEF TypeOK, Sessions, Agents, Loops, Prompts, Pcs, Logs, Users

LEMMA Bounds ==
  /\ 0 \in 0 .. MaxRetries /\ 0 \in 0 .. MaxBash /\ 0 \in 0 .. MaxCalls /\ 0 \in 0 .. MaxReplies
  /\ MaxRetries \in Nat /\ MaxBash \in Nat /\ MaxCalls \in Nat /\ MaxReplies \in Nat
  /\ MaxTexts \in Nat
BY BoundAssumption

LEMMA GotoType ==
  ASSUME prompt \in [Prompter -> Prompts], NEW p \in Prompter, NEW pc \in Pcs, Goto(p, pc)
  PROVE  prompt' \in [Prompter -> Prompts]
BY DEF Goto, Prompts

LEMMA LessType ==
  ASSUME NEW n \in Nat
  PROVE  Less(n) \in Nat
BY DEF Less

LEMMA FlushType ==
  ASSUME TypeOK, NEW a \in Agents
  PROVE  FlushedAgent(a) \in Agents /\ FlushedLog \in Logs
BY Types DEF FlushedAgent, FlushedLog, Agents, Logs

LEMMA NoLoopType == NoLoop \in Loops
BY Bounds DEF NoLoop, Loops

LEMMA RunType ==
  ASSUME TypeOK, NEW p \in Prompter, NEW pc \in {"prompt", "start"}, NEW pending \in Seq(Text),
         NEW skip \in BOOLEAN, NEW a \in Agents, Run(p, pc, pending, skip, a)
  PROVE  /\ prompt' \in [Prompter -> Prompts] /\ agent' \in Agents /\ loop' \in Loops
<1>1. prompt' \in [Prompter -> Prompts]
  BY GotoType, Types DEF Run, Pcs
<1> QED BY <1>1, NoLoopType DEF Run, Agents, Loops

LEMMA RestType ==
  ASSUME TypeOK, NEW p \in Prompter, NEW msg, NEW s \in Sessions, NEW a \in Agents, Rest(p, msg, s, a)
  PROVE  session' \in Sessions /\ prompt' \in [Prompter -> Prompts] /\ agent' \in Agents
<1>1. prompt \in [Prompter -> Prompts]
  BY Types
<1>2. [s EXCEPT !.recovered = TRUE] \in Sessions
  BY DEF Sessions
<1>3. [a EXCEPT !.trail = Less(@)] \in Agents
  BY LessType DEF Agents
<1>4. prompt' \in [Prompter -> Prompts]
  BY <1>1, GotoType DEF Rest, Pcs
<1> QED BY <1>2, <1>3, <1>4 DEF Rest

LEMMA AbortedType ==
  ASSUME TypeOK, NEW w \in {"abort", "compact"}, NEW s \in Sessions, Aborted(w, s)
  PROVE  session' \in Sessions /\ prompt' \in [Prompter -> Prompts] /\ agent' \in Agents
<1>1. session' \in Sessions
  BY Bounds DEF Aborted, Sessions
<1>2. prompt' \in [Prompter -> Prompts]
  BY Types DEF Aborted, Prompts, Pcs
<1>3. agent' \in Agents
  BY Types DEF Aborted, Agents
<1> QED BY <1>1, <1>2, <1>3

------------------------------------------------------------------------------
(* The steps of Next.                                                      *)

LEMMA Steps ==
  Next => \/ \E p \in Prompter : Cancelled(p) \/ Continue(p) \/ Settle(p)
          \/ /\ TaskIsOver
             /\ \/ \E p \in Prompter : \/ Prompt(p) \/ PreflightFails(p) \/ Begin(p)
                                       \/ RunEnds(p) \/ RetryElapsed(p) \/ Settled(p)
                                       \/ \E ok \in BOOLEAN : CompactionEnds(p, ok)
                \/ Inject \/ Start \/ (\E o \in Replies \cup {"aborted"} : Reply(o))
                \/ ToolResult \/ Turn
                \/ Steer \/ FollowUp \/ ClearQueue \/ Abort \/ RecordBash \/ Compact
                \/ \E ok \in BOOLEAN : CompactEnds(ok)
<1>1. \A p \in Prompter : Prompt(p) => TaskIsOver
  BY DEF Prompt
<1> QED BY <1>1 DEF Next, Goes, Works, LoopStep, UserStep

------------------------------------------------------------------------------
(* Every action keeps the types.                                           *)

LEMMA SlotType ==
  ASSUME prompt \in [Prompter -> Prompts], NEW p \in Prompter, NEW q \in Prompts
  PROVE  [prompt EXCEPT ![p] = q] \in [Prompter -> Prompts]
OBVIOUS

LEMMA NoPromptType == NoPrompt \in Prompts
BY DEF NoPrompt, Prompts, Pcs

\* The next text.
LEMMA NewText ==
  ASSUME TypeOK, user.said < MaxTexts
  PROVE  user.said + 1 \in Text /\ user.said + 1 \in 0 .. MaxTexts
BY Types, Bounds DEF Text, Users

LEMMA TypePrompt ==
  ASSUME TypeOK, NEW p \in Prompter, Prompt(p)
  PROVE  TypeOK'
<1>1. user.said + 1 \in Text /\ user.said + 1 \in 0 .. MaxTexts
  BY NewText DEF Prompt
<1>2. prompt' \in [Prompter -> Prompts]
  BY <1>1, Types, SlotType DEF Prompt, Prompts, Pcs
<1>3. user' \in Users
  BY <1>1, Types DEF Prompt, Users
<1>4. agent' \in Agents /\ log' \in Logs
  BY FlushType, Types DEF Prompt
<1>5. session' \in Sessions
  BY Bounds, Types DEF Prompt, Sessions
<1> QED BY <1>2, <1>3, <1>4, <1>5, Types, TypesNext DEF Prompt

LEMMA TypePreflightFails ==
  ASSUME TypeOK, RunInv, NEW p \in Prompter, PreflightFails(p)
  PROVE  TypeOK'
<1>1. prompt[p].text \in Text
  BY DEF RunInv, PreflightFails
<1>2. prompt' \in [Prompter -> Prompts]
  BY Types, SlotType, NoPromptType DEF PreflightFails
<1>3. user' \in Users
  BY <1>1, Types DEF PreflightFails, Users
<1> QED BY <1>2, <1>3, Types, TypesNext DEF PreflightFails

LEMMA TypeBegin ==
  ASSUME TypeOK, RunInv, NEW p \in Prompter, Begin(p)
  PROVE  TypeOK'
<1>1. prompt[p].text \in Text
  BY DEF RunInv, Begin
<1>2. session' \in Sessions
  BY Types DEF Begin, Sessions
<1>3. user' \in Users
  BY <1>1, Types DEF Begin, Users
<1>4. prompt' \in [Prompter -> Prompts] /\ agent' \in Agents /\ loop' \in Loops
  <2>1. CASE agent.run
    BY <2>1, GotoType, Types DEF Begin, Pcs
  <2>2. CASE ~agent.run
    <3>1. <<prompt[p].text>> \in Seq(Text)
      BY <1>1
    <3> QED BY <2>2, <3>1, RunType, Types DEF Begin
  <2> QED BY <2>1, <2>2
<1> QED BY <1>2, <1>3, <1>4, Types, TypesNext DEF Begin

LEMMA TypeRunEnds ==
  ASSUME TypeOK, NEW p \in Prompter, RunEnds(p)
  PROVE  TypeOK'
<1> DEFINE s == [session EXCEPT !.last = "none"]
           s0 == [s EXCEPT !.attempt = 0]
           a == [agent EXCEPT !.run = FALSE]
<1>1. s \in Sessions /\ s0 \in Sessions /\ a \in Agents
  BY Types, Bounds DEF Sessions, Agents
<1>2. session' \in Sessions /\ prompt' \in [Prompter -> Prompts] /\ agent' \in Agents
  <2>1. CASE session.last = "error" /\ session.attempt < MaxRetries
    <3>1. session' = [s EXCEPT !.attempt = @ + 1, !.retrying = p]
      BY <2>1 DEF RunEnds
    <3>2. session.attempt + 1 \in 0 .. MaxRetries
      BY <2>1, Types, Bounds DEF Sessions
    <3>3. session' \in Sessions
      BY <3>1, <3>2, Types DEF Sessions
    <3>4. agent' \in Agents
      <4>1. agent' = [a EXCEPT !.trail = Less(@)]
        BY <2>1 DEF RunEnds
      <4> QED BY <4>1, <1>1, LessType DEF Agents
    <3> QED BY <2>1, <3>3, <3>4, GotoType, Types DEF RunEnds, Pcs
  <2>2. CASE ~(session.last = "error" /\ session.attempt < MaxRetries)
    <3>1. Rest(p, session.last, s0, a) \/ Rest(p, session.last, s, a)
      BY <2>2 DEF RunEnds
    <3> QED BY <3>1, <1>1, RestType
  <2> QED BY <2>1, <2>2
<1> QED BY <1>2, NoLoopType, Types, TypesNext DEF RunEnds

LEMMA TypeRetryElapsed ==
  ASSUME TypeOK, NEW p \in Prompter, RetryElapsed(p)
  PROVE  TypeOK'
<1>1. session' \in Sessions
  BY Types DEF RetryElapsed, Sessions
<1>2. prompt' \in [Prompter -> Prompts]
  BY GotoType, Types DEF RetryElapsed, Pcs
<1> QED BY <1>1, <1>2, Types, TypesNext DEF RetryElapsed

LEMMA TypeCancelled ==
  ASSUME TypeOK, NEW p \in Prompter, Cancelled(p)
  PROVE  TypeOK'
<1>1. session' \in Sessions /\ prompt' \in [Prompter -> Prompts] /\ agent' \in Agents
  BY RestType, Types DEF Cancelled
<1> QED BY <1>1, Types, TypesNext DEF Cancelled

LEMMA TypeCompactionEnds ==
  ASSUME TypeOK, NEW p \in Prompter, NEW ok \in BOOLEAN, CompactionEnds(p, ok)
  PROVE  TypeOK'
<1>1. agent' \in Agents
  <2>1. log.trail \in Nat /\ Less(log.trail) \in Nat
    BY LessType, Types DEF Logs
  <2> QED BY <2>1, Types DEF CompactionEnds, Agents
<1>2. prompt' \in [Prompter -> Prompts]
  BY GotoType, Types DEF CompactionEnds, Pcs
<1> QED BY <1>1, <1>2, Types, TypesNext DEF CompactionEnds

LEMMA TypeContinue ==
  ASSUME TypeOK, NEW p \in Prompter, Continue(p)
  PROVE  TypeOK'
<1> DEFINE s == [agent EXCEPT !.steering = Left(@)]
           f == [agent EXCEPT !.followUp = Left(@)]
<1>1. /\ Drained(agent.steering) \in Seq(Text) /\ Left(agent.steering) \in Seq(Text)
      /\ Drained(agent.followUp) \in Seq(Text) /\ Left(agent.followUp) \in Seq(Text)
  BY Types, DrainSplits DEF Agents
<1>2. s \in Agents /\ f \in Agents /\ agent \in Agents
  BY <1>1, Types DEF Agents
<1>3. prompt' \in [Prompter -> Prompts] /\ agent' \in Agents /\ loop' \in Loops
  <2>1. CASE Run(p, "start", <<>>, FALSE, agent)
    <3>1. <<>> \in Seq(Text)
      OBVIOUS
    <3> QED BY <2>1, <3>1, <1>2, RunType
  <2>2. CASE Run(p, "prompt", Drained(agent.steering), TRUE, s)
    BY <2>2, <1>1, <1>2, RunType
  <2>3. CASE Run(p, "prompt", Drained(agent.followUp), FALSE, f)
    BY <2>3, <1>1, <1>2, RunType
  <2>4. CASE Goto(p, "done") /\ UNCHANGED <<agent, loop>>
    <3>1. "done" \in Pcs
      BY DEF Pcs
    <3> QED BY <2>4, <3>1, GotoType, Types
  <2>5. CASE ~agent.run /\ agent.trail = 0
    BY <2>5, <2>1 DEF Continue
  <2>6. CASE ~agent.run /\ agent.trail # 0 /\ Drained(agent.steering) # <<>>
    BY <2>6, <2>2 DEF Continue
  <2>7. CASE /\ ~agent.run /\ agent.trail # 0 /\ Drained(agent.steering) = <<>>
             /\ Drained(agent.followUp) # <<>>
    BY <2>7, <2>3 DEF Continue
  <2>8. CASE \/ agent.run
             \/ agent.trail # 0 /\ Drained(agent.steering) = <<>> /\ Drained(agent.followUp) = <<>>
    BY <2>8, <2>4 DEF Continue
  <2> QED BY <2>5, <2>6, <2>7, <2>8
<1> QED BY <1>3, Types, TypesNext DEF Continue

LEMMA TypeSettle ==
  ASSUME TypeOK, NEW p \in Prompter, Settle(p)
  PROVE  TypeOK'
<1>1. session' \in Sessions
  BY Bounds, Types DEF Settle, Sessions
<1>2. prompt' \in [Prompter -> Prompts]
  BY GotoType, Types DEF Settle, Pcs
<1>3. agent' \in Agents /\ log' \in Logs
  BY FlushType, Types DEF Settle
<1> QED BY <1>1, <1>2, <1>3, Types, TypesNext DEF Settle

LEMMA TypeSettled ==
  ASSUME TypeOK, NEW p \in Prompter, Settled(p)
  PROVE  TypeOK'
<1>1. session' \in Sessions /\ manual' \in {"none", "waits", "compacting"}
  BY Types DEF Settled, Sessions
<1>2. prompt' \in [Prompter -> Prompts]
  BY SlotType, NoPromptType, Types DEF Settled
<1> QED BY <1>1, <1>2, Types, TypesNext DEF Settled

LEMMA TypeInject ==
  ASSUME TypeOK, RunInv, TextInv, Inject
  PROVE  TypeOK'
<1> DEFINE t == Head(loop.pending)
<1>1. t \in Text /\ Tail(loop.pending) \in Seq(Text)
  BY Types, HeadAndTail DEF RunInv, Inject, Loops
<1>2. /\ RemoveFirst(session.steering, t) \in Seq(Text)
      /\ RemoveFirst(session.followUp, t) \in Seq(Text)
  BY Types, Removed DEF TextInv, Lists, Sessions
<1> HIDE DEF t
<1>3. agent' \in Agents
  BY Types DEF Inject, Agents
<1>4. loop' \in Loops
  BY <1>1, Types DEF Inject, Loops, t
<1>5. CASE session.connected
  <2>1. /\ \/ session' = [session EXCEPT !.recovered = FALSE,
                              !.steering = RemoveFirst(@, t)]
           \/ session' = [session EXCEPT !.recovered = FALSE,
                              !.steering = RemoveFirst(@, t),
                              !.followUp = RemoveFirst(@, t)]
        /\ log' = [log EXCEPT !.texts = @ \cup {t}, !.trail = 0]
        /\ user' = [user EXCEPT !.failures = 0]
    BY <1>5 DEF Inject, t
  <2>2. session' \in Sessions
    BY <1>2, <2>1, Types DEF Sessions
  <2>3. log' \in Logs /\ user' \in Users
    BY <1>1, <2>1, Types DEF Logs, Users
  <2> QED BY <1>3, <1>4, <2>2, <2>3, Types, TypesNext DEF Inject
<1>6. CASE ~session.connected
  <2>1. /\ user' = [user EXCEPT !.failures = 0, !.unheard = @ \cup {t}]
        /\ UNCHANGED <<session, log>>
    BY <1>6 DEF Inject, t
  <2>2. user' \in Users
    BY <1>1, <2>1, Types DEF Users
  <2> QED BY <1>3, <1>4, <2>1, <2>2, Types, TypesNext DEF Inject
<1> QED BY <1>5, <1>6

LEMMA TypeStart ==
  ASSUME TypeOK, Start
  PROVE  TypeOK'
<1>1. Drained(agent.steering) \in Seq(Text) /\ Left(agent.steering) \in Seq(Text)
  BY Types, DrainSplits DEF Agents
<1>2. loop' \in Loops
  BY <1>1, EmptyAndOne, Types DEF Start, Loops
<1>3. agent' \in Agents
  BY <1>1, Types DEF Start, Agents
<1> QED BY <1>2, <1>3, Types, TypesNext DEF Start

LEMMA TypeReply ==
  ASSUME TypeOK, NEW o \in Replies \cup {"aborted"}, Reply(o)
  PROVE  TypeOK'
<1>1. agent' = [agent EXCEPT !.trail = @ + 1]
  BY DEF Reply
<1>2. agent' \in Agents
  BY <1>1, Types DEF Agents
<1>3. loop' \in Loops
  <2>1. \/ \E n \in 1 .. MaxCalls : loop' = [loop EXCEPT !.pc = "tools", !.calls = n]
        \/ loop' = [loop EXCEPT !.pc = "turn", !.more = FALSE]
        \/ loop' = [loop EXCEPT !.pc = "end"]
    BY Zenon DEF Reply
  <2>2. \A n \in 1 .. MaxCalls : n \in 0 .. MaxCalls
    BY Bounds
  <2>3. loop \in Loops
    BY Types
  <2> QED BY <2>1, <2>2, <2>3 DEF Loops
<1>4. user' \in Users
  <2>1. user' = [user EXCEPT !.failures = IF o \in Errors THEN @ + 1 ELSE 0]
    BY DEF Reply
  <2> QED BY <2>1, Types DEF Users
<1>5. session' \in Sessions /\ log' \in Logs
  <2>1. \/ session' = session /\ log' = log
        \/ /\ session' = [session EXCEPT !.last = o,
                                         !.recovered = IF o \in Errors THEN @ ELSE FALSE,
                                         !.attempt = IF o \in Errors THEN @ ELSE 0]
           /\ log' = [log EXCEPT !.trail = @ + 1]
    BY DEF Reply
  <2>2. session \in Sessions /\ log \in Logs
    BY Types
  <2>3. session' \in Sessions
    BY <2>1, <2>2, Bounds DEF Sessions
  <2>4. log' \in Logs
    BY <2>1, <2>2 DEF Logs
  <2> QED BY <2>3, <2>4
<1>6. spent' \in 0 .. MaxReplies
  <2>1. \/ spent' = spent
        \/ spent < MaxReplies /\ spent' = spent + 1
    BY DEF Reply
  <2> QED BY <2>1, Types, Bounds
<1>7. UNCHANGED <<prompt, manual>>
  BY DEF Reply
<1> QED BY <1>2, <1>3, <1>4, <1>5, <1>6, <1>7, Types, TypesNext

LEMMA TypeToolResult ==
  ASSUME TypeOK, RunInv, ToolResult
  PROVE  TypeOK'
<1>1. agent' \in Agents
  BY Types DEF ToolResult, Agents
<1>2. loop' \in Loops
  <2>1. loop \in Loops
    BY Types
  <2>2. loop.calls # 0
    BY DEF ToolResult, RunInv
  <2>3. \/ \E goesOn \in BOOLEAN : loop' = [loop EXCEPT !.calls = 0, !.pc = "turn", !.more = goesOn]
        \/ loop' = [loop EXCEPT !.calls = @ - 1]
    BY DEF ToolResult
  <2>4. loop.calls - 1 \in 0 .. MaxCalls /\ 0 \in 0 .. MaxCalls
    BY <2>1, <2>2, Bounds DEF Loops
  <2> QED BY <2>1, <2>3, <2>4 DEF Loops
<1>3. log' \in Logs
  BY Types DEF ToolResult, Logs
<1> QED BY <1>1, <1>2, <1>3, Types, TypesNext DEF ToolResult

LEMMA TypeTurn ==
  ASSUME TypeOK, Turn
  PROVE  TypeOK'
<1>1. /\ Drained(agent.steering) \in Seq(Text) /\ Left(agent.steering) \in Seq(Text)
      /\ Drained(agent.followUp) \in Seq(Text) /\ Left(agent.followUp) \in Seq(Text)
  BY Types, DrainSplits DEF Agents
<1>2. loop' \in Loops
  BY <1>1, Types DEF Turn, Loops
<1>3. agent' \in Agents
  BY <1>1, Types DEF Turn, Agents
<1> QED BY <1>2, <1>3, Types, TypesNext DEF Turn

LEMMA TypeUser ==
  ASSUME TypeOK, UserStep \/ \E ok \in BOOLEAN : CompactEnds(ok)
  PROVE  TypeOK'
<1>1. CASE Steer
  <2>1. user.said + 1 \in Text /\ user.said + 1 \in 0 .. MaxTexts
    BY <1>1, NewText DEF Steer
  <2>2. session' \in Sessions /\ agent' \in Agents /\ user' \in Users
    BY <1>1, <2>1, Types, AppendedTo DEF Steer, Sessions, Agents, Users
  <2> QED BY <1>1, <2>2, Types, TypesNext DEF Steer
<1>2. CASE FollowUp
  <2>1. user.said + 1 \in Text /\ user.said + 1 \in 0 .. MaxTexts
    BY <1>2, NewText DEF FollowUp
  <2>2. session' \in Sessions /\ agent' \in Agents /\ user' \in Users
    BY <1>2, <2>1, Types, AppendedTo DEF FollowUp, Sessions, Agents, Users
  <2> QED BY <1>2, <2>2, Types, TypesNext DEF FollowUp
<1>3. CASE ClearQueue
  <2>1. session' \in Sessions /\ agent' \in Agents
    BY <1>3, Types, EmptyAndOne DEF ClearQueue, Sessions, Agents
  <2>2. Range(session.steering \o session.followUp) \subseteq Text
    <3> DEFINE both == session.steering \o session.followUp
    <3>1. both \in Seq(Text)
      BY Types, ConcatProperties DEF Sessions
    <3> HIDE DEF both
    <3>2. ASSUME NEW x \in Range(both) PROVE x \in Text
      BY <3>1, RangeOf
    <3> QED BY <3>2 DEF both
  <2>3. user' \in Users
    BY <1>3, <2>2, Types DEF ClearQueue, Users
  <2> QED BY <1>3, <2>1, <2>3, Types, TypesNext DEF ClearQueue
<1>4. CASE Abort
  <2>1. session' \in Sessions /\ prompt' \in [Prompter -> Prompts] /\ agent' \in Agents
    BY <1>4, AbortedType, Types DEF Abort
  <2>2. user' \in Users
    BY <1>4, Types DEF Abort, Users
  <2> QED BY <1>4, <2>1, <2>2, Types, TypesNext DEF Abort
<1>5. CASE RecordBash
  <2>1. session' \in Sessions
    <3>1. session.bash < MaxBash => session.bash + 1 \in 0 .. MaxBash
      BY Types, Bounds DEF Sessions
    <3> QED BY <1>5, <3>1, Types DEF RecordBash, Sessions
  <2>2. agent' \in Agents /\ log' \in Logs
    BY <1>5, Types DEF RecordBash, Agents, Logs
  <2> QED BY <1>5, <2>1, <2>2, Types, TypesNext DEF RecordBash
<1>6. CASE Compact
  <2>1. [session EXCEPT !.connected = FALSE] \in Sessions
    BY Types DEF Sessions
  <2>2. session' \in Sessions /\ prompt' \in [Prompter -> Prompts] /\ agent' \in Agents
    BY <1>6, <2>1, AbortedType DEF Compact
  <2>3. user' \in Users
    BY <1>6, Types DEF Compact, Users, Sessions
  <2> QED BY <1>6, <2>2, <2>3, Types, TypesNext DEF Compact
<1>7. ASSUME NEW ok \in BOOLEAN, CompactEnds(ok) PROVE TypeOK'
  <2>1. session' \in Sessions /\ agent' \in Agents
    BY <1>7, Types DEF CompactEnds, Sessions, Agents, Logs
  <2> QED BY <1>7, <2>1, Types, TypesNext DEF CompactEnds
<1> QED BY <1>1, <1>2, <1>3, <1>4, <1>5, <1>6, <1>7 DEF UserStep

------------------------------------------------------------------------------
(* What each action does, field by field.                                  *)

\* The call p goes to pc; calls keep their texts.
Moved(p, pc) ==
  \A q \in Prompter : /\ prompt'[q].pc = (IF q = p THEN pc ELSE prompt[q].pc)
                      /\ prompt'[q].text = prompt[q].text

\* What a step leaves alone of the session but for its count and recovery, of the agent but for its
\* context, and of the queues.
SameSession == /\ session'.active = session.active /\ session'.connected = session.connected
               /\ session'.retrying = session.retrying /\ session'.waiting = session.waiting
               /\ session'.bash = session.bash
SameLists   == session'.steering = session.steering /\ session'.followUp = session.followUp
SameQueues  == agent'.steering = agent.steering /\ agent'.followUp = agent.followUp
SameUser    == user'.crossed = user.crossed /\ user'.failures = user.failures
SameTexts   == /\ user'.said = user.said /\ user'.told = user.told /\ user'.unheard = user.unheard
               /\ log'.texts = log.texts

LEMMA GotoDoes ==
  ASSUME TypeOK, NEW p \in Prompter, NEW pc, Goto(p, pc)
  PROVE  Moved(p, pc)
<1>1. prompt \in [Prompter -> Prompts]
  BY Types
<1> QED BY <1>1 DEF Goto, Moved, Prompts

LEMMA FlushDoes ==
  ASSUME TypeOK, NEW a \in Agents
  PROVE  /\ FlushedAgent(a).run = a.run /\ FlushedAgent(a).aborted = a.aborted
         /\ FlushedAgent(a).steering = a.steering /\ FlushedAgent(a).followUp = a.followUp
         /\ FlushedAgent(a).trail = a.trail \/ FlushedAgent(a).trail = 0
         /\ FlushedLog.texts = log.texts
<1>1. log \in Logs
  BY Types
<1> QED BY <1>1 DEF FlushedAgent, FlushedLog, Agents, Logs

LEMMA PromptDoes ==
  ASSUME TypeOK, NEW p \in Prompter, Prompt(p)
  PROVE  /\ \A q \in Prompter : q # p => prompt'[q] = prompt[q]
         /\ prompt[p].pc = "idle" /\ prompt'[p].pc = "preflight" /\ prompt'[p].text = user.said + 1
         /\ ~session.active /\ user.said < MaxTexts
         /\ "overlap" \in Faults \/ (manual = "none" /\ \A q \in Prompter : prompt[q].pc # "preflight")
         /\ user'.said = user.said + 1 /\ user'.told = user.told /\ user'.unheard = user.unheard
         /\ SameUser /\ SameQueues /\ SameLists
         /\ agent'.run = agent.run /\ agent'.aborted = agent.aborted
         /\ agent'.trail = agent.trail \/ agent'.trail = 0
         /\ log'.texts = log.texts
         /\ session'.active = session.active /\ session'.connected = session.connected
         /\ session'.retrying = session.retrying /\ session'.waiting = session.waiting
         /\ session'.bash = 0 /\ session'.last = session.last
         /\ session'.attempt = session.attempt /\ session'.recovered = session.recovered
         /\ UNCHANGED <<loop, manual, spent>>
<1>1. /\ session \in Sessions /\ agent \in Agents /\ prompt \in [Prompter -> Prompts] /\ user \in Users
      /\ log \in Logs
  BY Types
<1>2. /\ prompt' = [prompt EXCEPT ![p] = [pc |-> "preflight", text |-> user.said + 1]]
      /\ user' = [user EXCEPT !.said = @ + 1]
      /\ agent' = FlushedAgent(agent) /\ log' = FlushedLog
      /\ session' = [session EXCEPT !.bash = 0]
      /\ prompt[p].pc = "idle" /\ ~session.active /\ user.said < MaxTexts
      /\ "overlap" \in Faults \/ (manual = "none" /\ \A q \in Prompter : prompt[q].pc # "preflight")
      /\ UNCHANGED <<loop, manual, spent>>
  BY DEF Prompt
<1>3. /\ \A q \in Prompter : q # p => prompt'[q] = prompt[q]
      /\ prompt'[p].pc = "preflight" /\ prompt'[p].text = user.said + 1
  BY <1>1, <1>2
<1>4. /\ user'.said = user.said + 1 /\ user'.told = user.told /\ user'.unheard = user.unheard
      /\ SameUser
  BY <1>1, <1>2 DEF Users, SameUser
<1>5. /\ SameLists
      /\ session'.active = session.active /\ session'.connected = session.connected
      /\ session'.retrying = session.retrying /\ session'.waiting = session.waiting
      /\ session'.bash = 0 /\ session'.last = session.last
      /\ session'.attempt = session.attempt /\ session'.recovered = session.recovered
  BY <1>1, <1>2 DEF Sessions, SameLists
<1>6. /\ agent'.run = agent.run /\ agent'.aborted = agent.aborted /\ SameQueues
      /\ agent'.trail = agent.trail \/ agent'.trail = 0
      /\ log'.texts = log.texts
  BY <1>1, <1>2, FlushDoes DEF SameQueues
<1> QED BY <1>2, <1>3, <1>4, <1>5, <1>6

LEMMA PreflightFailsDoes ==
  ASSUME TypeOK, NEW p \in Prompter, PreflightFails(p)
  PROVE  /\ \A q \in Prompter : q # p => prompt'[q] = prompt[q]
         /\ prompt[p].pc = "preflight" /\ prompt'[p].pc = "idle"
         /\ user'.said = user.said /\ user'.told = user.told \cup {prompt[p].text}
         /\ user'.unheard = user.unheard
         /\ SameUser
         /\ UNCHANGED <<session, agent, loop, log, manual, spent>>
<1>1. prompt \in [Prompter -> Prompts] /\ user \in Users
  BY Types
<1>2. /\ prompt' = [prompt EXCEPT ![p] = NoPrompt] /\ prompt[p].pc = "preflight"
      /\ user' = [user EXCEPT !.told = @ \cup {prompt[p].text}]
      /\ UNCHANGED <<session, agent, loop, log, manual, spent>>
  BY DEF PreflightFails
<1>3. \A q \in Prompter : q # p => prompt'[q] = prompt[q]
  BY <1>1, <1>2
<1>4. prompt'[p].pc = "idle"
  BY <1>1, <1>2 DEF NoPrompt
<1> QED BY <1>1, <1>2, <1>3, <1>4 DEF Users, SameUser

LEMMA RunDoes ==
  ASSUME TypeOK, NEW p \in Prompter, NEW pc, NEW pending, NEW skip, NEW a \in Agents,
         Run(p, pc, pending, skip, a)
  PROVE  /\ Moved(p, "running")
         /\ agent'.run /\ ~agent'.aborted /\ agent'.trail = a.trail
         /\ agent'.steering = a.steering /\ agent'.followUp = a.followUp
         /\ loop'.pc = pc /\ loop'.pending = pending
<1>1. Moved(p, "running")
  BY GotoDoes DEF Run
<1>2. agent' = [a EXCEPT !.run = TRUE, !.aborted = FALSE]
  BY DEF Run
<1>3. loop' = [NoLoop EXCEPT !.pc = pc, !.pending = pending, !.skip = skip]
  BY DEF Run
<1> QED BY <1>1, <1>2, <1>3 DEF Agents, NoLoop

LEMMA BeginDoes ==
  ASSUME TypeOK, NEW p \in Prompter, Begin(p)
  PROVE  /\ prompt[p].pc = "preflight"
         /\ session'.active /\ SameLists /\ session'.connected = session.connected
         /\ session'.retrying = session.retrying /\ session'.waiting = session.waiting
         /\ session'.bash = session.bash /\ session'.last = session.last
         /\ session'.attempt = session.attempt /\ session'.recovered = session.recovered
         /\ user'.crossed <=> user.crossed \/ session.active \/ manual # "none"
         /\ user'.failures = user.failures /\ user'.said = user.said /\ user'.unheard = user.unheard
         /\ SameQueues /\ agent'.trail = agent.trail
         /\ \/ /\ agent.run /\ Moved(p, "done") /\ UNCHANGED <<agent, loop>>
               /\ user'.told = user.told \cup {prompt[p].text}
            \/ /\ ~agent.run /\ Moved(p, "running") /\ agent'.run
               /\ loop'.pc = "prompt" /\ loop'.pending = <<prompt[p].text>>
               /\ user'.told = user.told
         /\ UNCHANGED <<log, manual, spent>>
<1>1. session \in Sessions /\ agent \in Agents /\ user \in Users
  BY Types
<1>2. /\ prompt[p].pc = "preflight"
      /\ session' = [session EXCEPT !.active = TRUE]
      /\ UNCHANGED <<log, manual, spent>>
  BY DEF Begin
<1>3. user' = [user EXCEPT !.crossed = @ \/ session.active \/ manual # "none",
                           !.told = IF agent.run THEN @ \cup {prompt[p].text} ELSE @]
  BY DEF Begin
<1>4. /\ user'.crossed <=> user.crossed \/ session.active \/ manual # "none"
      /\ user'.failures = user.failures /\ user'.said = user.said /\ user'.unheard = user.unheard
      /\ user'.told = IF agent.run THEN user.told \cup {prompt[p].text} ELSE user.told
  BY <1>1, <1>3 DEF Users, Sessions
<1>5. /\ session'.active /\ SameLists /\ session'.connected = session.connected
      /\ session'.retrying = session.retrying /\ session'.waiting = session.waiting
      /\ session'.bash = session.bash /\ session'.last = session.last
      /\ session'.attempt = session.attempt /\ session'.recovered = session.recovered
  BY <1>1, <1>2 DEF Sessions, SameLists
<1>6. CASE agent.run
  <2>1. Goto(p, "done") /\ UNCHANGED <<agent, loop>>
    BY <1>6 DEF Begin
  <2> QED BY <1>2, <1>4, <1>5, <1>6, <2>1, GotoDoes DEF SameQueues
<1>7. CASE ~agent.run
  <2>1. Run(p, "prompt", <<prompt[p].text>>, FALSE, agent)
    BY <1>7 DEF Begin
  <2>2. /\ Moved(p, "running")
        /\ agent'.run /\ ~agent'.aborted /\ agent'.trail = agent.trail
        /\ agent'.steering = agent.steering /\ agent'.followUp = agent.followUp
        /\ loop'.pc = "prompt" /\ loop'.pending = <<prompt[p].text>>
    BY <1>1, <2>1, RunDoes
  <2> QED BY <1>2, <1>4, <1>5, <1>7, <2>2 DEF SameQueues
<1> QED BY <1>6, <1>7

\* The end of _handlePostAgentRun.
LEMMA RestDoes ==
  ASSUME TypeOK, NEW p \in Prompter, NEW msg, NEW s \in Sessions, NEW a \in Agents, Rest(p, msg, s, a)
  PROVE  /\ session'.active = s.active /\ session'.connected = s.connected
         /\ session'.retrying = s.retrying /\ session'.waiting = s.waiting /\ session'.bash = s.bash
         /\ session'.steering = s.steering /\ session'.followUp = s.followUp
         /\ session'.attempt = s.attempt /\ session'.last = s.last
         /\ agent'.run = a.run /\ agent'.aborted = a.aborted
         /\ agent'.steering = a.steering /\ agent'.followUp = a.followUp
         /\ \/ /\ msg \in {"overflow", "length"} /\ ~s.recovered
               /\ session'.recovered /\ agent'.trail = Less(a.trail) /\ Moved(p, msg)
            \/ /\ msg \notin {"none", "aborted", "overflow", "length"}
               /\ session'.recovered = s.recovered /\ agent'.trail = a.trail /\ Moved(p, "threshold")
            \/ /\ msg \in {"overflow", "length"} => s.recovered
               /\ session'.recovered = s.recovered /\ agent'.trail = a.trail
               /\ \/ msg # "none" /\ HasQueued /\ Moved(p, "continue")
                  \/ ~(msg # "none" /\ HasQueued) /\ Moved(p, "done")
<1>1. CASE /\ msg \in {"overflow", "length"} /\ ~s.recovered
           /\ session' = [s EXCEPT !.recovered = TRUE]
           /\ agent' = [a EXCEPT !.trail = Less(@)]
           /\ Goto(p, msg)
  <2>1. Moved(p, msg)
    BY <1>1, GotoDoes
  <2> QED BY <1>1, <2>1 DEF Sessions, Agents
<1>2. CASE /\ msg \notin {"none", "aborted", "overflow", "length"}
           /\ session' = s /\ agent' = a /\ Goto(p, "threshold")
  BY <1>2, GotoDoes
<1>3. CASE /\ msg \in {"overflow", "length"} => s.recovered
           /\ session' = s /\ agent' = a
           /\ Goto(p, IF msg # "none" /\ HasQueued THEN "continue" ELSE "done")
  <2>1. CASE msg # "none" /\ HasQueued
    BY <1>3, <2>1, GotoDoes
  <2>2. CASE ~(msg # "none" /\ HasQueued)
    BY <1>3, <2>2, GotoDoes
  <2> QED BY <2>1, <2>2
<1> QED BY <1>1, <1>2, <1>3 DEF Rest

LEMMA RunEndsDoes ==
  ASSUME TypeOK, NEW p \in Prompter, RunEnds(p)
  PROVE  /\ prompt[p].pc = "running" /\ loop.pc = "end" /\ loop'.pc = "none" /\ loop'.pending = <<>>
         /\ session'.active = session.active /\ session'.connected = session.connected
         /\ session'.waiting = session.waiting /\ session'.bash = session.bash /\ SameLists
         /\ session'.last = "none" /\ ~agent'.run /\ SameQueues
         /\ \/ /\ session.last = "error" /\ session.attempt < MaxRetries
               /\ session'.attempt = session.attempt + 1 /\ session'.recovered = session.recovered
               /\ session'.retrying = p
               /\ agent'.trail = Less(agent.trail) /\ Moved(p, "sleep")
            \/ /\ ~(session.last = "error" /\ session.attempt < MaxRetries)
               /\ session'.attempt = (IF session.last \in Errors THEN 0 ELSE session.attempt)
               /\ session'.retrying = session.retrying
               /\ \/ /\ session.last \in {"overflow", "length"} /\ ~session.recovered
                     /\ session'.recovered /\ agent'.trail = Less(agent.trail) /\ Moved(p, session.last)
                  \/ /\ session.last \notin {"none", "aborted", "overflow", "length"}
                     /\ session'.recovered = session.recovered /\ agent'.trail = agent.trail
                     /\ Moved(p, "threshold")
                  \/ /\ session.last \in {"overflow", "length"} => session.recovered
                     /\ session'.recovered = session.recovered /\ agent'.trail = agent.trail
                     /\ \/ session.last # "none" /\ HasQueued /\ Moved(p, "continue")
                        \/ ~(session.last # "none" /\ HasQueued) /\ Moved(p, "done")
         /\ UNCHANGED <<log, manual, user, spent>>
<1> DEFINE s == [session EXCEPT !.last = "none"]
           s0 == [s EXCEPT !.attempt = 0]
           a == [agent EXCEPT !.run = FALSE]
<1>0. session \in Sessions /\ agent \in Agents
  BY Types
<1>1. s \in Sessions /\ s0 \in Sessions /\ a \in Agents
  BY <1>0, Bounds DEF Sessions, Agents
<1>2. /\ prompt[p].pc = "running" /\ loop.pc = "end" /\ loop'.pc = "none" /\ loop'.pending = <<>>
      /\ UNCHANGED <<log, manual, user, spent>>
  BY DEF RunEnds, NoLoop
<1>3. /\ \A r \in {s, s0} : /\ r.active = session.active /\ r.connected = session.connected
                             /\ r.waiting = session.waiting /\ r.bash = session.bash
                             /\ r.steering = session.steering /\ r.followUp = session.followUp
                             /\ r.last = "none" /\ r.recovered = session.recovered
                             /\ r.retrying = session.retrying
      /\ s.attempt = session.attempt /\ s0.attempt = 0
  BY <1>0 DEF Sessions
<1>4. a.steering = agent.steering /\ a.followUp = agent.followUp /\ ~a.run /\ a.trail = agent.trail
  BY <1>0 DEF Agents
<1>5. CASE session.last = "error" /\ session.attempt < MaxRetries
  <2>1. session' = [s EXCEPT !.attempt = @ + 1, !.retrying = p] /\ Goto(p, "sleep")
    BY <1>5 DEF RunEnds
  <2>2. agent' = [a EXCEPT !.trail = Less(@)]
    BY <1>5 DEF RunEnds
  <2>3. /\ session'.active = session.active /\ session'.connected = session.connected
        /\ session'.waiting = session.waiting /\ session'.bash = session.bash /\ SameLists
        /\ session'.last = "none" /\ session'.recovered = session.recovered
        /\ session'.attempt = session.attempt + 1 /\ session'.retrying = p
    BY <1>0, <2>1 DEF Sessions, SameLists
  <2>4. ~agent'.run /\ SameQueues /\ agent'.trail = Less(agent.trail)
    BY <1>0, <2>2 DEF Agents, SameQueues
  <2> QED BY <1>2, <1>5, <2>1, <2>3, <2>4, GotoDoes
<1>6. CASE ~(session.last = "error" /\ session.attempt < MaxRetries)
  <2>1. Rest(p, session.last, IF session.last \in Errors THEN s0 ELSE s, a)
    BY <1>6 DEF RunEnds
  <2> DEFINE r == IF session.last \in Errors THEN s0 ELSE s
  <2>2. r \in Sessions /\ a \in Agents
    BY <1>1
  <2>3. r \in {s, s0} /\ r.attempt = (IF session.last \in Errors THEN 0 ELSE session.attempt)
    BY <1>1, <1>3
  <2> HIDE DEF r, s, s0, a
  <2>4. Rest(p, session.last, r, a)
    BY <2>1 DEF r
  <2>5. /\ session'.active = r.active /\ session'.connected = r.connected
        /\ session'.retrying = r.retrying /\ session'.waiting = r.waiting /\ session'.bash = r.bash
        /\ session'.steering = r.steering /\ session'.followUp = r.followUp
        /\ session'.attempt = r.attempt /\ session'.last = r.last
    BY <2>2, <2>4, RestDoes
  <2>6. agent'.run = a.run /\ agent'.steering = a.steering /\ agent'.followUp = a.followUp
    BY <2>2, <2>4, RestDoes
  <2>7. \/ /\ session.last \in {"overflow", "length"} /\ ~r.recovered
           /\ session'.recovered /\ agent'.trail = Less(a.trail) /\ Moved(p, session.last)
        \/ /\ session.last \notin {"none", "aborted", "overflow", "length"}
           /\ session'.recovered = r.recovered /\ agent'.trail = a.trail /\ Moved(p, "threshold")
        \/ /\ session.last \in {"overflow", "length"} => r.recovered
           /\ session'.recovered = r.recovered /\ agent'.trail = a.trail
           /\ \/ session.last # "none" /\ HasQueued /\ Moved(p, "continue")
              \/ ~(session.last # "none" /\ HasQueued) /\ Moved(p, "done")
    BY <2>2, <2>4, RestDoes
  <2>8. /\ r.active = session.active /\ r.connected = session.connected
        /\ r.waiting = session.waiting /\ r.bash = session.bash
        /\ r.steering = session.steering /\ r.followUp = session.followUp
        /\ r.last = "none" /\ r.recovered = session.recovered
        /\ r.retrying = session.retrying
    BY <1>3, <2>3
  <2> QED BY <1>2, <1>4, <1>6, <2>3, <2>5, <2>8, <2>7, <2>6 DEF SameLists, SameQueues
<1> QED BY <1>5, <1>6

LEMMA RetryElapsedDoes ==
  ASSUME TypeOK, NEW p \in Prompter, RetryElapsed(p)
  PROVE  /\ prompt[p].pc = "sleep" /\ Moved(p, "continue")
         /\ session'.active = session.active /\ session'.connected = session.connected
         /\ session'.waiting = session.waiting /\ session'.bash = session.bash /\ SameLists
         /\ session'.last = session.last /\ session'.recovered = session.recovered
         /\ session'.attempt = session.attempt /\ session'.retrying = None
         /\ UNCHANGED <<agent, loop, log, manual, user, spent>>
<1>1. session \in Sessions
  BY Types
<1>2. session' = [session EXCEPT !.retrying = None] /\ Goto(p, "continue")
  BY DEF RetryElapsed
<1> QED BY <1>1, <1>2, GotoDoes DEF RetryElapsed, Sessions, SameLists

LEMMA CancelledDoes ==
  ASSUME TypeOK, NEW p \in Prompter, Cancelled(p)
  PROVE  /\ prompt[p].pc = "cancelled"
         /\ SameSession /\ SameLists /\ SameQueues
         /\ session'.last = session.last /\ session'.recovered = session.recovered
         /\ session'.attempt = session.attempt
         /\ agent'.run = agent.run /\ agent'.aborted = agent.aborted /\ agent'.trail = agent.trail
         /\ \/ Moved(p, "threshold")
            \/ HasQueued /\ Moved(p, "continue")
            \/ ~HasQueued /\ Moved(p, "done")
         /\ UNCHANGED <<loop, log, manual, user, spent>>
<1>1. session \in Sessions /\ agent \in Agents
  BY Types
<1> QED BY <1>1, RestDoes DEF Cancelled, SameSession, SameLists, SameQueues

LEMMA CompactionEndsDoes ==
  ASSUME TypeOK, NEW p \in Prompter, NEW ok \in BOOLEAN, CompactionEnds(p, ok)
  PROVE  /\ prompt[p].pc \in {"overflow", "length", "threshold"}
         /\ SameQueues /\ agent'.run = agent.run /\ agent'.aborted = agent.aborted
         /\ \/ agent'.trail = agent.trail
            \/ ok /\ prompt[p].pc # "overflow" /\ agent'.trail = log.trail
            \/ ok /\ prompt[p].pc = "overflow" /\ agent'.trail = Less(log.trail)
         /\ \/ (ok /\ prompt[p].pc # "threshold") /\ Moved(p, "continue")
            \/ HasQueued /\ Moved(p, "continue")
            \/ ~HasQueued /\ Moved(p, "done")
         /\ UNCHANGED <<session, loop, log, manual, user, spent>>
<1>1. agent \in Agents
  BY Types
<1>2. /\ prompt[p].pc \in {"overflow", "length", "threshold"}
      /\ \/ Goto(p, "continue") /\ ((ok /\ prompt[p].pc # "threshold") \/ HasQueued)
         \/ Goto(p, "done") /\ ~HasQueued
      /\ UNCHANGED <<session, loop, log, manual, user, spent>>
  BY DEF CompactionEnds
<1>3. \/ agent' = agent
      \/ ok /\ prompt[p].pc # "overflow" /\ agent' = [agent EXCEPT !.trail = log.trail]
      \/ ok /\ prompt[p].pc = "overflow" /\ agent' = [agent EXCEPT !.trail = Less(log.trail)]
  BY DEF CompactionEnds
<1>4. /\ SameQueues /\ agent'.run = agent.run /\ agent'.aborted = agent.aborted
      /\ \/ agent'.trail = agent.trail
         \/ ok /\ prompt[p].pc # "overflow" /\ agent'.trail = log.trail
         \/ ok /\ prompt[p].pc = "overflow" /\ agent'.trail = Less(log.trail)
  BY <1>1, <1>3 DEF Agents, SameQueues
<1>5. \/ (ok /\ prompt[p].pc # "threshold") /\ Moved(p, "continue")
      \/ HasQueued /\ Moved(p, "continue")
      \/ ~HasQueued /\ Moved(p, "done")
  BY <1>2, GotoDoes
<1> QED BY <1>2, <1>4, <1>5

LEMMA ContinueDoes ==
  ASSUME TypeOK, NEW p \in Prompter, Continue(p)
  PROVE  /\ prompt[p].pc = "continue"
         /\ agent'.trail = agent.trail
         /\ \/ /\ ~agent.run /\ agent.trail = 0 /\ SameQueues
               /\ Moved(p, "running") /\ agent'.run /\ loop'.pc = "start" /\ loop'.pending = <<>>
            \/ /\ ~agent.run /\ agent.trail # 0 /\ Drained(agent.steering) # <<>>
               /\ agent'.steering = Left(agent.steering) /\ agent'.followUp = agent.followUp
               /\ Moved(p, "running") /\ agent'.run /\ loop'.pc = "prompt"
               /\ loop'.pending = Drained(agent.steering)
            \/ /\ ~agent.run /\ agent.trail # 0 /\ Drained(agent.followUp) # <<>>
               /\ agent'.steering = agent.steering /\ agent'.followUp = Left(agent.followUp)
               /\ Moved(p, "running") /\ agent'.run /\ loop'.pc = "prompt"
               /\ loop'.pending = Drained(agent.followUp)
            \/ /\ \/ agent.run
                  \/ agent.trail # 0 /\ Drained(agent.steering) = <<>> /\ Drained(agent.followUp) = <<>>
               /\ Moved(p, "done") /\ UNCHANGED <<agent, loop>>
         /\ UNCHANGED <<session, log, manual, user, spent>>
<1> DEFINE s == [agent EXCEPT !.steering = Left(@)]
           f == [agent EXCEPT !.followUp = Left(@)]
<1>1. agent \in Agents
  BY Types
<1>2. /\ s \in Agents /\ s.trail = agent.trail
      /\ s.steering = Left(agent.steering) /\ s.followUp = agent.followUp
      /\ f \in Agents /\ f.trail = agent.trail
      /\ f.followUp = Left(agent.followUp) /\ f.steering = agent.steering
  BY <1>1, DrainSplits DEF Agents
<1>3. prompt[p].pc = "continue" /\ UNCHANGED <<session, log, manual, user, spent>>
  BY DEF Continue
<1>4. CASE ~agent.run /\ agent.trail = 0
  <2>1. Run(p, "start", <<>>, FALSE, agent)
    BY <1>4 DEF Continue
  <2> QED BY <1>1, <1>3, <1>4, <2>1, RunDoes DEF SameQueues
<1>5. CASE ~agent.run /\ agent.trail # 0 /\ Drained(agent.steering) # <<>>
  <2>1. Run(p, "prompt", Drained(agent.steering), TRUE, s)
    BY <1>5 DEF Continue
  <2> HIDE DEF s
  <2>2. /\ Moved(p, "running")
        /\ agent'.run /\ ~agent'.aborted /\ agent'.trail = s.trail
        /\ agent'.steering = s.steering /\ agent'.followUp = s.followUp
        /\ loop'.pc = "prompt" /\ loop'.pending = Drained(agent.steering)
    BY <1>2, <2>1, RunDoes
  <2> QED BY <1>2, <1>3, <1>5, <2>2
<1>6. CASE /\ ~agent.run /\ agent.trail # 0 /\ Drained(agent.steering) = <<>>
           /\ Drained(agent.followUp) # <<>>
  <2>1. Run(p, "prompt", Drained(agent.followUp), FALSE, f)
    BY <1>6 DEF Continue
  <2> HIDE DEF f
  <2>2. /\ Moved(p, "running")
        /\ agent'.run /\ ~agent'.aborted /\ agent'.trail = f.trail
        /\ agent'.steering = f.steering /\ agent'.followUp = f.followUp
        /\ loop'.pc = "prompt" /\ loop'.pending = Drained(agent.followUp)
    BY <1>2, <2>1, RunDoes
  <2> QED BY <1>2, <1>3, <1>6, <2>2
<1>7. CASE \/ agent.run
           \/ agent.trail # 0 /\ Drained(agent.steering) = <<>> /\ Drained(agent.followUp) = <<>>
  <2>1. Goto(p, "done") /\ UNCHANGED <<agent, loop>>
    BY <1>7 DEF Continue
  <2> QED BY <1>3, <1>7, <2>1, GotoDoes
<1> QED BY <1>4, <1>5, <1>6, <1>7

LEMMA SettleDoes ==
  ASSUME TypeOK, NEW p \in Prompter, Settle(p)
  PROVE  /\ prompt[p].pc = "done" /\ Moved(p, "settling")
         /\ ~session'.active /\ session'.bash = 0 /\ session'.connected = session.connected
         /\ session'.retrying = session.retrying /\ session'.waiting = session.waiting
         /\ session'.last = session.last /\ session'.attempt = session.attempt
         /\ session'.recovered = session.recovered /\ SameLists
         /\ agent'.run = agent.run /\ agent'.aborted = agent.aborted /\ SameQueues
         /\ agent'.trail = agent.trail \/ agent'.trail = 0
         /\ log'.texts = log.texts
         /\ UNCHANGED <<loop, manual, user, spent>>
<1>1. session \in Sessions /\ agent \in Agents
  BY Types
<1>2. /\ prompt[p].pc = "done" /\ Goto(p, "settling")
      /\ session' = [session EXCEPT !.active = FALSE, !.bash = 0]
      /\ agent' = FlushedAgent(agent) /\ log' = FlushedLog
      /\ UNCHANGED <<loop, manual, user, spent>>
  BY DEF Settle
<1>3. /\ ~session'.active /\ session'.bash = 0 /\ session'.connected = session.connected
      /\ session'.retrying = session.retrying /\ session'.waiting = session.waiting
      /\ session'.last = session.last /\ session'.attempt = session.attempt
      /\ session'.recovered = session.recovered /\ SameLists
  BY <1>1, <1>2 DEF Sessions, SameLists
<1>4. /\ agent'.run = agent.run /\ agent'.aborted = agent.aborted /\ SameQueues
      /\ agent'.trail = agent.trail \/ agent'.trail = 0
      /\ log'.texts = log.texts
  BY <1>1, <1>2, FlushDoes DEF SameQueues
<1> QED BY <1>2, <1>3, <1>4, GotoDoes

LEMMA SettledDoes ==
  ASSUME TypeOK, NEW p \in Prompter, Settled(p)
  PROVE  /\ \A q \in Prompter : q # p => prompt'[q] = prompt[q]
         /\ prompt[p].pc = "settling" /\ prompt'[p].pc = "idle"
         /\ session'.active = session.active /\ session'.connected = session.connected
         /\ session'.retrying = session.retrying /\ session'.bash = session.bash
         /\ session'.last = session.last /\ session'.attempt = session.attempt
         /\ session'.recovered = session.recovered /\ SameLists
         /\ \/ session.active /\ UNCHANGED <<session, manual>>
            \/ /\ ~session.active /\ session'.waiting = {}
               /\ manual' = IF "compact" \in session.waiting THEN "compacting" ELSE manual
         /\ UNCHANGED <<agent, loop, log, user, spent>>
<1>1. session \in Sessions /\ prompt \in [Prompter -> Prompts]
  BY Types
<1>2. /\ prompt[p].pc = "settling" /\ prompt' = [prompt EXCEPT ![p] = NoPrompt]
      /\ \/ session.active /\ UNCHANGED <<session, manual>>
         \/ /\ ~session.active /\ session' = [session EXCEPT !.waiting = {}]
            /\ manual' = IF "compact" \in session.waiting THEN "compacting" ELSE manual
      /\ UNCHANGED <<agent, loop, log, user, spent>>
  BY DEF Settled
<1>3. /\ \A q \in Prompter : q # p => prompt'[q] = prompt[q]
      /\ prompt'[p].pc = "idle"
  BY <1>1, <1>2 DEF NoPrompt
<1>4. /\ session'.active = session.active /\ session'.connected = session.connected
      /\ session'.retrying = session.retrying /\ session'.bash = session.bash
      /\ session'.last = session.last /\ session'.attempt = session.attempt
      /\ session'.recovered = session.recovered /\ SameLists
      /\ ~session.active => session'.waiting = {}
  BY <1>1, <1>2 DEF Sessions, SameLists
<1> QED BY <1>2, <1>3, <1>4

LEMMA LengthOfSome ==
  ASSUME NEW T, NEW q \in Seq(T), q # <<>>
  PROVE  /\ Len(q) > 1 \/ (Len(q) = 1 /\ ~(Len(q) > 1))
         /\ Len(q) > 1 => Len(q) # 1
         /\ Tail(q) = <<>> <=> Len(q) = 1
<1>1. Len(q) \in Nat \ {0}
  OBVIOUS
<1>2. Tail(q) \in Seq(T) /\ Len(Tail(q)) = Len(q) - 1
  OBVIOUS
<1>3. \A r \in Seq(T) : r = <<>> <=> Len(r) = 0
  OBVIOUS
<1>4. Tail(q) = <<>> <=> Len(Tail(q)) = 0
  BY <1>2, <1>3
<1>5. Len(q) - 1 = 0 <=> Len(q) = 1
  BY <1>1
<1> QED BY <1>1, <1>2, <1>4, <1>5

LEMMA InjectDoes ==
  ASSUME TypeOK, RunInv, Inject
  PROVE  /\ loop.pc \in {"prompt", "inject"} /\ loop.pending # <<>>
         /\ loop'.pending = Tail(loop.pending)
         /\ \/ Len(loop.pending) > 1 /\ loop'.pc = loop.pc
            \/ Len(loop.pending) = 1 /\ loop.pc = "prompt" /\ loop'.pc = "start"
            \/ Len(loop.pending) = 1 /\ loop.pc = "inject" /\ loop'.pc = "stream"
         /\ agent'.run = agent.run /\ agent'.aborted = agent.aborted /\ SameQueues /\ agent'.trail = 0
         /\ user'.failures = 0 /\ user'.crossed = user.crossed /\ user'.said = user.said
         /\ user'.told = user.told
         /\ session'.last = session.last /\ session'.attempt = session.attempt /\ SameSession
         /\ \/ /\ session.connected
               /\ ~session'.recovered
               /\ session'.steering = RemoveFirst(session.steering, Head(loop.pending))
               /\ session'.followUp = IF Head(loop.pending) \in Range(session.steering)
                                      THEN session.followUp
                                      ELSE RemoveFirst(session.followUp, Head(loop.pending))
               /\ log'.texts = log.texts \cup {Head(loop.pending)}
               /\ user'.unheard = user.unheard
            \/ /\ ~session.connected
               /\ user'.unheard = user.unheard \cup {Head(loop.pending)}
               /\ UNCHANGED <<session, log>>
         /\ UNCHANGED <<prompt, manual, spent>>
<1> DEFINE t == Head(loop.pending)
<1>1. /\ session \in Sessions /\ agent \in Agents /\ loop \in Loops /\ log \in Logs /\ user \in Users
  BY Types
<1>2. loop.pc \in {"prompt", "inject"} /\ loop.pending # <<>>
  BY DEF Inject, RunInv
<1>3. /\ loop'.pending = Tail(loop.pending)
      /\ \/ Len(loop.pending) > 1 /\ loop'.pc = loop.pc
         \/ Len(loop.pending) = 1 /\ loop.pc = "prompt" /\ loop'.pc = "start"
         \/ Len(loop.pending) = 1 /\ loop.pc = "inject" /\ loop'.pc = "stream"
  <2>1. loop' = [loop EXCEPT !.pending = Tail(@),
                             !.pc = IF Len(loop.pending) > 1 THEN @
                                    ELSE IF @ = "prompt" THEN "start" ELSE "stream"]
    BY DEF Inject
  <2>2. loop.pending \in Seq(Text)
    BY <1>1 DEF Loops
  <2>3. loop'.pending = Tail(loop.pending)
    BY <1>1, <2>1 DEF Loops
  <2>4. loop'.pc = IF Len(loop.pending) > 1 THEN loop.pc
                   ELSE IF loop.pc = "prompt" THEN "start" ELSE "stream"
    BY <1>1, <2>1 DEF Loops
  <2>5. Len(loop.pending) > 1 \/ (Len(loop.pending) = 1 /\ ~(Len(loop.pending) > 1))
    BY <1>2, <2>2, LengthOfSome
  <2>6. loop.pc = "prompt" \/ (loop.pc = "inject" /\ loop.pc # "prompt")
    BY <1>2
  <2> QED BY <2>3, <2>4, <2>5, <2>6
<1>4. agent'.run = agent.run /\ agent'.aborted = agent.aborted /\ SameQueues /\ agent'.trail = 0
  <2>1. agent' = [agent EXCEPT !.trail = 0]
    BY DEF Inject
  <2> QED BY <1>1, <2>1 DEF Agents, SameQueues
<1>5. UNCHANGED <<prompt, manual, spent>>
  BY DEF Inject
<1>6. CASE session.connected
  <2>1. /\ session' = [session EXCEPT !.recovered = FALSE,
                         !.steering = RemoveFirst(@, t),
                         !.followUp = IF \E i \in 1 .. Len(session.steering) : session.steering[i] = t
                                      THEN @ ELSE RemoveFirst(@, t)]
        /\ log' = [log EXCEPT !.texts = @ \cup {t}, !.trail = 0]
        /\ user' = [user EXCEPT !.failures = 0]
    BY <1>6 DEF Inject
  <2>2. t \in Range(session.steering) <=> \E i \in 1 .. Len(session.steering) : session.steering[i] = t
    BY <1>1, RangeOf DEF Sessions
  <2> HIDE DEF t
  <2>3. /\ session'.last = session.last /\ session'.attempt = session.attempt /\ SameSession
        /\ ~session'.recovered
        /\ session'.steering = RemoveFirst(session.steering, t)
        /\ session'.followUp = IF t \in Range(session.steering)
                               THEN session.followUp ELSE RemoveFirst(session.followUp, t)
    BY <1>1, <2>1, <2>2 DEF Sessions, SameSession
  <2>4. log'.texts = log.texts \cup {t}
    BY <1>1, <2>1 DEF Logs
  <2>5. /\ user'.failures = 0 /\ user'.crossed = user.crossed /\ user'.said = user.said
        /\ user'.told = user.told /\ user'.unheard = user.unheard
    BY <1>1, <2>1 DEF Users
  <2> QED BY <1>2, <1>3, <1>4, <1>5, <1>6, <2>3, <2>4, <2>5 DEF t
<1>7. CASE ~session.connected
  <2>1. /\ user' = [user EXCEPT !.failures = 0, !.unheard = @ \cup {t}]
        /\ UNCHANGED <<session, log>>
    BY <1>7 DEF Inject
  <2> HIDE DEF t
  <2>2. /\ user'.failures = 0 /\ user'.crossed = user.crossed /\ user'.said = user.said
        /\ user'.told = user.told /\ user'.unheard = user.unheard \cup {t}
    BY <1>1, <2>1 DEF Users
  <2> QED BY <1>2, <1>3, <1>4, <1>5, <1>7, <2>1, <2>2 DEF t, SameSession
<1> QED BY <1>6, <1>7

LEMMA StartDoes ==
  ASSUME TypeOK, Start
  PROVE  /\ loop.pc = "start"
         /\ \/ /\ loop'.pc = "stream" /\ loop'.pending = <<>> /\ SameQueues
            \/ /\ agent.steering # <<>>
               /\ loop'.pc = "inject" /\ loop'.pending = Drained(agent.steering)
               /\ agent'.steering = Left(agent.steering) /\ agent'.followUp = agent.followUp
         /\ agent'.run = agent.run /\ agent'.aborted = agent.aborted /\ agent'.trail = agent.trail
         /\ UNCHANGED <<session, prompt, log, manual, user, spent>>
<1>1. agent \in Agents /\ loop \in Loops
  BY Types
<1>2. Drained(agent.steering) = <<>> <=> agent.steering = <<>>
  BY <1>1, DrainSplits DEF Agents
<1>3. agent.steering = <<>> => Left(agent.steering) = <<>>
  BY DEF Left
<1>4. loop.pc = "start" /\ UNCHANGED <<session, prompt, log, manual, user, spent>>
  BY DEF Start
<1>5. CASE loop.skip
  <2>1. /\ loop' = [loop EXCEPT !.pending = <<>>, !.pc = "stream"]
        /\ agent' = [agent EXCEPT !.steering = @]
    BY <1>5 DEF Start
  <2> QED BY <1>1, <1>4, <2>1 DEF Agents, Loops, SameQueues
<1>6. CASE ~loop.skip
  <2>1. /\ loop' = [loop EXCEPT !.pending = Drained(agent.steering),
                                !.pc = IF Drained(agent.steering) = <<>> THEN "stream" ELSE "inject"]
        /\ agent' = [agent EXCEPT !.steering = Left(@)]
    BY <1>6 DEF Start
  <2> QED BY <1>1, <1>2, <1>3, <1>4, <2>1 DEF Agents, Loops, SameQueues
<1> QED BY <1>5, <1>6

LEMMA ReplyDoes ==
  ASSUME TypeOK, NEW o \in Replies \cup {"aborted"}, Reply(o)
  PROVE  /\ loop.pc = "stream" /\ loop'.pending = loop.pending
         /\ \/ o = "calls" /\ loop'.pc = "tools" /\ loop'.calls # 0
            \/ o \in {"stop", "length"} /\ loop'.pc = "turn" /\ ~loop'.more
            \/ o \in Errors \cup {"aborted"} /\ loop'.pc = "end"
         /\ o = "aborted" <=> agent.aborted
         /\ agent'.run = agent.run /\ agent'.aborted = agent.aborted /\ SameQueues
         /\ agent'.trail = agent.trail + 1
         /\ user'.failures = (IF o \in Errors THEN user.failures + 1 ELSE 0)
         /\ user'.crossed = user.crossed /\ SameTexts
         /\ SameSession /\ SameLists
         /\ \/ /\ session.connected /\ session'.last = o /\ log'.trail = log.trail + 1
               /\ session'.recovered <=> o \in Errors /\ session.recovered
               /\ session'.attempt = IF o \in Errors THEN session.attempt ELSE 0
            \/ ~session.connected /\ UNCHANGED <<session, log>>
         /\ UNCHANGED <<prompt, manual>>
<1>1. session \in Sessions /\ agent \in Agents /\ loop \in Loops /\ log \in Logs /\ user \in Users
  BY Types
<1>2. /\ loop.pc = "stream" /\ (o = "aborted" <=> agent.aborted)
      /\ agent' = [agent EXCEPT !.trail = @ + 1]
      /\ user' = [user EXCEPT !.failures = IF o \in Errors THEN @ + 1 ELSE 0]
      /\ UNCHANGED <<prompt, manual>>
  BY DEF Reply
<1>3. /\ loop'.pending = loop.pending
      /\ \/ o = "calls" /\ loop'.pc = "tools" /\ loop'.calls # 0
         \/ o \in {"stop", "length"} /\ loop'.pc = "turn" /\ ~loop'.more
         \/ o \in Errors \cup {"aborted"} /\ loop'.pc = "end"
  <2>1. \/ o = "calls" /\ \E n \in 1 .. MaxCalls : loop' = [loop EXCEPT !.pc = "tools", !.calls = n]
        \/ o \in {"stop", "length"} /\ loop' = [loop EXCEPT !.pc = "turn", !.more = FALSE]
        \/ o \in Errors \cup {"aborted"} /\ loop' = [loop EXCEPT !.pc = "end"]
    BY Zenon DEF Reply
  <2>2. \A n \in 1 .. MaxCalls : n # 0
    BY Bounds
  <2>3. CASE o = "calls" /\ \E n \in 1 .. MaxCalls : loop' = [loop EXCEPT !.pc = "tools", !.calls = n]
    <3>1. PICK n \in 1 .. MaxCalls : loop' = [loop EXCEPT !.pc = "tools", !.calls = n]
      BY <2>3
    <3> QED BY <1>1, <2>2, <2>3, <3>1 DEF Loops
  <2>4. CASE o \in {"stop", "length"} /\ loop' = [loop EXCEPT !.pc = "turn", !.more = FALSE]
    BY <1>1, <2>4 DEF Loops
  <2>5. CASE o \in Errors \cup {"aborted"} /\ loop' = [loop EXCEPT !.pc = "end"]
    BY <1>1, <2>5 DEF Loops
  <2> QED BY <2>1, <2>3, <2>4, <2>5
<1>4. /\ agent'.run = agent.run /\ agent'.aborted = agent.aborted /\ SameQueues
      /\ agent'.trail = agent.trail + 1
  BY <1>1, <1>2 DEF Agents, SameQueues
<1>5. /\ user'.failures = (IF o \in Errors THEN user.failures + 1 ELSE 0)
      /\ user'.crossed = user.crossed
      /\ user'.said = user.said /\ user'.told = user.told /\ user'.unheard = user.unheard
  BY <1>1, <1>2 DEF Users
<1>6. CASE session.connected
  <2>1. /\ log' = [log EXCEPT !.trail = @ + 1]
        /\ session' = [session EXCEPT !.last = o,
                                      !.recovered = IF o \in Errors THEN @ ELSE FALSE,
                                      !.attempt = IF o \in Errors THEN @ ELSE 0]
    BY <1>6 DEF Reply
  <2>2. /\ session'.last = o /\ SameSession /\ SameLists
        /\ session'.recovered <=> o \in Errors /\ session.recovered
        /\ session'.attempt = IF o \in Errors THEN session.attempt ELSE 0
    BY <1>1, <2>1 DEF Sessions, SameSession, SameLists
  <2>3. log'.trail = log.trail + 1 /\ log'.texts = log.texts
    BY <1>1, <2>1 DEF Logs
  <2> QED BY <1>2, <1>3, <1>4, <1>5, <1>6, <2>2, <2>3 DEF SameTexts
<1>7. CASE ~session.connected
  <2>1. UNCHANGED <<session, log>>
    BY <1>7 DEF Reply
  <2> QED BY <1>2, <1>3, <1>4, <1>5, <1>7, <2>1 DEF SameTexts, SameSession, SameLists
<1> QED BY <1>6, <1>7

LEMMA ToolResultDoes ==
  ASSUME TypeOK, ToolResult
  PROVE  /\ loop.pc = "tools" /\ loop'.pending = loop.pending
         /\ \/ loop'.pc = "turn"
            \/ loop'.pc = "tools" /\ loop'.calls = loop.calls - 1 /\ loop.calls # 1
         /\ agent'.run = agent.run /\ agent'.aborted = agent.aborted /\ SameQueues /\ agent'.trail = 0
         /\ log'.texts = log.texts
         /\ UNCHANGED <<session, prompt, manual, user, spent>>
<1>1. agent \in Agents /\ loop \in Loops /\ log \in Logs
  BY Types
<1>2. /\ loop.pc = "tools" /\ agent' = [agent EXCEPT !.trail = 0]
      /\ log' = log \/ log' = [log EXCEPT !.trail = 0]
      /\ UNCHANGED <<session, prompt, manual, user, spent>>
  BY DEF ToolResult
<1>3. \/ \E goesOn \in BOOLEAN : loop' = [loop EXCEPT !.calls = 0, !.pc = "turn", !.more = goesOn]
      \/ loop.calls # 1 /\ loop' = [loop EXCEPT !.calls = @ - 1]
  BY DEF ToolResult
<1>4. /\ loop'.pending = loop.pending
      /\ \/ loop'.pc = "turn"
         \/ loop'.pc = "tools" /\ loop'.calls = loop.calls - 1 /\ loop.calls # 1
  BY <1>1, <1>2, <1>3 DEF Loops
<1>5. /\ agent'.run = agent.run /\ agent'.aborted = agent.aborted /\ SameQueues /\ agent'.trail = 0
      /\ log'.texts = log.texts
  BY <1>1, <1>2 DEF Agents, Logs, SameQueues
<1> QED BY <1>2, <1>4, <1>5

LEMMA TurnDoes ==
  ASSUME TypeOK, Turn
  PROVE  /\ loop.pc = "turn"
         /\ \/ /\ agent.steering # <<>>
               /\ loop'.pc = "inject" /\ loop'.pending = Drained(agent.steering)
               /\ agent'.steering = Left(agent.steering) /\ agent'.followUp = agent.followUp
            \/ /\ agent.followUp # <<>>
               /\ loop'.pc = "inject" /\ loop'.pending = Drained(agent.followUp)
               /\ agent'.steering = agent.steering /\ agent'.followUp = Left(agent.followUp)
            \/ /\ loop.more /\ loop'.pc = "stream" /\ loop'.pending = loop.pending /\ SameQueues
            \/ /\ loop'.pc = "end" /\ loop'.pending = loop.pending /\ SameQueues
         /\ agent'.run = agent.run /\ agent'.aborted = agent.aborted /\ agent'.trail = agent.trail
         /\ UNCHANGED <<session, prompt, log, manual, user, spent>>
<1>1. agent \in Agents /\ loop \in Loops
  BY Types
<1>2. /\ Drained(agent.steering) = <<>> <=> agent.steering = <<>>
      /\ Drained(agent.followUp) = <<>> <=> agent.followUp = <<>>
  BY <1>1, DrainSplits DEF Agents
<1>3. loop.pc = "turn" /\ UNCHANGED <<session, prompt, log, manual, user, spent>>
  BY DEF Turn
<1>4. \/ /\ Drained(agent.steering) # <<>>
         /\ loop' = [loop EXCEPT !.pending = Drained(agent.steering), !.pc = "inject"]
         /\ agent' = [agent EXCEPT !.steering = Left(@)]
      \/ loop.more /\ loop' = [loop EXCEPT !.pc = "stream"] /\ agent' = agent
      \/ /\ Drained(agent.followUp) # <<>>
         /\ loop' = [loop EXCEPT !.pending = Drained(agent.followUp), !.pc = "inject"]
         /\ agent' = [agent EXCEPT !.followUp = Left(@)]
      \/ loop' = [loop EXCEPT !.pc = "end"] /\ agent' = agent
  BY DEF Turn
<1> HIDE DEF Drained, Left
<1> QED BY <1>1, <1>2, <1>3, <1>4 DEF Agents, Loops, SameQueues

LEMMA QueueDoes ==
  ASSUME TypeOK, Steer \/ FollowUp
  PROVE  /\ user.said < MaxTexts
         /\ user'.said = user.said + 1 /\ user'.told = user.told /\ user'.unheard = user.unheard
         /\ SameUser
         /\ session'.last = session.last /\ session'.recovered = session.recovered
         /\ session'.attempt = session.attempt /\ SameSession
         /\ agent'.run = agent.run /\ agent'.aborted = agent.aborted /\ agent'.trail = agent.trail
         /\ \/ /\ session'.steering = Append(session.steering, user.said + 1)
               /\ agent'.steering = Append(agent.steering, user.said + 1)
               /\ session'.followUp = session.followUp /\ agent'.followUp = agent.followUp
            \/ /\ session'.followUp = Append(session.followUp, user.said + 1)
               /\ agent'.followUp = Append(agent.followUp, user.said + 1)
               /\ session'.steering = session.steering /\ agent'.steering = agent.steering
         /\ UNCHANGED <<loop, prompt, log, manual, spent>>
<1>1. session \in Sessions /\ agent \in Agents /\ user \in Users
  BY Types
<1>2. /\ user.said < MaxTexts /\ user' = [user EXCEPT !.said = @ + 1]
      /\ UNCHANGED <<loop, prompt, log, manual, spent>>
  BY DEF Steer, FollowUp
<1>3. /\ user'.said = user.said + 1 /\ user'.told = user.told /\ user'.unheard = user.unheard
      /\ SameUser
  BY <1>1, <1>2 DEF Users, SameUser
<1>4. CASE Steer
  <2>1. /\ session' = [session EXCEPT !.steering = Append(@, user.said + 1)]
        /\ agent' = [agent EXCEPT !.steering = Append(@, user.said + 1)]
    BY <1>4 DEF Steer
  <2> QED BY <1>1, <1>2, <1>3, <2>1 DEF Sessions, Agents, SameSession
<1>5. CASE FollowUp
  <2>1. /\ session' = [session EXCEPT !.followUp = Append(@, user.said + 1)]
        /\ agent' = [agent EXCEPT !.followUp = Append(@, user.said + 1)]
    BY <1>5 DEF FollowUp
  <2> QED BY <1>1, <1>2, <1>3, <2>1 DEF Sessions, Agents, SameSession
<1> QED BY <1>4, <1>5

LEMMA ClearQueueDoes ==
  ASSUME TypeOK, ClearQueue
  PROVE  /\ user'.told = user.told \cup Range(session.steering) \cup Range(session.followUp)
         /\ user'.said = user.said /\ user'.unheard = user.unheard /\ SameUser
         /\ session'.last = session.last /\ session'.recovered = session.recovered
         /\ session'.attempt = session.attempt /\ SameSession
         /\ session'.steering = <<>> /\ session'.followUp = <<>>
         /\ agent'.run = agent.run /\ agent'.aborted = agent.aborted /\ agent'.trail = agent.trail
         /\ agent'.steering = <<>> /\ agent'.followUp = <<>>
         /\ UNCHANGED <<loop, prompt, log, manual, spent>>
<1>1. session \in Sessions /\ agent \in Agents /\ user \in Users
  BY Types
<1>2. /\ user' = [user EXCEPT !.told = @ \cup Range(session.steering \o session.followUp)]
      /\ session' = [session EXCEPT !.steering = <<>>, !.followUp = <<>>]
      /\ agent' = [agent EXCEPT !.steering = <<>>, !.followUp = <<>>]
      /\ UNCHANGED <<loop, prompt, log, manual, spent>>
  BY DEF ClearQueue
<1>3. Range(session.steering \o session.followUp) = Range(session.steering) \cup Range(session.followUp)
  BY <1>1, RangeConcatenation DEF Sessions
<1>4. /\ user'.told = user.told \cup Range(session.steering) \cup Range(session.followUp)
      /\ user'.said = user.said /\ user'.unheard = user.unheard /\ SameUser
  BY <1>1, <1>2, <1>3 DEF Users, SameUser
<1>5. /\ session'.last = session.last /\ session'.recovered = session.recovered
      /\ session'.attempt = session.attempt /\ SameSession
      /\ session'.steering = <<>> /\ session'.followUp = <<>>
  BY <1>1, <1>2 DEF Sessions, SameSession
<1>6. /\ agent'.run = agent.run /\ agent'.aborted = agent.aborted /\ agent'.trail = agent.trail
      /\ agent'.steering = <<>> /\ agent'.followUp = <<>>
  BY <1>1, <1>2 DEF Agents
<1> QED BY <1>2, <1>4, <1>5, <1>6

\* abort() up to the wait, in a session s that is connected or not.
LEMMA AbortedDoes ==
  ASSUME TypeOK, NEW w, NEW s \in Sessions, Aborted(w, s)
  PROVE  /\ session'.active = s.active /\ session'.connected = s.connected
         /\ session'.retrying = None /\ session'.bash = s.bash
         /\ session'.last = s.last /\ session'.recovered = s.recovered
         /\ session'.steering = s.steering /\ session'.followUp = s.followUp
         /\ session'.waiting = (IF session.active THEN s.waiting \cup {w} ELSE s.waiting)
         /\ agent'.run = agent.run /\ agent'.aborted = agent.run /\ agent'.trail = agent.trail
         /\ SameQueues
         /\ \/ session.retrying \notin Prompter /\ prompt' = prompt /\ session'.attempt = s.attempt
            \/ /\ session.retrying \in Prompter /\ session'.attempt = 0
               /\ Moved(session.retrying, "cancelled")
<1>1. session \in Sessions /\ agent \in Agents /\ prompt \in [Prompter -> Prompts]
  BY Types
<1>2. /\ session' = [s EXCEPT !.retrying = None,
                              !.attempt = IF session.retrying = None THEN @ ELSE 0,
                              !.waiting = IF session.active THEN @ \cup {w} ELSE @]
      /\ prompt' = IF session.retrying = None THEN prompt
                   ELSE [prompt EXCEPT ![session.retrying].pc = "cancelled"]
      /\ agent' = [agent EXCEPT !.aborted = agent.run]
  BY DEF Aborted
<1>3. session.retrying = None <=> session.retrying \notin Prompter
  BY <1>1, NoneAssumption DEF Sessions
<1>4. agent'.run = agent.run /\ agent'.aborted = agent.run /\ agent'.trail = agent.trail /\ SameQueues
  BY <1>1, <1>2 DEF Agents, SameQueues
<1>5. /\ session'.active = s.active /\ session'.connected = s.connected
      /\ session'.retrying = None /\ session'.bash = s.bash
      /\ session'.last = s.last /\ session'.recovered = s.recovered
      /\ session'.steering = s.steering /\ session'.followUp = s.followUp
      /\ session'.waiting = (IF session.active THEN s.waiting \cup {w} ELSE s.waiting)
      /\ session'.attempt = (IF session.retrying = None THEN s.attempt ELSE 0)
  BY <1>2 DEF Sessions
<1>6. session.retrying \in Prompter => Moved(session.retrying, "cancelled")
  BY <1>1, <1>2, <1>3 DEF Moved, Prompts
<1> QED BY <1>2, <1>3, <1>4, <1>5, <1>6

LEMMA AbortDoes ==
  ASSUME TypeOK, Abort
  PROVE  /\ session.active /\ session'.active /\ session'.connected = session.connected
         /\ session'.retrying = None /\ session'.bash = session.bash
         /\ session'.last = session.last /\ session'.recovered = session.recovered /\ SameLists
         /\ session'.waiting = session.waiting \cup {"abort"}
         /\ agent'.run = agent.run /\ agent'.aborted = agent.run /\ agent'.trail = agent.trail
         /\ SameQueues
         /\ \/ session.retrying \notin Prompter /\ prompt' = prompt /\ session'.attempt = session.attempt
            \/ /\ session.retrying \in Prompter /\ session'.attempt = 0
               /\ Moved(session.retrying, "cancelled")
         /\ user'.failures = 0 /\ user'.crossed = user.crossed /\ SameTexts
         /\ UNCHANGED <<loop, log, manual, spent>>
<1>1. session \in Sessions /\ user \in Users
  BY Types
<1>2. /\ session.active /\ Aborted("abort", session) /\ user' = [user EXCEPT !.failures = 0]
      /\ UNCHANGED <<loop, log, manual, spent>>
  BY DEF Abort
<1>3. user'.failures = 0 /\ user'.crossed = user.crossed /\ SameTexts
  BY <1>1, <1>2 DEF Users, SameTexts
<1> QED BY <1>1, <1>2, <1>3, AbortedDoes DEF SameLists

LEMMA RecordBashDoes ==
  ASSUME TypeOK, RecordBash
  PROVE  /\ session'.active = session.active /\ session'.connected = session.connected
         /\ session'.retrying = session.retrying /\ session'.waiting = session.waiting
         /\ session'.last = session.last /\ session'.recovered = session.recovered
         /\ session'.attempt = session.attempt /\ SameLists
         /\ \/ session.active /\ UNCHANGED <<agent, log>>
            \/ ~session.active /\ session'.bash = session.bash
         /\ agent'.run = agent.run /\ agent'.aborted = agent.aborted /\ SameQueues
         /\ agent'.trail = agent.trail \/ agent'.trail = 0
         /\ log'.texts = log.texts
         /\ UNCHANGED <<loop, prompt, manual, user, spent>>
<1>1. session \in Sessions /\ agent \in Agents /\ log \in Logs
  BY Types
<1>2. CASE /\ session.active /\ session' = [session EXCEPT !.bash = @ + 1]
           /\ UNCHANGED <<agent, log>> /\ UNCHANGED <<loop, prompt, manual, user, spent>>
  BY <1>1, <1>2 DEF Sessions, SameLists, SameQueues
<1>3. CASE /\ ~session.active /\ agent' = [agent EXCEPT !.trail = 0]
           /\ log' = [log EXCEPT !.trail = 0] /\ UNCHANGED session
           /\ UNCHANGED <<loop, prompt, manual, user, spent>>
  BY <1>1, <1>3 DEF Agents, Logs, SameLists, SameQueues
<1> QED BY <1>2, <1>3 DEF RecordBash

LEMMA CompactDoes ==
  ASSUME TypeOK, Compact
  PROVE  /\ manual = "none"
         /\ "overlap" \in Faults \/ \A p \in Prompter : prompt[p].pc # "preflight"
         /\ session'.active = session.active /\ ~session'.connected
         /\ session'.retrying = None /\ session'.bash = session.bash
         /\ session'.last = session.last /\ session'.recovered = session.recovered /\ SameLists
         /\ session'.waiting = (IF session.active THEN session.waiting \cup {"compact"}
                                 ELSE session.waiting)
         /\ manual' = (IF session.active THEN "waits" ELSE "compacting")
         /\ agent'.run = agent.run /\ agent'.aborted = agent.run /\ agent'.trail = agent.trail
         /\ SameQueues
         /\ \/ session.retrying \notin Prompter /\ prompt' = prompt /\ session'.attempt = session.attempt
            \/ /\ session.retrying \in Prompter /\ session'.attempt = 0
               /\ Moved(session.retrying, "cancelled")
         /\ user'.failures = 0 /\ (user'.crossed <=> user.crossed \/ session.active) /\ SameTexts
         /\ UNCHANGED <<loop, log, spent>>
<1> DEFINE s == [session EXCEPT !.connected = FALSE]
<1>1. session \in Sessions /\ user \in Users
  BY Types
<1>2. /\ manual = "none"
      /\ "overlap" \in Faults \/ \A p \in Prompter : prompt[p].pc # "preflight"
      /\ Aborted("compact", s)
      /\ manual' = (IF session.active THEN "waits" ELSE "compacting")
      /\ UNCHANGED <<loop, log, spent>>
  BY DEF Compact
<1>3. user' = [user EXCEPT !.crossed = @ \/ session.active, !.failures = 0]
  BY DEF Compact
<1>4. user'.failures = 0 /\ (user'.crossed <=> user.crossed \/ session.active) /\ SameTexts
  BY <1>1, <1>2, <1>3 DEF Users, Sessions, SameTexts
<1>5. /\ s \in Sessions /\ s.active = session.active /\ ~s.connected /\ s.bash = session.bash
      /\ s.last = session.last /\ s.recovered = session.recovered /\ s.attempt = session.attempt
      /\ s.steering = session.steering /\ s.followUp = session.followUp /\ s.waiting = session.waiting
  BY <1>1 DEF Sessions
<1> HIDE DEF s
<1> QED BY <1>2, <1>4, <1>5, AbortedDoes DEF SameLists

LEMMA CompactEndsDoes ==
  ASSUME TypeOK, NEW ok \in BOOLEAN, CompactEnds(ok)
  PROVE  /\ manual = "compacting" /\ manual' = "none"
         /\ session'.active = session.active /\ session'.connected
         /\ session'.retrying = session.retrying /\ session'.waiting = session.waiting
         /\ session'.last = session.last /\ session'.recovered = session.recovered
         /\ session'.attempt = session.attempt /\ session'.bash = session.bash /\ SameLists
         /\ agent'.run = agent.run /\ agent'.aborted = agent.aborted /\ SameQueues
         /\ UNCHANGED <<loop, prompt, log, user, spent>>
<1>1. session \in Sessions /\ agent \in Agents
  BY Types
<1>2. /\ manual = "compacting" /\ manual' = "none"
      /\ session' = [session EXCEPT !.connected = TRUE]
      /\ agent' = agent \/ agent' = [agent EXCEPT !.trail = log.trail]
      /\ UNCHANGED <<loop, prompt, log, user, spent>>
  BY DEF CompactEnds
<1> QED BY <1>1, <1>2 DEF Sessions, Agents, SameLists, SameQueues

------------------------------------------------------------------------------
(* The run.                                                                *)

LEMMA RunPrompt ==
  ASSUME TypeOK, RunInv, NEW p \in Prompter, Prompt(p)
  PROVE  RunInv'
<1>1. user.said + 1 \in Text
  <2>1. user.said \in 0 .. MaxTexts /\ user.said < MaxTexts
    BY PromptDoes, Types DEF Users
  <2> QED BY <2>1, Bounds DEF Text
<1> QED BY <1>1, PromptDoes DEF RunInv

LEMMA RunRetryElapsed ==
  ASSUME TypeOK, RunInv, NEW p \in Prompter, RetryElapsed(p)
  PROVE  RunInv'
<1>1. None \notin Prompter
  BY NoneAssumption
<1> QED BY <1>1, RetryElapsedDoes DEF RunInv, Moved, SameSession

LEMMA RunInject ==
  ASSUME TypeOK, RunInv, Inject
  PROVE  RunInv'
<1>1. loop.pending \in Seq(Text) /\ loop.pending # <<>>
  BY InjectDoes, Types DEF Loops
<1>2. Tail(loop.pending) = <<>> <=> Len(loop.pending) = 1
  BY <1>1, LengthOfSome
<1>3. Len(loop.pending) > 1 => Len(loop.pending) # 1
  BY <1>1, LengthOfSome
<1>4. loop'.pending # <<>> <=> loop'.pc \in {"prompt", "inject"}
  <2>1. loop'.pending = Tail(loop.pending) /\ loop.pc \in {"prompt", "inject"}
    BY InjectDoes
  <2>2. \/ Len(loop.pending) > 1 /\ loop'.pc = loop.pc
        \/ Len(loop.pending) = 1 /\ loop.pc = "prompt" /\ loop'.pc = "start"
        \/ Len(loop.pending) = 1 /\ loop.pc = "inject" /\ loop'.pc = "stream"
    BY InjectDoes
  <2> QED BY <1>2, <1>3, <2>1, <2>2
<1>5. loop.pc \in {"prompt", "inject"} /\ loop'.pc \in {"prompt", "inject", "start", "stream"}
  BY InjectDoes
<1>6. /\ agent'.run = agent.run /\ SameSession /\ UNCHANGED <<prompt, manual>>
  BY InjectDoes
<1> QED BY <1>4, <1>5, <1>6 DEF RunInv, SameSession

LEMMA RunStart ==
  ASSUME TypeOK, RunInv, Start
  PROVE  RunInv'
<1>1. agent.steering \in Seq(Text) /\ agent.followUp \in Seq(Text)
  BY Types DEF Agents
<1>2. /\ agent.steering # <<>> => Drained(agent.steering) # <<>>
      /\ agent.followUp # <<>> => Drained(agent.followUp) # <<>>
  BY <1>1, DrainSplits
<1> QED BY <1>2, StartDoes DEF RunInv

LEMMA RunToolResult ==
  ASSUME TypeOK, RunInv, ToolResult
  PROVE  RunInv'
<1>1. loop.calls \in Nat
  BY Types, Bounds DEF Loops
<1>2. loop.calls # 0 /\ loop.calls # 1 => loop.calls - 1 # 0
  BY <1>1
<1> QED BY <1>2, ToolResultDoes DEF RunInv

LEMMA RunTurn ==
  ASSUME TypeOK, RunInv, Turn
  PROVE  RunInv'
<1>1. agent.steering \in Seq(Text) /\ agent.followUp \in Seq(Text)
  BY Types DEF Agents
<1>2. /\ agent.steering # <<>> => Drained(agent.steering) # <<>>
      /\ agent.followUp # <<>> => Drained(agent.followUp) # <<>>
  BY <1>1, DrainSplits
<1> QED BY <1>2, TurnDoes DEF RunInv

LEMMA RunAbort ==
  ASSUME TypeOK, RunInv, Abort
  PROVE  RunInv'
<1>1. None \notin Prompter
  BY NoneAssumption
<1> QED BY <1>1, AbortDoes DEF RunInv, Moved, SameSession

LEMMA RunCompact ==
  ASSUME TypeOK, RunInv, Compact
  PROVE  RunInv'
<1>1. None \notin Prompter
  BY NoneAssumption
<1> QED BY <1>1, CompactDoes DEF RunInv, Moved, SameSession

\* There is a run as long as one call says it runs, and what is on its way has a run to send it.
LEMMA RunStep ==
  ASSUME TypeOK, RunInv, Next
  PROVE  RunInv'
<1>1. ASSUME NEW p \in Prompter, Cancelled(p) PROVE RunInv'
  BY <1>1, CancelledDoes DEF RunInv, Moved, SameSession
<1>2. ASSUME NEW p \in Prompter, Continue(p) PROVE RunInv'
  BY <1>2, ContinueDoes DEF RunInv, Moved, SameSession
<1>3. ASSUME NEW p \in Prompter, Settle(p) PROVE RunInv'
  BY <1>3, SettleDoes DEF RunInv, Moved, SameSession
<1>4. ASSUME NEW p \in Prompter, TaskIsOver, Prompt(p) PROVE RunInv'
  BY <1>4, RunPrompt
<1>5. ASSUME NEW p \in Prompter, TaskIsOver, PreflightFails(p) PROVE RunInv'
  BY <1>5, PreflightFailsDoes DEF RunInv, Moved, SameSession
<1>6. ASSUME NEW p \in Prompter, TaskIsOver, Begin(p) PROVE RunInv'
  BY <1>6, BeginDoes DEF RunInv, Moved, SameSession
<1>7. ASSUME NEW p \in Prompter, TaskIsOver, RunEnds(p) PROVE RunInv'
  BY <1>7, RunEndsDoes DEF RunInv, Moved, SameSession
<1>8. ASSUME NEW p \in Prompter, TaskIsOver, RetryElapsed(p) PROVE RunInv'
  BY <1>8, RunRetryElapsed
<1>9. ASSUME NEW p \in Prompter, NEW ok \in BOOLEAN, TaskIsOver, CompactionEnds(p, ok) PROVE RunInv'
  BY <1>9, CompactionEndsDoes DEF RunInv, Moved, SameSession
<1>10. ASSUME NEW p \in Prompter, TaskIsOver, Settled(p) PROVE RunInv'
  BY <1>10, SettledDoes DEF RunInv, Moved, SameSession
<1>11. ASSUME TaskIsOver, Inject PROVE RunInv'
  BY <1>11, RunInject
<1>12. ASSUME TaskIsOver, Start PROVE RunInv'
  BY <1>12, RunStart
<1>13. ASSUME NEW o \in Replies \cup {"aborted"}, TaskIsOver, Reply(o) PROVE RunInv'
  BY <1>13, ReplyDoes DEF RunInv, Moved, SameSession
<1>14. ASSUME TaskIsOver, ToolResult PROVE RunInv'
  BY <1>14, RunToolResult
<1>15. ASSUME TaskIsOver, Turn PROVE RunInv'
  BY <1>15, RunTurn
<1>16. ASSUME TaskIsOver, Steer \/ FollowUp PROVE RunInv'
  BY <1>16, QueueDoes DEF RunInv, Moved, SameSession
<1>17. ASSUME TaskIsOver, ClearQueue PROVE RunInv'
  BY <1>17, ClearQueueDoes DEF RunInv, Moved, SameSession
<1>18. ASSUME TaskIsOver, Abort PROVE RunInv'
  BY <1>18, RunAbort
<1>19. ASSUME TaskIsOver, RecordBash PROVE RunInv'
  BY <1>19, RecordBashDoes DEF RunInv, Moved, SameSession
<1>20. ASSUME TaskIsOver, Compact PROVE RunInv'
  BY <1>20, RunCompact
<1>21. ASSUME NEW ok \in BOOLEAN, TaskIsOver, CompactEnds(ok) PROVE RunInv'
  BY <1>21, CompactEndsDoes DEF RunInv, Moved, SameSession
<1> QED BY <1>1, <1>2, <1>3, <1>4, <1>5, <1>6, <1>7, <1>8, <1>9, <1>10, <1>11, <1>12, <1>13,
          <1>14, <1>15, <1>16, <1>17, <1>18, <1>19, <1>20, <1>21, Steps

------------------------------------------------------------------------------
(* One call at a time.                                                     *)



\* One call is busy, and the session calls itself active exactly then.
LEMMA AloneStep ==
  ASSUME TypeOK, RunInv, Alone, Served, Next
  PROVE  Alone'
<1>1. ASSUME NEW p \in Prompter, Cancelled(p) PROVE Alone'
  BY <1>1, CancelledDoes DEF Alone, Served, RunInv, Busy, Moved, SameSession, SameUser
<1>2. ASSUME NEW p \in Prompter, Continue(p) PROVE Alone'
  BY <1>2, ContinueDoes DEF Alone, Served, RunInv, Busy, Moved, SameSession, SameUser
<1>3. ASSUME NEW p \in Prompter, Settle(p) PROVE Alone'
  BY <1>3, SettleDoes DEF Alone, Served, RunInv, Busy, Moved, SameSession, SameUser
<1>4. ASSUME NEW p \in Prompter, TaskIsOver, Prompt(p) PROVE Alone'
  BY <1>4, PromptDoes DEF Alone, Served, RunInv, Busy, TaskIsOver, Moved, SameSession, SameUser
<1>5. ASSUME NEW p \in Prompter, TaskIsOver, PreflightFails(p) PROVE Alone'
  BY <1>5, PreflightFailsDoes DEF Alone, Served, RunInv, Busy, TaskIsOver, Moved, SameSession,
     SameUser
<1>6. ASSUME NEW p \in Prompter, TaskIsOver, Begin(p) PROVE Alone'
  BY <1>6, BeginDoes DEF Alone, Served, RunInv, Busy, TaskIsOver, Moved, SameSession, SameUser
<1>7. ASSUME NEW p \in Prompter, TaskIsOver, RunEnds(p) PROVE Alone'
  BY <1>7, RunEndsDoes DEF Alone, Served, RunInv, Busy, TaskIsOver, Moved, SameSession, SameUser
<1>8. ASSUME NEW p \in Prompter, TaskIsOver, RetryElapsed(p) PROVE Alone'
  BY <1>8, RetryElapsedDoes DEF Alone, Served, RunInv, Busy, TaskIsOver, Moved, SameSession,
     SameUser
<1>9. ASSUME NEW p \in Prompter, NEW ok \in BOOLEAN, TaskIsOver, CompactionEnds(p, ok) PROVE Alone'
  BY <1>9, CompactionEndsDoes DEF Alone, Served, RunInv, Busy, TaskIsOver, Moved, SameSession,
     SameUser
<1>10. ASSUME NEW p \in Prompter, TaskIsOver, Settled(p) PROVE Alone'
  BY <1>10, SettledDoes DEF Alone, Served, RunInv, Busy, TaskIsOver, Moved, SameSession, SameUser
<1>11. ASSUME TaskIsOver, Inject PROVE Alone'
  BY <1>11, InjectDoes DEF Alone, Served, RunInv, Busy, TaskIsOver, Moved, SameSession, SameUser
<1>12. ASSUME TaskIsOver, Start PROVE Alone'
  BY <1>12, StartDoes DEF Alone, Served, RunInv, Busy, TaskIsOver, Moved, SameSession, SameUser
<1>13. ASSUME NEW o \in Replies \cup {"aborted"}, TaskIsOver, Reply(o) PROVE Alone'
  BY <1>13, ReplyDoes DEF Alone, Served, RunInv, Busy, TaskIsOver, Moved, SameSession, SameUser
<1>14. ASSUME TaskIsOver, ToolResult PROVE Alone'
  BY <1>14, ToolResultDoes DEF Alone, Served, RunInv, Busy, TaskIsOver, Moved, SameSession, SameUser
<1>15. ASSUME TaskIsOver, Turn PROVE Alone'
  BY <1>15, TurnDoes DEF Alone, Served, RunInv, Busy, TaskIsOver, Moved, SameSession, SameUser
<1>16. ASSUME TaskIsOver, Steer \/ FollowUp PROVE Alone'
  BY <1>16, QueueDoes DEF Alone, Served, RunInv, Busy, TaskIsOver, Moved, SameSession, SameUser
<1>17. ASSUME TaskIsOver, ClearQueue PROVE Alone'
  BY <1>17, ClearQueueDoes DEF Alone, Served, RunInv, Busy, TaskIsOver, Moved, SameSession, SameUser
<1>18. ASSUME TaskIsOver, Abort PROVE Alone'
  BY <1>18, AbortDoes DEF Alone, Served, RunInv, Busy, TaskIsOver, Moved, SameSession, SameUser
<1>19. ASSUME TaskIsOver, RecordBash PROVE Alone'
  BY <1>19, RecordBashDoes DEF Alone, Served, RunInv, Busy, TaskIsOver, Moved, SameSession, SameUser
<1>20. ASSUME TaskIsOver, Compact PROVE Alone'
  BY <1>20, CompactDoes DEF Alone, Served, RunInv, Busy, TaskIsOver, Moved, SameSession, SameUser
<1>21. ASSUME NEW ok \in BOOLEAN, TaskIsOver, CompactEnds(ok) PROVE Alone'
  BY <1>21, CompactEndsDoes DEF Alone, Served, RunInv, Busy, TaskIsOver, Moved, SameSession,
     SameUser
<1> QED BY <1>1, <1>2, <1>3, <1>4, <1>5, <1>6, <1>7, <1>8, <1>9, <1>10, <1>11, <1>12, <1>13,
          <1>14, <1>15, <1>16, <1>17, <1>18, <1>19, <1>20, <1>21, Steps

LEMMA ServedContinue ==
  ASSUME TypeOK, RunInv, Alone, Served, NEW p \in Prompter, Continue(p)
  PROVE  Served'
<1>1. agent.steering \in Seq(Text) /\ agent.followUp \in Seq(Text)
  BY Types DEF Agents
<1>2. /\ Drained(agent.steering) = <<>> => agent.steering = <<>>
      /\ Drained(agent.followUp) = <<>> => agent.followUp = <<>>
  BY <1>1, DrainSplits
<1> QED BY <1>2, ContinueDoes DEF Alone, Served, RunInv, Busy, HasQueued, Moved, SameQueues

\* A call is done when nothing is queued, and the count of retries is spent or reset by then.
LEMMA ServedStep ==
  ASSUME TypeOK, RunInv, Alone, Served, Next
  PROVE  Served'
<1>1. ASSUME NEW p \in Prompter, Cancelled(p) PROVE Served'
  BY <1>1, CancelledDoes DEF Alone, Served, RunInv, Busy, HasQueued, Moved, SameSession, SameUser,
     SameQueues
<1>2. ASSUME NEW p \in Prompter, Continue(p) PROVE Served'
  BY <1>2, ServedContinue
<1>3. ASSUME NEW p \in Prompter, Settle(p) PROVE Served'
  BY <1>3, SettleDoes DEF Alone, Served, RunInv, Busy, HasQueued, Moved, SameSession, SameUser,
     SameQueues
<1>4. ASSUME NEW p \in Prompter, TaskIsOver, Prompt(p) PROVE Served'
  BY <1>4, PromptDoes DEF Alone, Served, RunInv, Busy, HasQueued, TaskIsOver, Moved, SameSession,
     SameUser, SameQueues
<1>5. ASSUME NEW p \in Prompter, TaskIsOver, PreflightFails(p) PROVE Served'
  BY <1>5, PreflightFailsDoes DEF Alone, Served, RunInv, Busy, HasQueued, TaskIsOver, Moved,
     SameSession, SameUser, SameQueues
<1>6. ASSUME NEW p \in Prompter, TaskIsOver, Begin(p) PROVE Served'
  BY <1>6, BeginDoes DEF Alone, Served, RunInv, Busy, HasQueued, TaskIsOver, Moved, SameSession,
     SameUser, SameQueues
<1>7. ASSUME NEW p \in Prompter, TaskIsOver, RunEnds(p) PROVE Served'
  BY <1>7, RunEndsDoes DEF Alone, Served, RunInv, Busy, HasQueued, TaskIsOver, Moved, SameSession,
     SameUser, SameQueues, Errors, Replies, Less
<1>8. ASSUME NEW p \in Prompter, TaskIsOver, RetryElapsed(p) PROVE Served'
  BY <1>8, RetryElapsedDoes DEF Alone, Served, RunInv, Busy, HasQueued, TaskIsOver, Moved,
     SameSession, SameUser, SameQueues
<1>9. ASSUME NEW p \in Prompter, NEW ok \in BOOLEAN, TaskIsOver, CompactionEnds(p, ok) PROVE Served'
  BY <1>9, CompactionEndsDoes DEF Alone, Served, RunInv, Busy, HasQueued, TaskIsOver, Moved,
     SameSession, SameUser, SameQueues
<1>10. ASSUME NEW p \in Prompter, TaskIsOver, Settled(p) PROVE Served'
  BY <1>10, SettledDoes DEF Alone, Served, RunInv, Busy, HasQueued, TaskIsOver, Moved,
     SameSession, SameUser, SameQueues
<1>11. ASSUME TaskIsOver, Inject PROVE Served'
  BY <1>11, InjectDoes DEF Alone, Served, RunInv, Busy, HasQueued, TaskIsOver, Moved, SameSession,
     SameUser, SameQueues
<1>12. ASSUME TaskIsOver, Start PROVE Served'
  BY <1>12, StartDoes DEF Alone, Served, RunInv, Busy, HasQueued, TaskIsOver, Moved, SameSession,
     SameUser, SameQueues
<1>13. ASSUME NEW o \in Replies \cup {"aborted"}, TaskIsOver, Reply(o) PROVE Served'
  BY <1>13, ReplyDoes DEF Alone, Served, RunInv, Busy, HasQueued, TaskIsOver, Moved, SameSession,
     SameUser, SameQueues, Errors, Replies
<1>14. ASSUME TaskIsOver, ToolResult PROVE Served'
  BY <1>14, ToolResultDoes DEF Alone, Served, RunInv, Busy, HasQueued, TaskIsOver, Moved,
     SameSession, SameUser, SameQueues
<1>15. ASSUME TaskIsOver, Turn PROVE Served'
  BY <1>15, TurnDoes DEF Alone, Served, RunInv, Busy, HasQueued, TaskIsOver, Moved, SameSession,
     SameUser, SameQueues, Errors, Replies
<1>16. ASSUME TaskIsOver, Steer \/ FollowUp PROVE Served'
  BY <1>16, QueueDoes DEF Alone, Served, RunInv, Busy, HasQueued, TaskIsOver, Moved, SameSession,
     SameUser, SameQueues
<1>17. ASSUME TaskIsOver, ClearQueue PROVE Served'
  BY <1>17, ClearQueueDoes DEF Alone, Served, RunInv, Busy, HasQueued, TaskIsOver, Moved,
     SameSession, SameUser, SameQueues
<1>18. ASSUME TaskIsOver, Abort PROVE Served'
  BY <1>18, AbortDoes DEF Alone, Served, RunInv, Busy, HasQueued, TaskIsOver, Moved, SameSession,
     SameUser, SameQueues
<1>19. ASSUME TaskIsOver, RecordBash PROVE Served'
  BY <1>19, RecordBashDoes DEF Alone, Served, RunInv, Busy, HasQueued, TaskIsOver, Moved,
     SameSession, SameUser, SameQueues
<1>20. ASSUME TaskIsOver, Compact PROVE Served'
  BY <1>20, CompactDoes DEF Alone, Served, RunInv, Busy, HasQueued, TaskIsOver, Moved,
     SameSession, SameUser, SameQueues
<1>21. ASSUME NEW ok \in BOOLEAN, TaskIsOver, CompactEnds(ok) PROVE Served'
  BY <1>21, CompactEndsDoes DEF Alone, Served, RunInv, Busy, HasQueued, TaskIsOver, Moved,
     SameSession, SameUser, SameQueues
<1> QED BY <1>1, <1>2, <1>3, <1>4, <1>5, <1>6, <1>7, <1>8, <1>9, <1>10, <1>11, <1>12, <1>13,
          <1>14, <1>15, <1>16, <1>17, <1>18, <1>19, <1>20, <1>21, Steps

------------------------------------------------------------------------------
(* The errors in a row.                                                    *)



\* Without overlapping prompts one call is busy at a time, crossed or not.
LEMMA SingleStep ==
  ASSUME TypeOK, RunInv, Single, Next
  PROVE  Single'
<1>1. ASSUME NEW p \in Prompter, Cancelled(p) PROVE Single'
  BY <1>1, CancelledDoes DEF Single, RunInv, Busy, Moved, SameSession
<1>2. ASSUME NEW p \in Prompter, Continue(p) PROVE Single'
  BY <1>2, ContinueDoes DEF Single, RunInv, Busy, Moved, SameSession
<1>3. ASSUME NEW p \in Prompter, Settle(p) PROVE Single'
  BY <1>3, SettleDoes DEF Single, RunInv, Busy, Moved, SameSession
<1>4. ASSUME NEW p \in Prompter, TaskIsOver, Prompt(p) PROVE Single'
  BY <1>4, PromptDoes DEF Single, RunInv, Busy, TaskIsOver, Moved, SameSession
<1>5. ASSUME NEW p \in Prompter, TaskIsOver, PreflightFails(p) PROVE Single'
  BY <1>5, PreflightFailsDoes DEF Single, RunInv, Busy, TaskIsOver, Moved, SameSession
<1>6. ASSUME NEW p \in Prompter, TaskIsOver, Begin(p) PROVE Single'
  BY <1>6, BeginDoes DEF Single, RunInv, Busy, TaskIsOver, Moved, SameSession
<1>7. ASSUME NEW p \in Prompter, TaskIsOver, RunEnds(p) PROVE Single'
  BY <1>7, RunEndsDoes DEF Single, RunInv, Busy, TaskIsOver, Moved, SameSession
<1>8. ASSUME NEW p \in Prompter, TaskIsOver, RetryElapsed(p) PROVE Single'
  BY <1>8, RetryElapsedDoes DEF Single, RunInv, Busy, TaskIsOver, Moved, SameSession
<1>9. ASSUME NEW p \in Prompter, NEW ok \in BOOLEAN, TaskIsOver, CompactionEnds(p, ok) PROVE Single'
  BY <1>9, CompactionEndsDoes DEF Single, RunInv, Busy, TaskIsOver, Moved, SameSession
<1>10. ASSUME NEW p \in Prompter, TaskIsOver, Settled(p) PROVE Single'
  BY <1>10, SettledDoes DEF Single, RunInv, Busy, TaskIsOver, Moved, SameSession
<1>11. ASSUME TaskIsOver, Inject PROVE Single'
  BY <1>11, InjectDoes DEF Single, RunInv, Busy, TaskIsOver, Moved, SameSession
<1>12. ASSUME TaskIsOver, Start PROVE Single'
  BY <1>12, StartDoes DEF Single, RunInv, Busy, TaskIsOver, Moved, SameSession
<1>13. ASSUME NEW o \in Replies \cup {"aborted"}, TaskIsOver, Reply(o) PROVE Single'
  BY <1>13, ReplyDoes DEF Single, RunInv, Busy, TaskIsOver, Moved, SameSession
<1>14. ASSUME TaskIsOver, ToolResult PROVE Single'
  BY <1>14, ToolResultDoes DEF Single, RunInv, Busy, TaskIsOver, Moved, SameSession
<1>15. ASSUME TaskIsOver, Turn PROVE Single'
  BY <1>15, TurnDoes DEF Single, RunInv, Busy, TaskIsOver, Moved, SameSession
<1>16. ASSUME TaskIsOver, Steer \/ FollowUp PROVE Single'
  BY <1>16, QueueDoes DEF Single, RunInv, Busy, TaskIsOver, Moved, SameSession
<1>17. ASSUME TaskIsOver, ClearQueue PROVE Single'
  BY <1>17, ClearQueueDoes DEF Single, RunInv, Busy, TaskIsOver, Moved, SameSession
<1>18. ASSUME TaskIsOver, Abort PROVE Single'
  BY <1>18, AbortDoes DEF Single, RunInv, Busy, TaskIsOver, Moved, SameSession
<1>19. ASSUME TaskIsOver, RecordBash PROVE Single'
  BY <1>19, RecordBashDoes DEF Single, RunInv, Busy, TaskIsOver, Moved, SameSession
<1>20. ASSUME TaskIsOver, Compact PROVE Single'
  BY <1>20, CompactDoes DEF Single, RunInv, Busy, TaskIsOver, Moved, SameSession
<1>21. ASSUME NEW ok \in BOOLEAN, TaskIsOver, CompactEnds(ok) PROVE Single'
  BY <1>21, CompactEndsDoes DEF Single, RunInv, Busy, TaskIsOver, Moved, SameSession
<1> QED BY <1>1, <1>2, <1>3, <1>4, <1>5, <1>6, <1>7, <1>8, <1>9, <1>10, <1>11, <1>12, <1>13,
          <1>14, <1>15, <1>16, <1>17, <1>18, <1>19, <1>20, <1>21, Steps

LEMMA Numbers ==
  ASSUME TypeOK
  PROVE  /\ session.attempt \in Nat /\ session.attempt <= MaxRetries /\ MaxRetries \in Nat
         /\ user.failures \in Nat /\ agent.trail \in Nat /\ log.trail \in Nat
<1>1. session \in Sessions /\ user \in Users /\ agent \in Agents /\ log \in Logs
  BY Types
<1> QED BY <1>1, Bounds DEF Sessions, Users, Agents, Logs

LEMMA PatienceRunEnds ==
  ASSUME TypeOK, RunInv, Single, Patience, NEW p \in Prompter, RunEnds(p), TaskIsOver
  PROVE  Patience'
<1> SUFFICES ASSUME "overlap" \notin Faults
             PROVE  Patience'
  BY DEF Patience
<1> DEFINE msg == session.last
<1>1. /\ prompt[p].pc = "running" /\ loop.pc = "end" /\ loop'.pc = "none" /\ session'.last = "none"
      /\ UNCHANGED <<log, manual, user, spent>>
  BY RunEndsDoes
<1>2. \A q \in Prompter : q # p => prompt[q].pc \in {"idle", "settling"}
  BY <1>1 DEF Single
<1>3. /\ user.failures <= Credit + 1
      /\ msg \in Errors => agent.trail # 0 /\ log.trail # 0
      /\ msg \notin Errors \cup {"none"} => user.failures = 0
  BY <1>1 DEF Patience
<1>4. CASE /\ session'.attempt = session.attempt + 1 /\ session'.recovered = session.recovered
           /\ Moved(p, "sleep")
  <2>1. user.failures <= Credit'
    BY <1>3, <1>4, Numbers DEF Credit
  <2> QED BY <1>1, <1>2, <1>4, <2>1 DEF Patience, Moved, Errors
<1>5. CASE /\ session'.attempt = (IF msg \in Errors THEN 0 ELSE session.attempt)
           /\ msg \in {"overflow", "length"} /\ ~session.recovered
           /\ session'.recovered /\ Moved(p, msg)
  <2>1. user.failures <= Credit'
    BY <1>3, <1>5, Numbers DEF Credit, Errors
  <2> QED BY <1>1, <1>2, <1>5, <2>1 DEF Patience, Moved, Errors
<1>6. CASE /\ session'.attempt = (IF msg \in Errors THEN 0 ELSE session.attempt)
           /\ session'.recovered = session.recovered /\ agent'.trail = agent.trail
           /\ \/ msg \notin {"none", "aborted", "overflow", "length"} /\ Moved(p, "threshold")
              \/ msg # "none" /\ Moved(p, "continue")
              \/ Moved(p, "done")
  <2>1. msg \notin Errors \cup {"none"} => user.failures <= Credit'
    BY <1>3, <1>6, Numbers DEF Credit
  <2>2. \/ Moved(p, "threshold") \/ Moved(p, "continue") \/ Moved(p, "done")
    BY <1>6
  <2>3. Moved(p, "threshold") => user.failures <= Credit' \/ (agent'.trail # 0 /\ log'.trail # 0)
    BY <1>1, <1>3, <1>6, <2>1 DEF Moved
  <2>4. Moved(p, "continue") => user.failures <= Credit' \/ agent'.trail # 0
    BY <1>1, <1>3, <1>6, <2>1 DEF Moved
  <2> QED BY <1>1, <1>2, <2>2, <2>3, <2>4 DEF Patience, Moved, Errors
<1> QED BY <1>4, <1>5, <1>6, RunEndsDoes

LEMMA PatienceReply ==
  ASSUME TypeOK, RunInv, Single, Patience, NEW o \in Replies \cup {"aborted"}, Reply(o), TaskIsOver
  PROVE  Patience'
<1> SUFFICES ASSUME "overlap" \notin Faults
             PROVE  Patience'
  BY DEF Patience
<1>1. /\ loop.pc = "stream" /\ UNCHANGED <<prompt, manual>>
      /\ \/ o = "calls" /\ loop'.pc = "tools"
         \/ o \in {"stop", "length"} /\ loop'.pc = "turn"
         \/ o \in Errors \cup {"aborted"} /\ loop'.pc = "end"
      /\ (o = "aborted") <=> agent.aborted
      /\ agent'.trail = agent.trail + 1 /\ agent'.aborted = agent.aborted
      /\ user'.failures = (IF o \in Errors THEN user.failures + 1 ELSE 0)
      /\ session'.connected = session.connected
  BY ReplyDoes DEF SameSession
<1>2. \/ /\ session.connected /\ session'.last = o /\ log'.trail = log.trail + 1
         /\ o \in Errors => (session'.recovered <=> session.recovered)
         /\ o \notin Errors => ~session'.recovered
         /\ session'.attempt = IF o \in Errors THEN session.attempt ELSE 0
      \/ ~session.connected /\ UNCHANGED <<session, log>>
  BY ReplyDoes
<1>3. agent'.trail # 0 /\ (session.connected => log'.trail # 0)
  BY <1>1, <1>2, Numbers
<1>4. \A q \in Prompter : prompt'[q].pc \in {"idle", "settling", "running"}
  BY <1>1 DEF Single, RunInv
<1>5. user.failures <= Credit
  BY <1>1 DEF Patience
<1>6. o \notin Errors => user'.failures = 0 /\ user'.failures <= Credit' /\ user'.failures <= Credit' + 1
  BY <1>1, <1>2, Numbers DEF Credit
<1>7. o \in Errors => user'.failures <= Credit' + 1
  BY <1>1, <1>2, <1>5, Numbers DEF Credit
<1>8. ~session.connected /\ session.last # "none" => o = "aborted"
  BY <1>1 DEF Patience
<1>9. session.last \notin Errors
  BY <1>1 DEF Patience
<1>10. "none" \notin Replies \cup {"aborted"}
  BY DEF Replies, Errors
<1>11. o \in Errors <=> o \in {"error", "fatal", "overflow"}
  BY DEF Errors
<1>12. CASE session.connected
  BY <1>1, <1>2, <1>3, <1>4, <1>6, <1>7, <1>10, <1>11, <1>12 DEF Patience
<1>13. CASE ~session.connected
  BY <1>1, <1>2, <1>3, <1>4, <1>6, <1>7, <1>8, <1>9, <1>10, <1>11, <1>13 DEF Patience
<1> QED BY <1>12, <1>13

LEMMA PatienceAbort ==
  ASSUME TypeOK, RunInv, Single, Patience, Abort, TaskIsOver
  PROVE  Patience'
<1>1. /\ session'.recovered = session.recovered /\ session'.last = session.last
      /\ session'.attempt \in {0, session.attempt} /\ session'.connected = session.connected
      /\ user'.failures = 0 /\ agent'.run = agent.run /\ agent'.aborted = agent.run
      /\ agent'.trail = agent.trail
      /\ UNCHANGED <<loop, log>>
  BY AbortDoes
<1>2. user'.failures <= Credit'
  BY <1>1, Numbers DEF Credit
<1>3. user'.failures <= Credit' + 1
  BY <1>1, Numbers DEF Credit
<1> QED BY <1>1, <1>2, <1>3 DEF Patience, RunInv

\* Every error has been paid for: by a retry that is counted, or by the one recovery.
LEMMA PatienceStep ==
  ASSUME TypeOK, RunInv, Single, Patience, Next
  PROVE  Patience'
<1>1. ASSUME NEW p \in Prompter, Cancelled(p) PROVE Patience'
  BY <1>1, CancelledDoes, Numbers DEF Patience, Credit, Single, RunInv, Busy, Moved, SameSession,
     SameUser, Errors
<1>2. ASSUME NEW p \in Prompter, Continue(p) PROVE Patience'
  BY <1>2, ContinueDoes, Numbers DEF Patience, Credit, Single, RunInv, Busy, Moved, SameSession,
     SameUser, Errors
<1>3. ASSUME NEW p \in Prompter, Settle(p) PROVE Patience'
  BY <1>3, SettleDoes, Numbers DEF Patience, Credit, Single, RunInv, Busy, Moved, SameSession,
     SameUser, Errors
<1>4. ASSUME NEW p \in Prompter, TaskIsOver, Prompt(p) PROVE Patience'
  BY <1>4, PromptDoes, Numbers DEF Patience, Credit, Single, RunInv, Busy, TaskIsOver, Moved,
     SameSession, SameUser, Errors
<1>5. ASSUME NEW p \in Prompter, TaskIsOver, PreflightFails(p) PROVE Patience'
  BY <1>5, PreflightFailsDoes, Numbers DEF Patience, Credit, Single, RunInv, Busy, TaskIsOver,
     Moved, SameSession, SameUser, Errors
<1>6. ASSUME NEW p \in Prompter, TaskIsOver, Begin(p) PROVE Patience'
  BY <1>6, BeginDoes, Numbers DEF Patience, Credit, Single, RunInv, Busy, TaskIsOver, Moved,
     SameSession, SameUser, Errors
<1>7. ASSUME NEW p \in Prompter, TaskIsOver, RunEnds(p) PROVE Patience'
  BY <1>7, PatienceRunEnds
<1>8. ASSUME NEW p \in Prompter, TaskIsOver, RetryElapsed(p) PROVE Patience'
  BY <1>8, RetryElapsedDoes, Numbers DEF Patience, Credit, Single, RunInv, Busy, TaskIsOver,
     Moved, SameSession, SameUser, Errors
<1>9. ASSUME NEW p \in Prompter, NEW ok \in BOOLEAN, TaskIsOver, CompactionEnds(p, ok)
      PROVE  Patience'
  BY <1>9, CompactionEndsDoes, Numbers DEF Patience, Credit, Single, RunInv, Busy, TaskIsOver,
     Moved, SameSession, SameUser, Errors, Less
<1>10. ASSUME NEW p \in Prompter, TaskIsOver, Settled(p) PROVE Patience'
  BY <1>10, SettledDoes, Numbers DEF Patience, Credit, Single, RunInv, Busy, TaskIsOver, Moved,
     SameSession, SameUser, Errors
<1>11. ASSUME TaskIsOver, Inject PROVE Patience'
  BY <1>11, InjectDoes, Numbers DEF Patience, Credit, Single, RunInv, Busy, TaskIsOver, Moved,
     SameSession, SameUser, Errors
<1>12. ASSUME TaskIsOver, Start PROVE Patience'
  BY <1>12, StartDoes, Numbers DEF Patience, Credit, Single, RunInv, Busy, TaskIsOver, Moved,
     SameSession, SameUser, Errors
<1>13. ASSUME NEW o \in Replies \cup {"aborted"}, TaskIsOver, Reply(o) PROVE Patience'
  BY <1>13, PatienceReply
<1>14. ASSUME TaskIsOver, ToolResult PROVE Patience'
  BY <1>14, ToolResultDoes, Numbers DEF Patience, Credit, Single, RunInv, Busy, TaskIsOver, Moved,
     SameSession, SameUser, Errors
<1>15. ASSUME TaskIsOver, Turn PROVE Patience'
  BY <1>15, TurnDoes, Numbers DEF Patience, Credit, Single, RunInv, Busy, TaskIsOver, Moved,
     SameSession, SameUser, Errors
<1>16. ASSUME TaskIsOver, Steer \/ FollowUp PROVE Patience'
  BY <1>16, QueueDoes, Numbers DEF Patience, Credit, Single, RunInv, Busy, TaskIsOver, Moved,
     SameSession, SameUser, Errors
<1>17. ASSUME TaskIsOver, ClearQueue PROVE Patience'
  BY <1>17, ClearQueueDoes, Numbers DEF Patience, Credit, Single, RunInv, Busy, TaskIsOver, Moved,
     SameSession, SameUser, Errors
<1>18. ASSUME TaskIsOver, Abort PROVE Patience'
  BY <1>18, PatienceAbort
<1>19. ASSUME TaskIsOver, RecordBash PROVE Patience'
  BY <1>19, RecordBashDoes, Numbers DEF Patience, Credit, Single, RunInv, Busy, TaskIsOver, Moved,
     SameSession, SameUser, Errors
<1>20. ASSUME TaskIsOver, Compact PROVE Patience'
  BY <1>20, CompactDoes, Numbers DEF Patience, Credit, Single, RunInv, Busy, TaskIsOver, Moved,
     SameSession, SameUser, Errors
<1>21. ASSUME NEW ok \in BOOLEAN, TaskIsOver, CompactEnds(ok) PROVE Patience'
  BY <1>21, CompactEndsDoes, Numbers DEF Patience, Credit, Single, RunInv, Busy, TaskIsOver,
     Moved, SameSession, SameUser, Errors
<1> QED BY <1>1, <1>2, <1>3, <1>4, <1>5, <1>6, <1>7, <1>8, <1>9, <1>10, <1>11, <1>12, <1>13,
          <1>14, <1>15, <1>16, <1>17, <1>18, <1>19, <1>20, <1>21, Steps

------------------------------------------------------------------------------
(* The texts.                                                              *)

\* A prompt that is prepared keeps its text, and no other begins.
LEMMA PreparingKept ==
  ASSUME OneEach,
         \A q \in Prompter : /\ prompt'[q].pc = "preflight" <=> prompt[q].pc = "preflight"
                             /\ prompt[q].pc = "preflight" => prompt'[q].text = prompt[q].text
  PROVE  Preparing' = Preparing /\ OneEach'
BY DEF Preparing, OneEach

LEMMA PreparingLess ==
  ASSUME OneEach, NEW p \in Prompter, prompt[p].pc = "preflight", prompt'[p].pc # "preflight",
         \A q \in Prompter : q # p => prompt'[q].pc = prompt[q].pc /\ prompt'[q].text = prompt[q].text
  PROVE  /\ Preparing' = Preparing \ {prompt[p].text} /\ OneEach'
         /\ prompt[p].text \in Preparing
<1>1. OneEach' /\ prompt[p].text \in Preparing
  BY DEF Preparing, OneEach
<1>2. ASSUME NEW t PROVE t \in Preparing' <=> t \in Preparing /\ t # prompt[p].text
  BY DEF Preparing, OneEach
<1> QED BY <1>1, <1>2

\* A step that moves no text.
LEMMA NoTextMoves ==
  ASSUME TextInv, SameLists, SameQueues, loop'.pending = loop.pending, SameTexts,
         user.crossed => user'.crossed,
         \A q \in Prompter : /\ prompt'[q].pc = "preflight" <=> prompt[q].pc = "preflight"
                             /\ prompt[q].pc = "preflight" => prompt'[q].text = prompt[q].text
  PROVE  TextInv'
<1>1. Preparing' = Preparing /\ OneEach'
  BY PreparingKept DEF TextInv
<1>2. Shown' = Shown /\ Waiting' = Waiting /\ Pending' = Pending
  BY DEF Shown, Waiting, Pending, SameLists, SameQueues
<1>3. Lists'
  BY DEF TextInv, Lists, SameLists, SameQueues
<1>4. Places'
  BY <1>1, <1>2 DEF TextInv, Places, SameTexts
<1> QED BY <1>1, <1>3, <1>4 DEF TextInv

\* The texts of a queue that is drained are on their way.
LEMMA DrainMoves ==
  ASSUME TypeOK, TextInv, SameLists, SameTexts, loop.pending = <<>>,
         user.crossed => user'.crossed,
         \A q \in Prompter : /\ prompt'[q].pc = "preflight" <=> prompt[q].pc = "preflight"
                             /\ prompt[q].pc = "preflight" => prompt'[q].text = prompt[q].text,
         \/ /\ agent'.steering = Left(agent.steering) /\ agent'.followUp = agent.followUp
            /\ loop'.pending = Drained(agent.steering)
         \/ /\ agent'.steering = agent.steering /\ agent'.followUp = Left(agent.followUp)
            /\ loop'.pending = Drained(agent.followUp)
  PROVE  TextInv'
<1>1. Preparing' = Preparing /\ OneEach'
  BY PreparingKept DEF TextInv
<1>2. /\ agent.steering \in Seq(Text) /\ agent.followUp \in Seq(Text)
      /\ session.steering \in Seq(Text) /\ session.followUp \in Seq(Text)
  BY Types DEF Agents, Sessions
<1>3. Lists
  BY DEF TextInv
<1>4. /\ Range(agent.steering) \subseteq Range(session.steering)
      /\ Range(agent.followUp) \subseteq Range(session.followUp)
      /\ IsInjective(agent.steering) /\ IsInjective(agent.followUp)
      /\ Range(session.steering) \cap Range(session.followUp) = {}
  BY <1>2, <1>3, SuffixRange, SuffixInjective DEF Lists
<1>5. Pending = {}
  BY EmptyAndOne DEF Pending
<1>6. ASSUME agent'.steering = Left(agent.steering), agent'.followUp = agent.followUp,
             loop'.pending = Drained(agent.steering)
      PROVE  Lists' /\ Waiting = Waiting' \cup Pending' /\ Waiting' \cap Pending' = {}
  <2>1. /\ Left(agent.steering) \in Seq(Text)
        /\ Range(agent.steering) = Range(Drained(agent.steering)) \cup Range(Left(agent.steering))
        /\ IsSuffix(Left(agent.steering), agent.steering)
        /\ IsInjective(Drained(agent.steering))
        /\ Range(Drained(agent.steering)) \cap Range(Left(agent.steering)) = {}
    BY <1>2, <1>4, DrainSplits
  <2>2. IsSuffix(Left(agent.steering), session.steering)
    BY <1>2, <1>3, <2>1, SuffixOfSuffix DEF Lists
  <2>3. Lists'
    BY <1>3, <1>6, <2>1, <2>2 DEF Lists, SameLists
  <2>4. Waiting = Waiting' \cup Pending' /\ Waiting' \cap Pending' = {}
    BY <1>4, <1>6, <2>1 DEF Waiting, Pending
  <2> QED BY <2>3, <2>4
<1>7. ASSUME agent'.steering = agent.steering, agent'.followUp = Left(agent.followUp),
             loop'.pending = Drained(agent.followUp)
      PROVE  Lists' /\ Waiting = Waiting' \cup Pending' /\ Waiting' \cap Pending' = {}
  <2>1. /\ Left(agent.followUp) \in Seq(Text)
        /\ Range(agent.followUp) = Range(Drained(agent.followUp)) \cup Range(Left(agent.followUp))
        /\ IsSuffix(Left(agent.followUp), agent.followUp)
        /\ IsInjective(Drained(agent.followUp))
        /\ Range(Drained(agent.followUp)) \cap Range(Left(agent.followUp)) = {}
    BY <1>2, <1>4, DrainSplits
  <2>2. IsSuffix(Left(agent.followUp), session.followUp)
    BY <1>2, <1>3, <2>1, SuffixOfSuffix DEF Lists
  <2>3. Lists'
    BY <1>3, <1>7, <2>1, <2>2 DEF Lists, SameLists
  <2>4. Waiting = Waiting' \cup Pending' /\ Waiting' \cap Pending' = {}
    BY <1>4, <1>7, <2>1 DEF Waiting, Pending
  <2> QED BY <2>3, <2>4
<1>8. Lists' /\ Waiting = Waiting' \cup Pending' /\ Waiting' \cap Pending' = {}
  BY <1>6, <1>7
<1>9. Shown' = Shown /\ Waiting \subseteq Shown
  BY <1>4 DEF Shown, Waiting, SameLists
<1>10. Places'
  <2> HIDE DEF Shown, Waiting, Pending, Preparing
  <2> QED BY <1>1, <1>5, <1>8, <1>9 DEF TextInv, Places, SameTexts
<1> QED BY <1>1, <1>8, <1>10 DEF TextInv

LEMMA NotPreflight ==
  ASSUME NEW p \in Prompter, NEW pc, Moved(p, pc), prompt[p].pc # "preflight", pc # "preflight"
  PROVE  \A q \in Prompter : /\ prompt'[q].pc = "preflight" <=> prompt[q].pc = "preflight"
                             /\ prompt[q].pc = "preflight" => prompt'[q].text = prompt[q].text
BY DEF Moved

LEMMA NobodyMoves ==
  ASSUME prompt' = prompt
  PROVE  \A q \in Prompter : /\ prompt'[q].pc = "preflight" <=> prompt[q].pc = "preflight"
                             /\ prompt[q].pc = "preflight" => prompt'[q].text = prompt[q].text
OBVIOUS

LEMMA TextRunEnds ==
  ASSUME TypeOK, RunInv, TextInv, NEW p \in Prompter, RunEnds(p)
  PROVE  TextInv'
<1>1. /\ loop'.pending = loop.pending /\ SameLists /\ SameQueues /\ SameTexts
      /\ user'.crossed = user.crossed
  BY RunEndsDoes DEF RunInv, SameTexts
<1>2. PICK pc \in {"sleep", "overflow", "length", "threshold", "continue", "done"} : Moved(p, pc)
  BY RunEndsDoes
<1>3. prompt[p].pc # "preflight" /\ pc # "preflight"
  BY RunEndsDoes, <1>2
<1> QED BY <1>1, <1>2, <1>3, NotPreflight, NoTextMoves

LEMMA TextRetryElapsed ==
  ASSUME TypeOK, TextInv, NEW p \in Prompter, RetryElapsed(p)
  PROVE  TextInv'
<1>1. /\ loop'.pending = loop.pending /\ SameLists /\ SameQueues /\ SameTexts
      /\ user'.crossed = user.crossed
  BY RetryElapsedDoes DEF SameTexts, SameQueues
<1>2. Moved(p, "continue") /\ prompt[p].pc # "preflight"
  BY RetryElapsedDoes
<1> QED BY <1>1, <1>2, NotPreflight, NoTextMoves

LEMMA TextCancelled ==
  ASSUME TypeOK, TextInv, NEW p \in Prompter, Cancelled(p)
  PROVE  TextInv'
<1>1. /\ loop'.pending = loop.pending /\ SameLists /\ SameQueues /\ SameTexts
      /\ user'.crossed = user.crossed
  BY CancelledDoes DEF SameTexts
<1>2. PICK pc \in {"threshold", "continue", "done"} : Moved(p, pc)
  BY CancelledDoes
<1>3. prompt[p].pc # "preflight" /\ pc # "preflight"
  BY CancelledDoes, <1>2
<1> QED BY <1>1, <1>2, <1>3, NotPreflight, NoTextMoves

LEMMA TextCompactionEnds ==
  ASSUME TypeOK, TextInv, NEW p \in Prompter, NEW ok \in BOOLEAN, CompactionEnds(p, ok)
  PROVE  TextInv'
<1>1. /\ loop'.pending = loop.pending /\ SameLists /\ SameQueues /\ SameTexts
      /\ user'.crossed = user.crossed
  BY CompactionEndsDoes DEF SameTexts, SameLists
<1>2. PICK pc \in {"continue", "done"} : Moved(p, pc)
  BY CompactionEndsDoes
<1>3. prompt[p].pc # "preflight" /\ pc # "preflight"
  BY CompactionEndsDoes, <1>2
<1> QED BY <1>1, <1>2, <1>3, NotPreflight, NoTextMoves

LEMMA TextContinue ==
  ASSUME TypeOK, RunInv, TextInv, NEW p \in Prompter, Continue(p)
  PROVE  TextInv'
<1>1. SameLists /\ SameTexts /\ user'.crossed = user.crossed
  BY ContinueDoes DEF SameTexts, SameLists
<1>2. PICK pc \in {"running", "done"} : Moved(p, pc)
  BY ContinueDoes
<1>3. prompt[p].pc # "preflight" /\ pc # "preflight"
  BY ContinueDoes, <1>2
<1>4. ~agent.run => loop.pending = <<>>
  BY DEF RunInv
<1>5. CASE SameQueues /\ loop'.pending = loop.pending
  BY <1>1, <1>2, <1>3, <1>5, NotPreflight, NoTextMoves
<1>6. CASE /\ loop.pending = <<>>
           /\ \/ /\ agent'.steering = Left(agent.steering) /\ agent'.followUp = agent.followUp
                 /\ loop'.pending = Drained(agent.steering)
              \/ /\ agent'.steering = agent.steering /\ agent'.followUp = Left(agent.followUp)
                 /\ loop'.pending = Drained(agent.followUp)
  BY <1>1, <1>2, <1>3, <1>6, NotPreflight, DrainMoves
<1> QED BY <1>4, <1>5, <1>6, ContinueDoes DEF SameQueues

LEMMA TextSettle ==
  ASSUME TypeOK, TextInv, NEW p \in Prompter, Settle(p)
  PROVE  TextInv'
<1>1. /\ loop'.pending = loop.pending /\ SameLists /\ SameQueues /\ SameTexts
      /\ user'.crossed = user.crossed
  BY SettleDoes DEF SameTexts
<1>2. Moved(p, "settling") /\ prompt[p].pc # "preflight"
  BY SettleDoes
<1> QED BY <1>1, <1>2, NotPreflight, NoTextMoves

LEMMA TextSettled ==
  ASSUME TypeOK, TextInv, NEW p \in Prompter, Settled(p)
  PROVE  TextInv'
<1>1. /\ loop'.pending = loop.pending /\ SameLists /\ SameQueues /\ SameTexts
      /\ user'.crossed = user.crossed
  BY SettledDoes DEF SameTexts, SameQueues
<1>2. \A q \in Prompter : /\ prompt'[q].pc = "preflight" <=> prompt[q].pc = "preflight"
                          /\ prompt[q].pc = "preflight" => prompt'[q].text = prompt[q].text
  BY SettledDoes
<1> QED BY <1>1, <1>2, NoTextMoves

LEMMA TextStart ==
  ASSUME TypeOK, RunInv, TextInv, Start
  PROVE  TextInv'
<1>1. /\ SameLists /\ SameTexts /\ user'.crossed = user.crossed /\ prompt' = prompt
      /\ loop.pending = <<>>
  BY StartDoes DEF SameTexts, SameLists, RunInv
<1>2. CASE SameQueues /\ loop'.pending = loop.pending
  BY <1>1, <1>2, NobodyMoves, NoTextMoves
<1>3. CASE /\ agent'.steering = Left(agent.steering) /\ agent'.followUp = agent.followUp
           /\ loop'.pending = Drained(agent.steering)
  BY <1>1, <1>3, NobodyMoves, DrainMoves
<1> QED BY <1>1, <1>2, <1>3, StartDoes

LEMMA TextReply ==
  ASSUME TypeOK, TextInv, NEW o \in Replies \cup {"aborted"}, Reply(o)
  PROVE  TextInv'
<1>1. /\ loop'.pending = loop.pending /\ SameLists /\ SameQueues /\ SameTexts
      /\ user'.crossed = user.crossed /\ prompt' = prompt
  BY ReplyDoes
<1> QED BY <1>1, NobodyMoves, NoTextMoves

LEMMA TextToolResult ==
  ASSUME TypeOK, TextInv, ToolResult
  PROVE  TextInv'
<1>1. /\ loop'.pending = loop.pending /\ SameLists /\ SameQueues /\ SameTexts
      /\ user'.crossed = user.crossed /\ prompt' = prompt
  BY ToolResultDoes DEF SameLists, SameTexts
<1> QED BY <1>1, NobodyMoves, NoTextMoves

LEMMA TextTurn ==
  ASSUME TypeOK, RunInv, TextInv, Turn
  PROVE  TextInv'
<1>1. /\ SameLists /\ SameTexts /\ user'.crossed = user.crossed /\ prompt' = prompt
      /\ loop.pending = <<>>
  BY TurnDoes DEF SameTexts, SameLists, RunInv
<1>2. CASE SameQueues /\ loop'.pending = loop.pending
  BY <1>1, <1>2, NobodyMoves, NoTextMoves
<1>3. CASE \/ /\ agent'.steering = Left(agent.steering) /\ agent'.followUp = agent.followUp
              /\ loop'.pending = Drained(agent.steering)
           \/ /\ agent'.steering = agent.steering /\ agent'.followUp = Left(agent.followUp)
              /\ loop'.pending = Drained(agent.followUp)
  BY <1>1, <1>3, NobodyMoves, DrainMoves
<1> QED BY <1>2, <1>3, TurnDoes

LEMMA TextAbort ==
  ASSUME TypeOK, RunInv, TextInv, Abort \/ Compact
  PROVE  TextInv'
<1>1. /\ loop'.pending = loop.pending /\ SameLists /\ SameQueues /\ SameTexts
      /\ user.crossed => user'.crossed
  BY AbortDoes, CompactDoes
<1>2. \/ prompt' = prompt
      \/ session.retrying \in Prompter /\ Moved(session.retrying, "cancelled")
  BY AbortDoes, CompactDoes
<1>3. session.retrying \in Prompter => prompt[session.retrying].pc # "preflight"
  BY DEF RunInv
<1>4. CASE prompt' = prompt
  BY <1>1, <1>4, NobodyMoves, NoTextMoves
<1>5. CASE session.retrying \in Prompter /\ Moved(session.retrying, "cancelled")
  BY <1>1, <1>3, <1>5, NotPreflight, NoTextMoves
<1> QED BY <1>2, <1>4, <1>5

LEMMA TextRecordBash ==
  ASSUME TypeOK, TextInv, RecordBash
  PROVE  TextInv'
<1>1. /\ loop'.pending = loop.pending /\ SameLists /\ SameQueues /\ SameTexts
      /\ user'.crossed = user.crossed /\ prompt' = prompt
  BY RecordBashDoes DEF SameTexts
<1> QED BY <1>1, NobodyMoves, NoTextMoves

LEMMA TextCompactEnds ==
  ASSUME TypeOK, TextInv, NEW ok \in BOOLEAN, CompactEnds(ok)
  PROVE  TextInv'
<1>1. /\ loop'.pending = loop.pending /\ SameLists /\ SameQueues /\ SameTexts
      /\ user'.crossed = user.crossed /\ prompt' = prompt
  BY CompactEndsDoes DEF SameTexts
<1> QED BY <1>1, NobodyMoves, NoTextMoves

\* The text of a prompt is new.
LEMMA TextPrompt ==
  ASSUME TypeOK, TextInv, NEW p \in Prompter, Prompt(p)
  PROVE  TextInv'
<1> DEFINE n == user.said + 1
<1>1. user.said \in Nat
  BY Types, Bounds DEF Users
<1>2. /\ 1 .. n = (1 .. user.said) \cup {n} /\ n \notin 1 .. user.said
  BY <1>1
<1>3. /\ \A q \in Prompter : q # p => prompt'[q] = prompt[q]
      /\ prompt[p].pc = "idle" /\ prompt'[p].pc = "preflight" /\ prompt'[p].text = n
  BY PromptDoes
<1>4. /\ SameLists /\ SameQueues /\ loop' = loop /\ log'.texts = log.texts
      /\ user'.crossed = user.crossed
      /\ user'.said = n /\ user'.told = user.told /\ user'.unheard = user.unheard
  BY PromptDoes DEF SameUser
<1> HIDE DEF n
<1>5. Preparing' = Preparing \cup {n}
  BY <1>3 DEF Preparing
<1>6. n \notin Preparing
  BY <1>2 DEF TextInv, Places
<1>7. OneEach'
  <2>1. \A q \in Prompter : prompt[q].pc = "preflight" => prompt[q].text # n
    BY <1>6 DEF Preparing
  <2> QED BY <1>3, <2>1 DEF TextInv, OneEach
<1>8. Shown' = Shown /\ Waiting' = Waiting /\ Pending' = Pending
  BY <1>4 DEF Shown, Waiting, Pending, SameLists, SameQueues
<1>9. Lists'
  BY <1>4 DEF TextInv, Lists, SameLists, SameQueues
<1>10. Places'
  BY <1>2, <1>4, <1>5, <1>8 DEF TextInv, Places
<1> QED BY <1>7, <1>9, <1>10 DEF TextInv

LEMMA TextPreflightFails ==
  ASSUME TypeOK, TextInv, NEW p \in Prompter, PreflightFails(p)
  PROVE  TextInv'
<1> DEFINE t == prompt[p].text
<1>1. /\ \A q \in Prompter : q # p => prompt'[q] = prompt[q]
      /\ prompt[p].pc = "preflight" /\ prompt'[p].pc = "idle"
  BY PreflightFailsDoes
<1>2. /\ SameLists /\ SameQueues /\ loop' = loop /\ log' = log /\ user'.crossed = user.crossed
      /\ user'.said = user.said /\ user'.told = user.told \cup {t} /\ user'.unheard = user.unheard
  BY PreflightFailsDoes DEF SameUser, SameLists, SameQueues
<1>3. Preparing' = Preparing \ {t} /\ OneEach'
  BY <1>1, PreparingLess DEF TextInv
<1>4. Shown' = Shown /\ Waiting' = Waiting /\ Pending' = Pending
  BY <1>2 DEF Shown, Waiting, Pending, SameLists, SameQueues
<1>5. Lists'
  BY <1>2 DEF TextInv, Lists, SameLists, SameQueues
<1> HIDE DEF t
<1>6. Places'
  BY <1>2, <1>3, <1>4 DEF TextInv, Places
<1> QED BY <1>3, <1>5, <1>6 DEF TextInv

LEMMA TextBegin ==
  ASSUME TypeOK, RunInv, TextInv, NEW p \in Prompter, Begin(p)
  PROVE  TextInv'
<1> DEFINE t == prompt[p].text
<1>1. prompt[p].pc = "preflight" /\ \E pc \in {"done", "running"} : Moved(p, pc)
  BY BeginDoes
<1>2. /\ SameLists /\ SameQueues /\ log' = log /\ (user.crossed => user'.crossed)
      /\ user'.said = user.said /\ user'.unheard = user.unheard
  BY BeginDoes
<1>3. Preparing' = Preparing \ {t} /\ OneEach' /\ t \in Preparing
  BY <1>1, PreparingLess DEF TextInv, Moved
<1>4. Shown' = Shown /\ Waiting' = Waiting
  BY <1>2 DEF Shown, Waiting, SameLists, SameQueues
<1>5. CASE agent.run
  <2>1. loop' = loop /\ user'.told = user.told \cup {t}
    BY <1>5, BeginDoes
  <2>2. Lists' /\ Pending' = Pending
    BY <1>2, <2>1 DEF TextInv, Lists, Pending, SameLists, SameQueues
  <2> HIDE DEF t
  <2>3. Places'
    BY <1>2, <1>3, <1>4, <2>1, <2>2 DEF TextInv, Places
  <2> QED BY <1>3, <2>2, <2>3 DEF TextInv
<1>6. CASE ~agent.run
  <2>1. loop'.pending = <<t>> /\ user'.told = user.told /\ loop.pending = <<>>
    BY <1>6, BeginDoes DEF RunInv
  <2> HIDE DEF t
  <2>2. Pending' = {t} /\ Pending = {} /\ IsInjective(loop'.pending)
    BY <2>1, EmptyAndOne DEF Pending
  <2>3. Lists'
    BY <1>2, <2>2 DEF TextInv, Lists, SameLists, SameQueues
  <2>4. Waiting \subseteq Shown
    <3>1. /\ agent.steering \in Seq(Text) /\ agent.followUp \in Seq(Text)
          /\ session.steering \in Seq(Text) /\ session.followUp \in Seq(Text)
      BY Types DEF Agents, Sessions
    <3> QED BY <3>1, SuffixRange DEF TextInv, Lists, Waiting, Shown
  <2>5. Places'
    BY <1>2, <1>3, <1>4, <2>1, <2>2, <2>4 DEF TextInv, Places
  <2> QED BY <1>3, <2>3, <2>5 DEF TextInv
<1> QED BY <1>5, <1>6

\* A message is sent: it leaves the lists the user sees.
LEMMA TextInject ==
  ASSUME TypeOK, RunInv, Alone, TextInv, Inject
  PROVE  TextInv'
<1> DEFINE t == Head(loop.pending)
<1>1. /\ agent.steering \in Seq(Text) /\ agent.followUp \in Seq(Text)
      /\ session.steering \in Seq(Text) /\ session.followUp \in Seq(Text)
      /\ loop.pending \in Seq(Text)
  BY Types DEF Agents, Sessions, Loops
<1>2. /\ loop.pc # "none" /\ loop.pending # <<>> /\ loop'.pending = Tail(loop.pending)
      /\ SameQueues /\ prompt' = prompt
      /\ user'.crossed = user.crossed /\ user'.said = user.said /\ user'.told = user.told
  BY InjectDoes
<1>3. Lists /\ OneEach /\ Places
  BY DEF TextInv
<1>4. /\ Tail(loop.pending) \in Seq(Text) /\ IsSuffix(Tail(loop.pending), loop.pending)
      /\ Range(loop.pending) = {t} \cup Range(Tail(loop.pending))
      /\ t \notin Range(Tail(loop.pending))
  BY <1>1, <1>2, <1>3, HeadAndTail DEF Lists
<1>5. IsInjective(Tail(loop.pending))
  BY <1>1, <1>3, <1>4, SuffixInjective DEF Lists
<1> HIDE DEF t
<1>6. Pending = Pending' \cup {t} /\ t \notin Pending' /\ Waiting' = Waiting
  BY <1>2, <1>4 DEF Pending, Waiting, SameQueues
<1>7. Preparing' = Preparing /\ OneEach'
  BY <1>2, <1>3 DEF Preparing, OneEach
<1>8. CASE session.connected
  <2>1. /\ session'.steering = RemoveFirst(session.steering, t)
        /\ session'.followUp = IF t \in Range(session.steering)
                               THEN session.followUp ELSE RemoveFirst(session.followUp, t)
        /\ log'.texts = log.texts \cup {t} /\ user'.unheard = user.unheard
    BY <1>8, InjectDoes DEF t
  <2>2. t \notin Range(agent.steering) /\ t \notin Range(agent.followUp)
    BY <1>3, <1>6 DEF Places, Waiting
  <2>3. /\ IsSuffix(agent.steering, session'.steering) /\ IsInjective(session'.steering)
        /\ Range(session'.steering) = Range(session.steering) \ {t}
    BY <1>1, <1>3, <2>1, <2>2, SuffixRemoved, Removed DEF Lists
  <2>4. /\ IsSuffix(agent.followUp, session'.followUp) /\ IsInjective(session'.followUp)
        /\ Range(session'.followUp) = Range(session.followUp) \ {t}
    <3>1. CASE t \in Range(session.steering)
      BY <1>3, <2>1, <3>1 DEF Lists
    <3>2. CASE t \notin Range(session.steering)
      BY <1>1, <1>3, <2>1, <2>2, <3>2, SuffixRemoved, Removed DEF Lists
    <3> QED BY <3>1, <3>2
  <2>5. Lists'
    BY <1>2, <1>3, <1>5, <2>3, <2>4 DEF Lists, SameQueues
  <2>6. Shown' = Shown \ {t}
    BY <2>3, <2>4 DEF Shown
  <2>7. Places'
    BY <1>2, <1>3, <1>6, <1>7, <2>1, <2>6 DEF Places
  <2> QED BY <1>7, <2>5, <2>7 DEF TextInv
<1>9. CASE ~session.connected
  <2>1. user'.unheard = user.unheard \cup {t} /\ UNCHANGED <<session, log>>
    BY <1>9, InjectDoes DEF t
  <2>2. user.crossed
    BY <1>2, <1>9 DEF RunInv, Alone, Busy
  <2>3. Lists' /\ Shown' = Shown
    BY <1>2, <1>3, <1>5, <2>1 DEF Lists, Shown, SameQueues
  <2>4. Places'
    BY <1>2, <1>3, <1>6, <1>7, <2>1, <2>2, <2>3 DEF Places
  <2> QED BY <1>7, <2>3, <2>4 DEF TextInv
<1> QED BY <1>8, <1>9

LEMMA TextQueue ==
  ASSUME TypeOK, TextInv, Steer \/ FollowUp
  PROVE  TextInv'
<1> DEFINE n == user.said + 1
<1>1. user.said \in 0 .. MaxTexts /\ user.said < MaxTexts /\ MaxTexts \in Nat
  BY Types, Bounds, QueueDoes DEF Users
<1>2. /\ 1 .. n = (1 .. user.said) \cup {n} /\ n \notin 1 .. user.said /\ n \in Text
  BY <1>1 DEF Text
<1>3. /\ agent.steering \in Seq(Text) /\ agent.followUp \in Seq(Text)
      /\ session.steering \in Seq(Text) /\ session.followUp \in Seq(Text)
  BY Types DEF Agents, Sessions
<1>4. /\ UNCHANGED <<loop, prompt, log>> /\ user'.crossed = user.crossed
      /\ user'.said = n /\ user'.told = user.told /\ user'.unheard = user.unheard
  BY QueueDoes DEF SameUser
<1>5. \/ /\ session'.steering = Append(session.steering, n)
         /\ agent'.steering = Append(agent.steering, n)
         /\ session'.followUp = session.followUp /\ agent'.followUp = agent.followUp
      \/ /\ session'.followUp = Append(session.followUp, n)
         /\ agent'.followUp = Append(agent.followUp, n)
         /\ session'.steering = session.steering /\ agent'.steering = agent.steering
  BY QueueDoes
<1> HIDE DEF n
<1>6. Lists /\ OneEach /\ Places /\ n \notin Shown
  BY <1>2 DEF TextInv, Places
<1>7. Preparing' = Preparing /\ OneEach' /\ Pending' = Pending
  BY <1>4, <1>6 DEF Preparing, OneEach, Pending
<1>8. Lists' /\ Shown' = Shown \cup {n} /\ Waiting' = Waiting \cup {n}
  <2>1. CASE /\ session'.steering = Append(session.steering, n)
             /\ agent'.steering = Append(agent.steering, n)
             /\ session'.followUp = session.followUp /\ agent'.followUp = agent.followUp
    <3>1. /\ IsSuffix(agent'.steering, session'.steering) /\ IsInjective(session'.steering)
          /\ Range(session'.steering) = Range(session.steering) \cup {n}
          /\ Range(agent'.steering) = Range(agent.steering) \cup {n}
      BY <1>2, <1>3, <1>6, <2>1, SuffixAppend, AppendedTo DEF Lists, Shown
    <3> QED BY <1>4, <1>6, <2>1, <3>1 DEF Lists, Shown, Waiting
  <2>2. CASE /\ session'.followUp = Append(session.followUp, n)
             /\ agent'.followUp = Append(agent.followUp, n)
             /\ session'.steering = session.steering /\ agent'.steering = agent.steering
    <3>1. /\ IsSuffix(agent'.followUp, session'.followUp) /\ IsInjective(session'.followUp)
          /\ Range(session'.followUp) = Range(session.followUp) \cup {n}
          /\ Range(agent'.followUp) = Range(agent.followUp) \cup {n}
      BY <1>2, <1>3, <1>6, <2>2, SuffixAppend, AppendedTo DEF Lists, Shown
    <3> QED BY <1>4, <1>6, <2>2, <3>1 DEF Lists, Shown, Waiting
  <2> QED BY <1>5, <2>1, <2>2
<1>9. Places'
  BY <1>2, <1>4, <1>6, <1>7, <1>8 DEF Places
<1> QED BY <1>7, <1>8, <1>9 DEF TextInv

\* What is shown goes back to the user, so nothing that waits is lost.
LEMMA TextClearQueue ==
  ASSUME TypeOK, TextInv, ClearQueue
  PROVE  TextInv'
<1>1. /\ user'.told = user.told \cup Shown
      /\ session'.steering = <<>> /\ session'.followUp = <<>>
      /\ agent'.steering = <<>> /\ agent'.followUp = <<>>
      /\ UNCHANGED <<loop, prompt, log>> /\ user'.crossed = user.crossed
      /\ user'.said = user.said /\ user'.unheard = user.unheard
  BY ClearQueueDoes DEF SameUser, Shown
<1>2. Lists /\ OneEach /\ Places
  BY DEF TextInv
<1>3. Preparing' = Preparing /\ OneEach' /\ Pending' = Pending
  BY <1>1, <1>2 DEF Preparing, OneEach, Pending
<1>4. Waiting \subseteq Shown
  <2>1. /\ agent.steering \in Seq(Text) /\ agent.followUp \in Seq(Text)
        /\ session.steering \in Seq(Text) /\ session.followUp \in Seq(Text)
    BY Types DEF Agents, Sessions
  <2> QED BY <1>2, <2>1, SuffixRange DEF Lists, Waiting, Shown
<1>5. Shown' = {} /\ Waiting' = {}
  BY <1>1, EmptyAndOne DEF Shown, Waiting
<1>6. Lists'
  <2>1. <<>> \in Seq(Text)
    OBVIOUS
  <2> QED BY <1>1, <1>2, <2>1, EmptyAndOne, SuffixSelf DEF Lists
<1>7. Places'
  BY <1>1, <1>2, <1>3, <1>4, <1>5 DEF Places
<1> QED BY <1>3, <1>6, <1>7 DEF TextInv

\* Every text is in its place.
LEMMA TextStep ==
  ASSUME TypeOK, RunInv, Alone, TextInv, Next
  PROVE  TextInv'
<1>1. ASSUME NEW p \in Prompter, Cancelled(p) PROVE TextInv'
  BY <1>1, TextCancelled
<1>2. ASSUME NEW p \in Prompter, Continue(p) PROVE TextInv'
  BY <1>2, TextContinue
<1>3. ASSUME NEW p \in Prompter, Settle(p) PROVE TextInv'
  BY <1>3, TextSettle
<1>4. ASSUME NEW p \in Prompter, TaskIsOver, Prompt(p) PROVE TextInv'
  BY <1>4, TextPrompt
<1>5. ASSUME NEW p \in Prompter, TaskIsOver, PreflightFails(p) PROVE TextInv'
  BY <1>5, TextPreflightFails
<1>6. ASSUME NEW p \in Prompter, TaskIsOver, Begin(p) PROVE TextInv'
  BY <1>6, TextBegin
<1>7. ASSUME NEW p \in Prompter, TaskIsOver, RunEnds(p) PROVE TextInv'
  BY <1>7, TextRunEnds
<1>8. ASSUME NEW p \in Prompter, TaskIsOver, RetryElapsed(p) PROVE TextInv'
  BY <1>8, TextRetryElapsed
<1>9. ASSUME NEW p \in Prompter, NEW ok \in BOOLEAN, TaskIsOver, CompactionEnds(p, ok)
      PROVE  TextInv'
  BY <1>9, TextCompactionEnds
<1>10. ASSUME NEW p \in Prompter, TaskIsOver, Settled(p) PROVE TextInv'
  BY <1>10, TextSettled
<1>11. ASSUME TaskIsOver, Inject PROVE TextInv'
  BY <1>11, TextInject
<1>12. ASSUME TaskIsOver, Start PROVE TextInv'
  BY <1>12, TextStart
<1>13. ASSUME NEW o \in Replies \cup {"aborted"}, TaskIsOver, Reply(o) PROVE TextInv'
  BY <1>13, TextReply
<1>14. ASSUME TaskIsOver, ToolResult PROVE TextInv'
  BY <1>14, TextToolResult
<1>15. ASSUME TaskIsOver, Turn PROVE TextInv'
  BY <1>15, TextTurn
<1>16. ASSUME TaskIsOver, Steer \/ FollowUp PROVE TextInv'
  BY <1>16, TextQueue
<1>17. ASSUME TaskIsOver, ClearQueue PROVE TextInv'
  BY <1>17, TextClearQueue
<1>18. ASSUME TaskIsOver, Abort PROVE TextInv'
  BY <1>18, TextAbort
<1>19. ASSUME TaskIsOver, RecordBash PROVE TextInv'
  BY <1>19, TextRecordBash
<1>20. ASSUME TaskIsOver, Compact PROVE TextInv'
  BY <1>20, TextAbort
<1>21. ASSUME NEW ok \in BOOLEAN, TaskIsOver, CompactEnds(ok) PROVE TextInv'
  BY <1>21, TextCompactEnds
<1> QED BY <1>1, <1>2, <1>3, <1>4, <1>5, <1>6, <1>7, <1>8, <1>9, <1>10, <1>11, <1>12, <1>13,
          <1>14, <1>15, <1>16, <1>17, <1>18, <1>19, <1>20, <1>21, Steps

------------------------------------------------------------------------------
(* The invariant.                                                          *)

\* Every step keeps the types.
LEMMA TypeStep ==
  ASSUME TypeOK, RunInv, TextInv, Next
  PROVE  TypeOK'
<1>1. ASSUME NEW p \in Prompter, Prompt(p) PROVE TypeOK'
  BY <1>1, TypePrompt
<1>2. ASSUME NEW p \in Prompter, PreflightFails(p) PROVE TypeOK'
  BY <1>2, TypePreflightFails
<1>3. ASSUME NEW p \in Prompter, Begin(p) PROVE TypeOK'
  BY <1>3, TypeBegin
<1>4. ASSUME NEW p \in Prompter, RunEnds(p) PROVE TypeOK'
  BY <1>4, TypeRunEnds
<1>5. ASSUME NEW p \in Prompter, RetryElapsed(p) PROVE TypeOK'
  BY <1>5, TypeRetryElapsed
<1>6. ASSUME NEW p \in Prompter, Cancelled(p) PROVE TypeOK'
  BY <1>6, TypeCancelled
<1>7. ASSUME NEW p \in Prompter, NEW ok \in BOOLEAN, CompactionEnds(p, ok) PROVE TypeOK'
  BY <1>7, TypeCompactionEnds
<1>8. ASSUME NEW p \in Prompter, Continue(p) PROVE TypeOK'
  BY <1>8, TypeContinue
<1>9. ASSUME NEW p \in Prompter, Settle(p) PROVE TypeOK'
  BY <1>9, TypeSettle
<1>10. ASSUME NEW p \in Prompter, Settled(p) PROVE TypeOK'
  BY <1>10, TypeSettled
<1>11. ASSUME Inject PROVE TypeOK'
  BY <1>11, TypeInject
<1>12. ASSUME Start PROVE TypeOK'
  BY <1>12, TypeStart
<1>13. ASSUME NEW o \in Replies \cup {"aborted"}, Reply(o) PROVE TypeOK'
  BY <1>13, TypeReply
<1>14. ASSUME ToolResult PROVE TypeOK'
  BY <1>14, TypeToolResult
<1>15. ASSUME Turn PROVE TypeOK'
  BY <1>15, TypeTurn
<1>16. ASSUME Steer \/ FollowUp \/ ClearQueue \/ Abort \/ RecordBash \/ Compact
       PROVE  TypeOK'
  BY <1>16, TypeUser DEF UserStep
<1>17. ASSUME NEW ok \in BOOLEAN, CompactEnds(ok) PROVE TypeOK'
  BY <1>17, TypeUser
<1> QED BY <1>1, <1>2, <1>3, <1>4, <1>5, <1>6, <1>7, <1>8, <1>9, <1>10, <1>11, <1>12, <1>13,
           <1>14, <1>15, <1>16, <1>17, Steps

LEMMA InitHolds == Init => IInv
<1> SUFFICES ASSUME Init PROVE IInv
  OBVIOUS
<1>1. /\ session = [active |-> FALSE, connected |-> TRUE, attempt |-> 0, retrying |-> None,
                    recovered |-> FALSE, last |-> "none", waiting |-> {}, steering |-> <<>>,
                    followUp |-> <<>>, bash |-> 0]
      /\ agent.run = FALSE /\ agent.steering = <<>> /\ agent.followUp = <<>>
      /\ loop.pc = "none" /\ loop.pending = <<>>
      /\ \A p \in Prompter : prompt[p].pc = "idle"
      /\ log.texts = {} /\ manual = "none"
      /\ user.said = 0 /\ user.told = {} /\ user.unheard = {} /\ user.failures = 0
  BY DEF Init, NoLoop, NoPrompt
<1>2. TypeOK
  <2>1. <<>> \in Seq(Text)
    OBVIOUS
  <2>2. session \in Sessions
    BY <1>1, <2>1, Bounds DEF Sessions
  <2>3. agent \in Agents
    <3>1. agent \in [run : {FALSE}, aborted : {FALSE}, mode : {"all", "one-at-a-time"},
                     steering : {<<>>}, followUp : {<<>>}, trail : {0}]
      BY DEF Init
    <3>2. {FALSE} \subseteq BOOLEAN /\ {<<>>} \subseteq Seq(Text) /\ {0} \subseteq Nat
      BY <2>1
    <3> QED BY <3>1, <3>2, Zenon DEF Agents
  <2>4. loop \in Loops
    BY NoLoopType DEF Init
  <2>5. prompt \in [Prompter -> Prompts]
    BY NoPromptType DEF Init
  <2>6. /\ log \in Logs /\ manual \in {"none", "waits", "compacting"}
        /\ user \in Users /\ spent \in 0 .. MaxReplies
    BY Bounds DEF Init, Logs, Users
  <2> QED BY <2>2, <2>3, <2>4, <2>5, <2>6, Types
<1>3. RunInv
  BY <1>1, NoneAssumption DEF RunInv
<1>4. Alone /\ Served /\ Single
  BY <1>1 DEF Alone, Served, Single, Busy
<1>5. Patience
  BY <1>1 DEF Patience, Errors
<1>6. TextInv
  <2>1. <<>> \in Seq(Text)
    OBVIOUS
  <2>2. Lists
    BY <1>1, <2>1, EmptyAndOne, SuffixSelf DEF Lists
  <2>3. Shown = {} /\ Waiting = {} /\ Pending = {} /\ Preparing = {}
    BY <1>1, EmptyAndOne DEF Shown, Waiting, Pending, Preparing
  <2>4. 1 .. user.said = {}
    BY <1>1
  <2> QED BY <1>1, <2>2, <2>3, <2>4 DEF TextInv, OneEach, Places
<1> QED BY <1>2, <1>3, <1>4, <1>5, <1>6 DEF IInv

LEMMA StepKeeps == IInv /\ [Next]_vars => IInv'
<1>1. ASSUME IInv, Next PROVE IInv'
  BY <1>1, TypeStep, RunStep, AloneStep, ServedStep, SingleStep, PatienceStep, TextStep DEF IInv
<1>2. ASSUME IInv, UNCHANGED vars PROVE IInv'
  <2>1. UNCHANGED <<session, agent, loop, prompt, log, manual, user, spent>>
    BY <1>2 DEF vars
  <2>2. TypeOK'
    BY <1>2, <2>1 DEF IInv, TypeOK
  <2>3. RunInv' /\ Alone'
    BY <1>2, <2>1 DEF IInv, RunInv, Alone, Busy
  <2>4. Served' /\ Single'
    BY <1>2, <2>1 DEF IInv, Served, Single, Busy, HasQueued
  <2>5. Patience'
    BY <1>2, <2>1 DEF IInv, Patience, Credit
  <2>6. TextInv'
    BY <1>2, <2>1, NobodyMoves, NoTextMoves DEF IInv, SameLists, SameQueues, SameTexts
  <2> QED BY <2>2, <2>3, <2>4, <2>5, <2>6 DEF IInv
<1> QED BY <1>1, <1>2

\* The inductive invariant: in every reachable state, whatever overlaps, the run, the calls of
\* prompt(), the count of retries and the user's texts fit together.
THEOREM Invariant == Spec => []IInv
<1>1. Init => IInv
  BY InitHolds
<1>2. IInv /\ [Next]_vars => IInv'
  BY StepKeeps
<1> QED BY <1>1, <1>2, PTL DEF Spec

------------------------------------------------------------------------------
(* What it implies.                                                        *)

\* The variables of AgentSession, Agent and the loop keep their types.
THEOREM TypesKept == Spec => []TypeOK
<1>1. IInv => TypeOK
  BY DEF IInv
<1> QED BY <1>1, Invariant, PTL

\* isIdle: a session that calls itself idle has no run, retry, compaction or continuation under
\* way, holds no bash results back and starts its next prompt with every retry.
THEOREM IdleHolds == Spec => []IdleIsIdle
<1>1. IInv => IdleIsIdle
  BY DEF IInv, RunInv, Alone, Busy, IdleIsIdle
<1> QED BY <1>1, Invariant, PTL

\* A run that ends, fails, is retried or aborted, and prompts that overlap, lose none of what the
\* user said: each text is being prepared, queued, on its way, written or handed back.
THEOREM NothingIsLost == Spec => []NothingSaidIsLost
<1>1. ASSUME IInv PROVE NothingSaidIsLost
  <2>1. agent.steering \in Seq(Text) /\ agent.followUp \in Seq(Text)
    BY <1>1, Types DEF IInv, Agents
  <2>2. Range(agent.steering \o agent.followUp) = Waiting
    BY <2>1, RangeConcatenation DEF Waiting
  <2> QED BY <1>1, <2>2 DEF IInv, TextInv, Places, Preparing, Pending, NothingSaidIsLost
<1> QED BY <1>1, Invariant, PTL

\* _handlePostAgentRun: a call of prompt() that settles leaves nothing queued.
THEOREM QueueIsServed == Spec => []EverythingQueuedIsServed
<1>1. IInv => EverythingQueuedIsServed
  BY DEF IInv, Served, EverythingQueuedIsServed
<1> QED BY <1>1, Invariant, PTL

\* The lists the user sees end with the queues of the agent, in their order, and hold nothing
\* that was sent.
THEOREM ListsAreTrue == Spec => []QueuesAreShown
<1>1. ASSUME IInv PROVE QueuesAreShown
  <2>1. /\ agent.steering \in Seq(Text) /\ agent.followUp \in Seq(Text)
        /\ session.steering \in Seq(Text) /\ session.followUp \in Seq(Text)
    BY <1>1, Types DEF IInv, Agents, Sessions
  <2>2. /\ Range(agent.steering \o agent.followUp) = Waiting
        /\ Range(session.steering \o session.followUp) = Shown
    BY <2>1, RangeConcatenation DEF Waiting, Shown
  <2> QED BY <1>1, <2>2 DEF IInv, TextInv, Lists, Places, Pending, QueuesAreShown
<1> QED BY <1>1, Invariant, PTL

\* Retries and recoveries come to an end: without overlapping prompts no more errors in a row than
\* MaxRetries, an overflow, and MaxRetries again are answered with another attempt.
THEOREM SessionGivesUp ==
  ASSUME "overlap" \notin Faults
  PROVE  Spec => []GivesUp
<1>1. ASSUME IInv PROVE GivesUp
  <2> SUFFICES ASSUME NEW p \in Prompter, prompt[p].pc \in {"sleep", "overflow"}
               PROVE  user.failures <= 2 * MaxRetries + 1
    BY DEF GivesUp
  <2>1. user.failures <= Credit
    BY <1>1 DEF IInv, Patience
  <2> QED BY <1>1, <2>1, Numbers DEF IInv, Credit
<1> QED BY <1>1, Invariant, PTL
==============================================================================
