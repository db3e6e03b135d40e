----------------------------- MODULE CrewBoard ------------------------------
(***************************************************************************)
(* What Crew promises the owner of a board, without workers, locks or      *)
(* requests: five columns, and the moves each party may make.  The agents  *)
(* move a card to working, bring output, and hand it in; only its owner    *)
(* ships it, and what ships is the latest output.                          *)
(***************************************************************************)
EXTENDS Integers

CONSTANT Cards

VARIABLES
  column,   \* the column of each card, "none" before and "gone" after its life
  output,   \* how many outputs the card has received
  shipped   \* which of them its owner approved last, 0 for none

vars == <<column, output, shipped>>

Init ==
  /\ column = [c \in Cards |-> "none"]
  /\ output = [c \in Cards |-> 0]
  /\ shipped = [c \in Cards |-> 0]

Move(c, from, to) ==
  column[c] \in from /\ column' = [column EXCEPT ![c] = to]

\* The owner's moves.
Create(c)  == Move(c, {"none"}, "draft") /\ UNCHANGED <<output, shipped>>
Queue(c)   == Move(c, {"draft"}, "queued") /\ UNCHANGED <<output, shipped>>
Unqueue(c) == Move(c, {"queued"}, "draft") /\ UNCHANGED <<output, shipped>>
Reject(c)  == Move(c, {"review"}, "queued") /\ UNCHANGED <<output, shipped>>
Approve(c) ==
  /\ Move(c, {"review"}, "done")
  /\ output[c] > 0
  /\ shipped' = [shipped EXCEPT ![c] = output[c]]
  /\ UNCHANGED output
Delete(c) ==
  /\ Move(c, {"draft", "done"}, "gone")
  /\ output' = [output EXCEPT ![c] = 0]
  /\ shipped' = [shipped EXCEPT ![c] = 0]

\* The agents' moves.
Claim(c)   == Move(c, {"queued"}, "working") /\ UNCHANGED <<output, shipped>>
Produce(c) ==
  /\ column[c] = "working"
  /\ output' = [output EXCEPT ![c] = @ + 1]
  /\ UNCHANGED <<column, shipped>>
Submit(c) == Move(c, {"working"}, "review") /\ output[c] > 0 /\ UNCHANGED <<output, shipped>>
Fail(c)   == Move(c, {"working"}, "draft") /\ UNCHANGED <<output, shipped>>

\* The calendar's move: a recurring card comes round again.
Recur(c) == Move(c, {"done"}, "queued") /\ UNCHANGED <<output, shipped>>

Next ==
  \E c \in Cards :
    \/ Create(c) \/ Queue(c) \/ Unqueue(c) \/ Reject(c) \/ Approve(c) \/ Delete(c)
    \/ Claim(c) \/ Produce(c) \/ Submit(c) \/ Fail(c) \/ Recur(c)

Spec == Init /\ [][Next]_vars
=============================================================================
