------------------------------ MODULE MCEngine ------------------------------
(***************************************************************************)
(* Instances of WorkflowEngine for TLC: workflows of up to four blocks.    *)
(***************************************************************************)
EXTENDS WorkflowEngine, TLC

CONSTANTS s, x, y, z

ASSUME FourBlocks == Cardinality({s, x, y, z}) = 4

From(b, port, d) == [source |-> b, port |-> port, target |-> d, input |-> "in"]

Plain == [b \in {s, x, y, z} |-> "plain"]
Flow(kind, conns, flaky, input) ==
  [kind |-> kind, conns |-> conns, items |-> <<>>, flaky |-> flaky, input |-> input,
   lossy |-> FALSE]

\* s to x and y, which meet in z.
Diamond == Flow(Plain, {From(s, "", x), From(s, "", y), From(x, "", z), From(y, "", z)},
                {y}, TRUE)
\* s to x or y, then z behind x.
Fork == Flow([Plain EXCEPT ![s] = "branch"],
             {From(s, "true", x), From(s, "false", y), From(x, "", z)}, {x}, TRUE)
\* s, x and y in a row, without an input, on a store that fails.
Row == [Flow([Plain EXCEPT ![z] = "absent"], {From(s, "", x), From(x, "", y)}, {}, FALSE)
          EXCEPT !.lossy = TRUE]

Loop(conns, flaky) ==
  [kind |-> [Plain EXCEPT ![s] = "for_each"], conns |-> conns, items |-> <<1, 2>>,
   flaky |-> flaky, input |-> TRUE, lossy |-> FALSE]

\* s over x and then y, and z when it is done.
LongBody == Loop({From(s, "loop_body", x), From(x, "", y), From(s, "done", z)}, {})
\* s over x and over y.
TwoBodies == Loop({From(s, "loop_body", x), From(s, "", y), From(s, "done", z)}, {})
\* s over x, which also needs z, and then y.
SideInput == Loop({From(s, "loop_body", x), From(z, "", x), From(s, "done", y)}, {})
\* The long body for the same item twice.
Twice == [LongBody EXCEPT !.items = <<1, 1>>]

\* s over x, and y when it is done, which also needs z.
SideDone == Loop({From(s, "loop_body", x), From(s, "done", y), From(z, "", y)}, {})
DoneWorkflows  == {SideDone}
AllWorkflows   == {Diamond, Fork, Row, LongBody, TwoBodies, SideInput, Twice}
=============================================================================
