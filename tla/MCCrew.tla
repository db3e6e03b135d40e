------------------------------- MODULE MCCrew -------------------------------
(***************************************************************************)
(* Instances of CrewPipeline for TLC: at most two members, two cards and  *)
(* two requests in flight.  Each .cfg says what its users may do.          *)
(***************************************************************************)
EXTENDS CrewPipeline, TLC

CONSTANTS a, b, c1, c2, h1, h2, p1, p2, g1, g2

ASSUME Distinct == Cardinality({a, b, c1, c2, h1, h2, p1, p2, g1, g2}) = 10

SoloTeams  == {{a}, {b}}
PairTeams  == {{a}, {a, b}}
NoDepsOne  == [c \in {c1} |-> {}]
ChainDeps  == (c1 :> {} @@ c2 :> {c1})

\* Goroutines of one kind are interchangeable.
Symmetry == Permutations({p1, p2}) \cup Permutations({g1, g2})
=============================================================================
