------------------------------- MODULE MCServer -------------------------------
(* Instances of SessionServer for TLC: a few connections, sessions and requests
   in flight.  Conn, Req and Runtime are interchangeable. *)
EXTENDS SessionServer, TLC

Symmetry == Permutations(Conn) \cup Permutations(Req) \cup Permutations(Runtime)
==============================================================================
