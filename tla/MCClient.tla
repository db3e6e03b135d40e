------------------------------- MODULE MCClient -------------------------------
(* Instances of SessionClient for TLC: two or three leases of a session, a few
   requests, messages and breaks. *)
EXTENDS SessionClient, TLC

Symmetry == Permutations(Lease)
==============================================================================
