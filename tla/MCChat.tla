------------------------------- MODULE MCChat -------------------------------
(***************************************************************************)
(* Instances of Chat for TLC.  Requests and instances are interchangeable. *)
(***************************************************************************)
EXTENDS Chat, TLC

Interchangeable == Permutations(Requests) \cup Permutations(Instances)

=============================================================================
