------------------------- MODULE MCVideoSupervisor -------------------------
(* VideoSupervisor on small instances.                                     *)
EXTENDS VideoSupervisor, TLC

Symmetry == Permutations(Clients) \cup Permutations(Handles)
=============================================================================
