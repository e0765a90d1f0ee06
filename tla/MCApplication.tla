--------------------------- MODULE MCApplication ---------------------------
(* Application on small instances.                                         *)
EXTENDS Application, TLC

\* Clients, Channels and Handles are interchangeable; for safety runs only.
Symmetry ==
    Permutations(Clients) \cup Permutations(Channels) \cup Permutations(Handles)
=============================================================================
