----------------------------- MODULE MCHeldKeys -----------------------------
(* HeldKeys on a small instance.                                           *)
EXTENDS HeldKeys
=============================================================================
