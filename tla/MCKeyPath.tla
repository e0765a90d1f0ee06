----------------------------- MODULE MCKeyPath -----------------------------
(* KeyPath on small instances.                                             *)
EXTENDS KeyPath
=============================================================================
