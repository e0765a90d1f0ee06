----------------------------- MODULE MCPicoLink -----------------------------
(* An instance of PicoLink for TLC: a letter and a modifier typed at       *)
(* length, every other key of the tables once, and a queue of two.         *)
EXTENDS PicoLink

MCBusy == {"KeyA", "MetaRight"}
MCStrangers == {"Unidentified"}
MCStartMasks == {127}
=============================================================================
