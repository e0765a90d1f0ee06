---------------------------- MODULE MCWebSession ----------------------------
(* An instance of WebSession for TLC: two Channels, four acts of the       *)
(* operator and one failure.                                               *)
EXTENDS WebSession

CONSTANTS chA, chB
MCChannels == {chA, chB}
=============================================================================
