--------------------------- MODULE MCMjpegStream ---------------------------
(* MjpegStream on small instances.                                         *)
EXTENDS MjpegStream
=============================================================================
