------------------------- MODULE MCStreambufBuffers -------------------------
(* Constants for StreambufBuffers: a peer sending four distinct bytes, a  *)
(* get buffer of two bytes and a put buffer of one, so that receives      *)
(* straddle the caller's buffer and the get buffer and writes overflow.   *)
EXTENDS StreambufBuffers

MCStream == <<1, 2, 3, 4>>
=============================================================================
