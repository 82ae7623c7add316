------------------------------ MODULE MCCircBuf ------------------------------
(***************************************************************************)
(* CircBuf with four bytes of storage and two byte values.  Chunks of up   *)
(* to three bytes wrap around at every offset, are refused when they would *)
(* fill the buffer, and meet every occupancy.                              *)
(***************************************************************************)
EXTENDS CircBuf
=============================================================================
