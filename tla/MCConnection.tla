---------------------------- MODULE MCConnection ----------------------------
(***************************************************************************)
(* Connection, for TLC: three segments, so that one can be swallowed by    *)
(* touAccept and one be early while another is acknowledged.               *)
(***************************************************************************)
EXTENDS Connection

MCISS == 7
=============================================================================
