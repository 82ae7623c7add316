----------------------------- MODULE MCTransfer -----------------------------
(***************************************************************************)
(* Transfer, for TLC.  Segments of one byte; a peer whose buffer takes two *)
(* (one, in the liveness run), so that a recovery may find it full; room   *)
(* for two segments in the network, so that one may overtake another.      *)
(*                                                                         *)
(* In MCTransfer.cfg touSend may overlap with another thread's run():      *)
(* every behaviour without an overlap is one of its behaviours too.  In    *)
(* MCTransferLive.cfg it never does.                                       *)
(***************************************************************************)
EXTENDS Transfer
=============================================================================
