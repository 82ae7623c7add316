------------------------------ MODULE MCSender ------------------------------
(***************************************************************************)
(* Sender, for TLC.  The runs' cfg files give one application thread, a    *)
(* segment of two bytes, a stream of eight, and a network that holds one   *)
(* segment.                                                                *)
(***************************************************************************)
EXTENDS Sender
=============================================================================
