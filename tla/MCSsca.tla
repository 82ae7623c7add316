------------------------------- MODULE MCSsca -------------------------------
(***************************************************************************)
(* Ssca on small numbers: a segment of 4 bytes, so that the linear growth  *)
(* SMSS * SMSS / cwnd takes several values before it rounds to zero, and   *)
(* the smallest MaxWnd the assumption allows, so that every clamp bites.   *)
(***************************************************************************)
EXTENDS Ssca
=============================================================================
