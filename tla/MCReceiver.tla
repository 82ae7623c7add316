----------------------------- MODULE MCReceiver -----------------------------
(***************************************************************************)
(* Receiver, for TLC: a stream of nine bytes in six segments of one and    *)
(* two bytes.  The buffer takes at most four bytes, and run() asks for     *)
(* room for three before it takes another packet.                          *)
(***************************************************************************)
EXTENDS Receiver

MCSegment(start, len) == [seq |-> start, from |-> start, len |-> len]

MCSegs == {MCSegment(1, 2), MCSegment(3, 2), MCSegment(5, 1),
           MCSegment(6, 2), MCSegment(8, 1), MCSegment(9, 1)}
=============================================================================
