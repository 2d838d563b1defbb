----------------------------- MODULE MCRingBuffer -----------------------------
(* A ring of four cells over two bytes: every pair of positions, with the *)
(* data wrapped and not, is reached.                                       *)
EXTENDS RingBuffer

CONSTANTS a, b

TwoBytes == {a, b}

=============================================================================
