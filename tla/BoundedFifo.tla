----------------------------- MODULE BoundedFifo -----------------------------
(* What hev-ring-buffer.h promises: a queue of at most N bytes between a   *)
(* producer and a consumer, each working in two phases.  The producer      *)
(* offers bytes and then commits them; the consumer takes bytes from the   *)
(* front and then drops them.                                              *)
EXTENDS Integers, Sequences

CONSTANTS N, Bytes

VARIABLES
  queue,    \* the bytes committed and not yet dropped
  offered,  \* bytes the producer stored but has not committed
  taken     \* bytes the consumer copied but has not dropped

fifoVars == <<queue, offered, taken>>

FifoInit == queue = <<>> /\ offered = <<>> /\ taken = <<>>

Offer ==
  /\ offered = <<>>
  /\ offered' \in Seq(Bytes) /\ Len(queue) + Len(offered') <= N
  /\ UNCHANGED <<queue, taken>>

Put ==
  /\ queue' = queue \o offered /\ offered' = <<>>
  /\ UNCHANGED taken

Take ==
  /\ taken = <<>>
  /\ \E n \in 1..Len(queue) : taken' = SubSeq(queue, 1, n)
  /\ UNCHANGED <<queue, offered>>

Drop ==
  /\ queue' = SubSeq(queue, Len(taken) + 1, Len(queue)) /\ taken' = <<>>
  /\ UNCHANGED offered

Clear ==
  /\ offered = <<>> /\ taken = <<>> /\ queue' = <<>>
  /\ UNCHANGED <<offered, taken>>

FifoNext == Offer \/ Put \/ Take \/ Drop \/ Clear

FifoSpec == FifoInit /\ [][FifoNext]_fifoVars

=============================================================================
