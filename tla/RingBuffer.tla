------------------------------ MODULE RingBuffer ------------------------------
(* hev-ring-buffer.c: a circular buffer used in two phases.  The producer  *)
(* asks for the free space (hev_ring_buffer_writing), fills a part of it,  *)
(* and commits what it filled (hev_ring_buffer_write_finish); the consumer *)
(* does the same with reading and read_finish.  The interface lets the     *)
(* calls of the two come in any order, so either may act on an answer the  *)
(* other has since made old.                                               *)
EXTENDS Integers, Sequences

CONSTANTS
  N,       \* len, the size of the buffer
  Bytes    \* what a cell of the buffer holds

ASSUME SizeAssumption == N \in Nat \ {0}

VARIABLES
  buffer, wp, rp, full,   \* struct _HevRingBuffer
  wiov, riov,             \* the iovecs the producer and the consumer hold
  offered, taken          \* what they copied in and out and did not finish

ring == <<buffer, wp, rp, full>>
vars == <<buffer, wp, rp, full, wiov, riov, offered, taken>>

(* An answer of reading or writing: len cells from base on, and in a       *)
(* second iovec the first rest cells of the buffer.                        *)
Iov(b, l, r) == [base |-> b, len |-> l, rest |-> r]
NoIov == Iov(0, 0, 0)

Total(v) == v.len + v.rest
Addr(v, i) == IF i <= v.len THEN v.base + i - 1 ELSE i - v.len - 1

Inside(p) == 0 < p /\ p < N

(* hev_ring_buffer_reading.                                                *)
ReadIov ==
  CASE rp = 0 /\ wp = 0 /\ full -> Iov(0, N, 0)
    [] rp = 0 /\ wp > 0 -> Iov(0, wp, 0)
    [] Inside(rp) /\ wp = 0 -> Iov(rp, N - rp, 0)
    [] Inside(rp) /\ ((0 < wp /\ wp < rp) \/ (wp = rp /\ full)) -> Iov(rp, N - rp, wp)
    [] Inside(rp) /\ wp > rp -> Iov(rp, wp - rp, 0)
    [] rp = N /\ (Inside(wp) \/ (wp = rp /\ full)) -> Iov(0, wp, 0)
    [] OTHER -> NoIov

(* hev_ring_buffer_writing.                                                *)
WriteIovFull ==
  CASE rp = 0 /\ wp = 0 /\ ~full -> Iov(0, N, 0)
    [] rp = 0 /\ Inside(wp) -> Iov(wp, N - wp, 0)
    [] Inside(rp) /\ wp < rp -> Iov(wp, rp - wp, 0)
    [] Inside(rp) /\ (wp = rp \/ (rp < wp /\ wp < N)) -> Iov(wp, N - wp, rp)
    [] Inside(rp) /\ wp = N -> Iov(0, rp, 0)
    [] rp = N /\ (wp = 0 \/ (wp = rp /\ ~full)) -> Iov(0, rp, 0)
    [] rp = N /\ Inside(wp) -> Iov(wp, rp - wp, 0)
    [] OTHER -> NoIov

WriteIov ==
  CASE rp = 0 /\ wp = 0 /\ ~full -> Iov(0, N, 0)
    [] rp = 0 /\ Inside(wp) -> Iov(wp, N - wp, 0)
    [] Inside(rp) /\ wp < rp -> Iov(wp, rp - wp, 0)
    [] Inside(rp) /\ ((wp = rp /\ ~full) \/ (rp < wp /\ wp < N)) -> Iov(wp, N - wp, rp)
    [] Inside(rp) /\ wp = N -> Iov(0, rp, 0)
    [] rp = N /\ (wp = 0 \/ (wp = rp /\ ~full)) -> Iov(0, rp, 0)
    [] rp = N /\ Inside(wp) -> Iov(wp, rp - wp, 0)
    [] OTHER -> NoIov

(* A position moves on by n cells.  Both run from 1 to N once they have    *)
(* moved: a position only wraps when it goes past the end.                 *)
AdvancedPast(p, n) == p + n

Advanced(p, n) == IF p + n > N THEN p + n - N ELSE p + n

(* hev_ring_buffer_write_finish and hev_ring_buffer_read_finish.  Their    *)
(* assertions compare the count with the space there is now.               *)
WriteAssertion(n) == n <= Total(WriteIov)
ReadAssertion(n) == n <= Total(ReadIov)

NeverFull(n) ==
  IF n = 0 \/ Total(WriteIov) = 0 THEN UNCHANGED <<wp, full>>
  ELSE wp' = Advanced(wp, n) /\ UNCHANGED full

MoveWp(n) ==
  IF n = 0 \/ Total(WriteIov) = 0 THEN UNCHANGED <<wp, full>>
  ELSE /\ wp' = Advanced(wp, n)
       /\ full' = (full \/ wp' = rp)

StillFull(n) ==
  IF n = 0 \/ Total(ReadIov) = 0 THEN UNCHANGED <<rp, full>>
  ELSE rp' = Advanced(rp, n) /\ UNCHANGED full

MoveRp(n) ==
  IF n = 0 \/ Total(ReadIov) = 0 THEN UNCHANGED <<rp, full>>
  ELSE /\ rp' = Advanced(rp, n)
       /\ full' = (full /\ wp # rp)

-----------------------------------------------------------------------------
(* hev_ring_buffer_new: the allocation is not cleared.                     *)
Init ==
  /\ buffer \in [0..(N - 1) -> Bytes]
  /\ wp = 0 /\ rp = 0 /\ full = FALSE
  /\ wiov = NoIov /\ riov = NoIov /\ offered = <<>> /\ taken = <<>>

Writing ==
  /\ wiov = NoIov
  /\ wiov' = WriteIov
  /\ UNCHANGED <<ring, riov, offered, taken>>

(* recvmsg stores the bytes s in the cells of the iovecs.                  *)
Fill ==
  /\ offered = <<>>
  /\ \E n \in 1..Total(wiov) : \E s \in [1..n -> Bytes] :
       /\ offered' = s
       /\ buffer' = [a \in 0..(N - 1) |->
                       IF \E i \in 1..n : Addr(wiov, i) = a
                         THEN s[CHOOSE i \in 1..n : Addr(wiov, i) = a]
                         ELSE buffer[a]]
  /\ UNCHANGED <<wp, rp, full, wiov, riov, taken>>

WriteFinish ==
  /\ wiov # NoIov /\ WriteAssertion(Len(offered))
  /\ MoveWp(Len(offered))
  /\ wiov' = NoIov /\ offered' = <<>>
  /\ UNCHANGED <<buffer, rp, riov, taken>>

Reading ==
  /\ riov = NoIov
  /\ riov' = ReadIov
  /\ UNCHANGED <<ring, wiov, offered, taken>>

(* sendmsg copies bytes out of the cells of the iovecs.                    *)
Copy ==
  /\ taken = <<>>
  /\ \E n \in 1..Total(riov) : taken' = [i \in 1..n |-> buffer[Addr(riov, i)]]
  /\ UNCHANGED <<ring, wiov, riov, offered>>

ReadFinish ==
  /\ riov # NoIov /\ ReadAssertion(Len(taken))
  /\ MoveRp(Len(taken))
  /\ riov' = NoIov /\ taken' = <<>>
  /\ UNCHANGED <<buffer, wp, wiov, offered>>

(* hev_ring_buffer_reset, when nobody is between its two phases.           *)
Reset ==
  /\ wiov = NoIov /\ riov = NoIov
  /\ wp' = 0 /\ rp' = 0 /\ full' = FALSE
  /\ UNCHANGED <<buffer, wiov, riov, offered, taken>>

Next ==
  \/ Writing \/ Fill \/ WriteFinish
  \/ Reading \/ Copy \/ ReadFinish
  \/ Reset

Spec == Init /\ [][Next]_vars

-----------------------------------------------------------------------------
(* Properties.                                                             *)

Iovs == [base : 0..N, len : 0..N, rest : 0..N]

(* Every variable has its type.                                            *)
TypeOK ==
  /\ buffer \in [0..(N - 1) -> Bytes]
  /\ wp \in 0..N /\ rp \in 0..N /\ full \in BOOLEAN
  /\ wiov \in Iovs /\ riov \in Iovs
  /\ offered \in Seq(Bytes) /\ taken \in Seq(Bytes)

(* Full and empty are never confused, although wp = rp in both: what can   *)
(* be read and what can be written add up to the size of the buffer.       *)
SizesAgree == Total(ReadIov) + Total(WriteIov) = N

(* No assertion of the finish functions fails, whatever the other side did *)
(* between the two phases.                                                 *)
AssertionsHold == WriteAssertion(Len(offered)) /\ ReadAssertion(Len(taken))

(* The cells the producer may fill, by an answer however old, hold no byte *)
(* the consumer has yet to read.                                           *)
WriterApart ==
  \A i \in 1..Total(wiov), j \in 1..Total(ReadIov) : Addr(wiov, i) # Addr(ReadIov, j)

Content == [i \in 1..Total(ReadIov) |-> buffer[Addr(ReadIov, i)]]

(* The ring buffer is a bounded FIFO: the consumer gets the bytes the      *)
(* producer committed, each once and in their order.                       *)
Fifo == INSTANCE BoundedFifo WITH queue <- Content
FifoSpec == Fifo!FifoSpec

=============================================================================
