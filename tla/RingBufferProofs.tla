--------------------------- MODULE RingBufferProofs ---------------------------
(* For every size N and every set of bytes: the assertions of the ring     *)
(* buffer hold, full and empty are never confused, and the buffer is a     *)
(* bounded FIFO.  The argument replaces the cases of reading and writing   *)
(* by one formula: the bytes to read are the Count cells that start at rp, *)
(* the free cells are the other ones, starting at wp, both going round the *)
(* buffer.                                                                 *)
EXTENDS RingBuffer, SequenceTheorems, TLAPS

(* What the positions can be: 0 only before the first byte.                *)
PosOK ==
  /\ wp \in 0..N /\ rp \in 0..N /\ full \in BOOLEAN
  /\ full => wp = rp /\ rp # 0
  /\ wp = 0 => rp = 0

Count == IF full THEN N ELSE IF wp >= rp THEN wp - rp ELSE wp - rp + N
Cell(p, i) == IF p + i - 1 < N THEN p + i - 1 ELSE p + i - 1 - N

(* An answer of writing or reading stays right while the other side moves. *)
WriterView ==
  /\ wiov \in Iovs /\ Total(wiov) <= N - Count
  /\ \A i \in 1..Total(wiov) : Addr(wiov, i) = Cell(wp, i)

ReaderView ==
  /\ riov \in Iovs /\ Total(riov) <= Count
  /\ \A i \in 1..Total(riov) : Addr(riov, i) = Cell(rp, i)

(* What the producer filled and what the consumer copied is in the cells.  *)
Stored ==
  /\ offered \in Seq(Bytes) /\ Len(offered) <= Total(wiov)
  /\ \A i \in 1..Len(offered) : buffer[Cell(wp, i)] = offered[i]

Copied ==
  /\ taken \in Seq(Bytes) /\ Len(taken) <= Total(riov)
  /\ \A i \in 1..Len(taken) : buffer[Cell(rp, i)] = taken[i]

RInv ==
  /\ buffer \in [0..(N - 1) -> Bytes]
  /\ PosOK /\ WriterView /\ ReaderView /\ Stored /\ Copied

-----------------------------------------------------------------------------
(* The cases of hev_ring_buffer_reading and hev_ring_buffer_writing.       *)
LEMMA ReadShape ==
  ASSUME PosOK
  PROVE  /\ ReadIov \in Iovs /\ Total(ReadIov) = Count
         /\ \A i \in 1..Count : Addr(ReadIov, i) = Cell(rp, i)
<1>1. ReadIov \in Iovs /\ Total(ReadIov) = Count
  BY SizeAssumption DEF PosOK, ReadIov, Iov, NoIov, Total, Inside, Iovs, Count
<1>2. ASSUME NEW i \in 1..Count PROVE Addr(ReadIov, i) = Cell(rp, i)
  BY SizeAssumption, <1>1
     DEF PosOK, ReadIov, Iov, NoIov, Total, Inside, Iovs, Count, Addr, Cell
<1> QED BY <1>1, <1>2

LEMMA WriteShape ==
  ASSUME PosOK
  PROVE  /\ WriteIov \in Iovs /\ Total(WriteIov) = N - Count
         /\ \A i \in 1..(N - Count) : Addr(WriteIov, i) = Cell(wp, i)
<1>1. WriteIov \in Iovs /\ Total(WriteIov) = N - Count
  BY SizeAssumption DEF PosOK, WriteIov, Iov, NoIov, Total, Inside, Iovs, Count
<1>2. ASSUME NEW i \in 1..(N - Count) PROVE Addr(WriteIov, i) = Cell(wp, i)
  BY SizeAssumption, <1>1
     DEF PosOK, WriteIov, Iov, NoIov, Total, Inside, Iovs, Count, Addr, Cell
<1> QED BY <1>1, <1>2

(* The free cells follow the bytes to read, and the two are apart.         *)
LEMMA CellFacts ==
  ASSUME PosOK
  PROVE  /\ Count \in 0..N
         /\ \A p \in 0..N, i \in 1..N : Cell(p, i) \in 0..(N - 1)
         /\ \A p \in 0..N, i, j \in 1..N : Cell(p, i) = Cell(p, j) => i = j
         /\ \A i \in 1..(N - Count) : Cell(wp, i) = Cell(rp, Count + i)
<1>1. Count \in 0..N
  BY SizeAssumption DEF PosOK, Count
<1>2. \A p \in 0..N, i \in 1..N : Cell(p, i) \in 0..(N - 1)
  BY SizeAssumption DEF Cell
<1>3. \A p \in 0..N, i, j \in 1..N : Cell(p, i) = Cell(p, j) => i = j
  BY SizeAssumption DEF Cell
<1>4. \A i \in 1..(N - Count) : Cell(wp, i) = Cell(rp, Count + i)
  BY SizeAssumption DEF PosOK, Count, Cell
<1> QED BY <1>1, <1>2, <1>3, <1>4

(* A position that moved on by n starts n cells later.                     *)
LEMMA CellShift ==
  ASSUME NEW p \in 0..N, NEW n \in 1..N
  PROVE  \A i \in 1..N : i + n <= N => Cell(Advanced(p, n), i) = Cell(p, n + i)
BY SizeAssumption DEF Cell, Advanced

LEMMA WriteMoves ==
  ASSUME PosOK, NEW n \in 0..(N - Count), MoveWp(n), rp' = rp
  PROVE  /\ PosOK' /\ Count' = Count + n
         /\ \A i \in 1..N : i + n <= N => Cell(wp', i) = Cell(wp, n + i)
<1>1. CASE n = 0
  BY <1>1, SizeAssumption DEF MoveWp, PosOK, Count, Cell
<1>2. CASE n # 0
  <2>1. Total(WriteIov) # 0 /\ Count \in 0..N
    BY <1>2, WriteShape, CellFacts, SizeAssumption
  <2>2. wp' = Advanced(wp, n) /\ (full' <=> (full \/ wp' = rp)) /\ full' \in BOOLEAN
    <3>1. wp' = Advanced(wp, n) /\ full' = (full \/ wp' = rp)
      BY <1>2, <2>1 DEF MoveWp
    <3> QED BY <3>1, Zenon
  <2>3. n \in 1..N /\ wp \in 0..N
    BY <1>2, <2>1, SizeAssumption DEF PosOK
  <2>4. PosOK' /\ Count' = Count + n
    <3>1. CASE wp + n > N
      <4>1. wp' = wp + n - N
        BY <2>2, <3>1 DEF Advanced
      <4> QED BY <2>2, <2>3, <3>1, <4>1, SizeAssumption DEF PosOK, Count
    <3>2. CASE ~(wp + n > N)
      <4>1. wp' = wp + n
        BY <2>2, <3>2 DEF Advanced
      <4> QED BY <2>2, <2>3, <3>2, <4>1, SizeAssumption DEF PosOK, Count
    <3> QED BY <3>1, <3>2
  <2>5. \A i \in 1..N : i + n <= N => Cell(wp', i) = Cell(wp, n + i)
    BY <2>2, <2>3, CellShift
  <2> QED BY <2>4, <2>5
<1> QED BY <1>1, <1>2

LEMMA ReadMoves ==
  ASSUME PosOK, NEW n \in 0..Count, MoveRp(n), wp' = wp
  PROVE  /\ PosOK' /\ Count' = Count - n
         /\ \A i \in 1..N : i + n <= N => Cell(rp', i) = Cell(rp, n + i)
<1>1. CASE n = 0
  BY <1>1, SizeAssumption DEF MoveRp, PosOK, Count, Cell
<1>2. CASE n # 0
  <2>1. Total(ReadIov) # 0 /\ Count \in 0..N
    BY <1>2, ReadShape, CellFacts, SizeAssumption
  <2>2. rp' = Advanced(rp, n) /\ (full' <=> (full /\ wp # rp)) /\ full' \in BOOLEAN
    <3>1. rp' = Advanced(rp, n) /\ full' = (full /\ wp # rp)
      BY <1>2, <2>1 DEF MoveRp
    <3> QED BY <3>1, Zenon
  <2>3. n \in 1..N /\ rp \in 0..N
    BY <1>2, <2>1, SizeAssumption DEF PosOK
  <2>4. PosOK' /\ Count' = Count - n
    <3>1. CASE rp + n > N
      <4>1. rp' = rp + n - N
        BY <2>2, <3>1 DEF Advanced
      <4> QED BY <2>2, <2>3, <3>1, <4>1, SizeAssumption DEF PosOK, Count
    <3>2. CASE ~(rp + n > N)
      <4>1. rp' = rp + n
        BY <2>2, <3>2 DEF Advanced
      <4> QED BY <2>2, <2>3, <3>2, <4>1, SizeAssumption DEF PosOK, Count
    <3> QED BY <3>1, <3>2
  <2>5. \A i \in 1..N : i + n <= N => Cell(rp', i) = Cell(rp, n + i)
    BY <2>2, <2>3, CellShift
  <2> QED BY <2>4, <2>5
<1> QED BY <1>1, <1>2


-----------------------------------------------------------------------------
(* The invariant.                                                          *)
LEMMA NoIovFacts == NoIov \in Iovs /\ Total(NoIov) = 0
BY SizeAssumption DEF NoIov, Iov, Iovs, Total

LEMMA IovTotal == ASSUME NEW v \in Iovs PROVE Total(v) \in Nat
BY SizeAssumption DEF Iovs, Total

(* Between its phases a side holds nothing.                                *)
LEMMA IdleFacts ==
  ASSUME RInv
  PROVE  /\ Len(offered) \in Nat /\ Len(taken) \in Nat
         /\ wiov = NoIov => Len(offered) = 0 /\ offered = <<>>
         /\ riov = NoIov => Len(taken) = 0 /\ taken = <<>>
<1>1. Len(offered) \in Nat /\ Len(taken) \in Nat
  BY DEF RInv, Stored, Copied
<1>2. ASSUME wiov = NoIov PROVE Len(offered) = 0 /\ offered = <<>>
  <2>1. Len(offered) = 0
    BY <1>1, <1>2, NoIovFacts DEF RInv, Stored
  <2> QED BY <2>1, EmptySeq DEF RInv, Stored
<1>3. ASSUME riov = NoIov PROVE Len(taken) = 0 /\ taken = <<>>
  <2>1. Len(taken) = 0
    BY <1>1, <1>3, NoIovFacts DEF RInv, Copied
  <2> QED BY <2>1, EmptySeq DEF RInv, Copied
<1> QED BY <1>1, <1>2, <1>3

LEMMA EmptyFacts == <<>> \in Seq(Bytes) /\ Len(<<>>) = 0
BY EmptySeq

LEMMA RInit == Init => RInv
<1> SUFFICES ASSUME Init PROVE RInv
  OBVIOUS
<1>1. PosOK /\ Count = 0
  <2>1. wp = 0 /\ rp = 0 /\ ~full /\ full \in BOOLEAN
    BY Zenon DEF Init
  <2> QED BY <2>1, SizeAssumption DEF PosOK, Count
<1>2. WriterView /\ ReaderView
  BY <1>1, NoIovFacts, SizeAssumption DEF Init, WriterView, ReaderView
<1>3. Stored /\ Copied
  BY NoIovFacts, EmptyFacts DEF Init, Stored, Copied
<1> QED BY <1>1, <1>2, <1>3 DEF Init, RInv

LEMMA WritingInv == ASSUME RInv, Writing PROVE RInv'
<1>1. wiov = NoIov /\ wiov' = WriteIov /\ UNCHANGED <<buffer, wp, rp, full, riov, offered, taken>>
  BY DEF Writing, ring
<1>2. PosOK' /\ Count' = Count
  BY <1>1 DEF RInv, PosOK, Count
<1>3. WriterView'
  <2>1. Count \in 0..N
    BY CellFacts DEF RInv
  <2> QED BY <1>1, <1>2, <2>1, WriteShape, SizeAssumption DEF RInv, WriterView
<1>4. ReaderView' /\ Copied'
  BY <1>1, <1>2 DEF RInv, ReaderView, Copied
<1>5. Stored'
  <2>1. Len(offered) = 0 /\ Total(WriteIov) \in Nat
    BY <1>1, IdleFacts, WriteShape, IovTotal DEF RInv
  <2> QED BY <1>1, <2>1 DEF RInv, Stored
<1> QED BY <1>1, <1>2, <1>3, <1>4, <1>5 DEF RInv

LEMMA ReadingInv == ASSUME RInv, Reading PROVE RInv'
<1>1. riov = NoIov /\ riov' = ReadIov /\ UNCHANGED <<buffer, wp, rp, full, wiov, offered, taken>>
  BY DEF Reading, ring
<1>2. PosOK' /\ Count' = Count
  BY <1>1 DEF RInv, PosOK, Count
<1>3. ReaderView'
  <2>1. Count \in 0..N
    BY CellFacts DEF RInv
  <2> QED BY <1>1, <1>2, <2>1, ReadShape DEF RInv, ReaderView
<1>4. WriterView' /\ Stored'
  BY <1>1, <1>2 DEF RInv, WriterView, Stored
<1>5. Copied'
  <2>1. Len(taken) = 0 /\ Total(ReadIov) \in Nat
    BY <1>1, IdleFacts, ReadShape, IovTotal DEF RInv
  <2> QED BY <1>1, <2>1 DEF RInv, Copied
<1> QED BY <1>1, <1>2, <1>3, <1>4, <1>5 DEF RInv

(* What Fill does to the cells.                                            *)
LEMMA FillFacts ==
  ASSUME RInv, Fill
  PROVE  /\ UNCHANGED <<wp, rp, full, wiov, riov, taken>> /\ offered = <<>>
         /\ offered' \in Seq(Bytes) /\ Len(offered') \in 1..Total(wiov)
         /\ buffer' \in [0..(N - 1) -> Bytes]
         /\ \A i \in 1..Len(offered') : buffer'[Cell(wp, i)] = offered'[i]
         /\ \A i \in 1..Count : buffer'[Cell(rp, i)] = buffer[Cell(rp, i)]
<1>0. PICK n \in 1..Total(wiov) : \E s \in [1..n -> Bytes] :
        /\ offered' = s
        /\ buffer' = [a \in 0..(N - 1) |->
                        IF \E i \in 1..n : Addr(wiov, i) = a
                          THEN s[CHOOSE i \in 1..n : Addr(wiov, i) = a]
                          ELSE buffer[a]]
  BY Zenon DEF Fill
<1>1. PICK s \in [1..n -> Bytes] :
        /\ offered' = s
        /\ buffer' = [a \in 0..(N - 1) |->
                        IF \E i \in 1..n : Addr(wiov, i) = a
                          THEN s[CHOOSE i \in 1..n : Addr(wiov, i) = a]
                          ELSE buffer[a]]
  BY <1>0, Zenon
<1>2. UNCHANGED <<wp, rp, full, wiov, riov, taken>> /\ offered = <<>>
  BY DEF Fill
<1>3. /\ Total(wiov) \in Nat /\ Total(wiov) <= N - Count /\ Count \in 0..N
      /\ wp \in 0..N /\ rp \in 0..N
      /\ \A i \in 1..Total(wiov) : Addr(wiov, i) = Cell(wp, i)
  BY IovTotal, CellFacts DEF RInv, WriterView, PosOK
<1>4. n \in Nat /\ n <= N - Count /\ \A i \in 1..n : Addr(wiov, i) = Cell(wp, i)
  BY <1>3, SizeAssumption
<1>5. /\ \A p \in 0..N, i \in 1..N : Cell(p, i) \in 0..(N - 1)
      /\ \A p \in 0..N, i, j \in 1..N : Cell(p, i) = Cell(p, j) => i = j
      /\ \A i \in 1..(N - Count) : Cell(wp, i) = Cell(rp, Count + i)
  BY CellFacts DEF RInv
<1>6. offered' \in Seq(Bytes) /\ Len(offered') = n
  <2>1. s \in Seq(Bytes) /\ Len(s) = n
    BY <1>4
  <2> QED BY <1>1, <2>1
<1>7. ASSUME NEW i \in 1..n PROVE buffer'[Cell(wp, i)] = s[i]
  <2>1. i \in 1..N /\ n <= N
    BY <1>3, <1>4, SizeAssumption
  <2>2. Cell(wp, i) \in 0..(N - 1) /\ Addr(wiov, i) = Cell(wp, i)
    BY <1>3, <1>4, <1>5, <2>1
  <2> DEFINE k == CHOOSE j \in 1..n : Addr(wiov, j) = Cell(wp, i)
  <2>3. k \in 1..n /\ Addr(wiov, k) = Cell(wp, i)
    BY <2>2
  <2>4. buffer'[Cell(wp, i)] = s[k]
    BY <1>1, <2>2
  <2> HIDE DEF k
  <2>5. k \in 1..N /\ Cell(wp, k) = Cell(wp, i)
    BY <1>4, <2>1, <2>3, SizeAssumption
  <2>6. k = i
    BY <1>3, <1>5, <2>1, <2>5
  <2> QED BY <2>4, <2>6
<1>8. ASSUME NEW i \in 1..Count PROVE buffer'[Cell(rp, i)] = buffer[Cell(rp, i)]
  <2>0. i \in 1..N
    <3>1. Count \in 0..N
      BY <1>3
    <3> QED BY <3>1, SizeAssumption
  <2>1. i \in 1..N /\ Cell(rp, i) \in 0..(N - 1)
    BY <1>3, <1>5, <2>0
  <2>2. ASSUME NEW j \in 1..n, Addr(wiov, j) = Cell(rp, i) PROVE FALSE
    <3>1. Cell(rp, Count + j) = Cell(rp, i) /\ Count + j \in 1..N
      <4>1. j \in 1..(N - Count) /\ Count + j \in 1..N
        BY <1>3, <1>4, SizeAssumption
      <4>2. Cell(wp, j) = Cell(rp, Count + j)
        BY <1>5, <4>1
      <4> QED BY <1>4, <2>2, <4>1, <4>2
    <3>2. Count + j = i
      BY <1>3, <1>5, <2>1, <3>1
    <3> QED BY <1>3, <3>2, SizeAssumption
  <2> QED BY <1>1, <2>1, <2>2
<1>9. buffer' \in [0..(N - 1) -> Bytes]
  <2>1. ASSUME NEW a \in 0..(N - 1)
        PROVE  (IF \E i \in 1..n : Addr(wiov, i) = a
                  THEN s[CHOOSE i \in 1..n : Addr(wiov, i) = a]
                  ELSE buffer[a]) \in Bytes
    <3>1. CASE \E i \in 1..n : Addr(wiov, i) = a
      <4>1. (CHOOSE i \in 1..n : Addr(wiov, i) = a) \in 1..n
        BY <3>1
      <4> QED BY <3>1, <4>1
    <3>2. CASE ~\E i \in 1..n : Addr(wiov, i) = a
      BY <3>2 DEF RInv
    <3> QED BY <3>1, <3>2
  <2> QED BY <1>1, <2>1
<1> QED BY <1>1, <1>2, <1>6, <1>7, <1>8, <1>9


LEMMA FillInv == ASSUME RInv, Fill PROVE RInv'
<1>1. /\ UNCHANGED <<wp, rp, full, wiov, riov, taken>>
      /\ offered' \in Seq(Bytes) /\ Len(offered') \in 1..Total(wiov)
      /\ buffer' \in [0..(N - 1) -> Bytes]
      /\ \A i \in 1..Len(offered') : buffer'[Cell(wp, i)] = offered'[i]
      /\ \A i \in 1..Count : buffer'[Cell(rp, i)] = buffer[Cell(rp, i)]
  BY FillFacts
<1>2. PosOK' /\ Count' = Count /\ WriterView' /\ ReaderView'
  BY <1>1 DEF RInv, PosOK, Count, WriterView, ReaderView
<1>3. Stored'
  <2>1. Len(offered') <= Total(wiov)
    BY <1>1, IovTotal DEF RInv, WriterView
  <2> QED BY <1>1, <2>1 DEF Stored
<1>4. Copied'
  <2>1. Count \in 0..N /\ Len(taken) \in Nat /\ Total(riov) \in Nat
        /\ Len(taken) <= Total(riov) /\ Total(riov) <= Count
    BY CellFacts, IdleFacts, IovTotal DEF RInv, ReaderView, Copied
  <2>2. \A i \in 1..Len(taken) : i \in 1..Count
    BY <2>1
  <2> QED BY <1>1, <2>2 DEF RInv, Copied
<1> QED BY <1>1, <1>2, <1>3, <1>4 DEF RInv

LEMMA CopyFacts ==
  ASSUME RInv, Copy
  PROVE  /\ UNCHANGED <<buffer, wp, rp, full, wiov, riov, offered>> /\ taken = <<>>
         /\ taken' \in Seq(Bytes) /\ Len(taken') \in 1..Total(riov)
         /\ \A i \in 1..Len(taken') : buffer[Cell(rp, i)] = taken'[i]
<1>1. PICK n \in 1..Total(riov) : taken' = [i \in 1..n |-> buffer[Addr(riov, i)]]
  BY DEF Copy
<1>2. /\ Total(riov) \in Nat /\ Total(riov) <= Count /\ Count \in 0..N /\ rp \in 0..N
      /\ \A i \in 1..Total(riov) : Addr(riov, i) = Cell(rp, i)
      /\ \A p \in 0..N, i \in 1..N : Cell(p, i) \in 0..(N - 1)
  BY IovTotal, CellFacts DEF RInv, ReaderView, PosOK
<1>3. ASSUME NEW i \in 1..n
      PROVE  Addr(riov, i) = Cell(rp, i) /\ buffer[Addr(riov, i)] \in Bytes
  <2>1. i \in 1..N /\ Addr(riov, i) = Cell(rp, i)
    BY <1>2, SizeAssumption
  <2>2. Addr(riov, i) \in 0..(N - 1)
    BY <1>2, <2>1
  <2> QED BY <2>1, <2>2 DEF RInv
<1>4. n \in Nat /\ taken' \in [1..n -> Bytes]
  BY <1>1, <1>2, <1>3
<1>5. taken' \in Seq(Bytes) /\ Len(taken') = n
  BY <1>4
<1>6. UNCHANGED <<buffer, wp, rp, full, wiov, riov, offered>> /\ taken = <<>>
  BY DEF Copy, ring
<1> QED BY <1>1, <1>3, <1>5, <1>6

LEMMA CopyInv == ASSUME RInv, Copy PROVE RInv'
<1>1. /\ UNCHANGED <<buffer, wp, rp, full, wiov, riov, offered>>
      /\ taken' \in Seq(Bytes) /\ Len(taken') \in 1..Total(riov)
      /\ \A i \in 1..Len(taken') : buffer[Cell(rp, i)] = taken'[i]
  BY CopyFacts
<1>2. PosOK' /\ Count' = Count /\ WriterView' /\ ReaderView' /\ Stored'
  BY <1>1 DEF RInv, PosOK, Count, WriterView, ReaderView, Stored
<1>3. Copied'
  <2>1. Len(taken') <= Total(riov)
    BY <1>1, IovTotal DEF RInv, ReaderView
  <2> QED BY <1>1, <2>1 DEF Copied
<1> QED BY <1>1, <1>2, <1>3 DEF RInv

LEMMA WriteFinishFacts ==
  ASSUME RInv, WriteFinish
  PROVE  /\ UNCHANGED <<buffer, rp, riov, taken>> /\ wiov' = NoIov /\ offered' = <<>>
         /\ Len(offered) \in 0..(N - Count)
         /\ PosOK' /\ Count' = Count + Len(offered)
         /\ \A i \in 1..N : i + Len(offered) <= N => Cell(wp', i) = Cell(wp, Len(offered) + i)
<1>1. /\ UNCHANGED <<buffer, rp, riov, taken>> /\ wiov' = NoIov /\ offered' = <<>>
      /\ MoveWp(Len(offered))
  BY DEF WriteFinish
<1>2. Len(offered) \in 0..(N - Count)
  <2>1. /\ Len(offered) \in Nat /\ Len(offered) <= Total(wiov)
        /\ Total(wiov) \in Nat /\ Total(wiov) <= N - Count /\ Count \in 0..N
    BY IdleFacts, IovTotal, CellFacts DEF RInv, WriterView, Stored
  <2> QED BY <2>1, SizeAssumption
<1>3. PosOK /\ rp' = rp
  BY <1>1 DEF RInv
<1> QED BY <1>1, <1>2, <1>3, WriteMoves

LEMMA WriteFinishInv == ASSUME RInv, WriteFinish PROVE RInv'
<1>1. /\ UNCHANGED <<buffer, rp, riov, taken>> /\ wiov' = NoIov /\ offered' = <<>>
      /\ Len(offered) \in 0..(N - Count)
      /\ PosOK' /\ Count' = Count + Len(offered)
  BY WriteFinishFacts
<1>2. Count \in 0..N /\ Count' \in 0..N /\ Total(riov) \in Nat /\ Total(riov) <= Count'
  <2>1. Count \in 0..N
    BY CellFacts DEF RInv
  <2>2. Total(riov) \in Nat /\ Total(riov) <= Count
    BY IovTotal DEF RInv, ReaderView
  <2> QED BY <1>1, <2>1, <2>2, SizeAssumption
<1>3. WriterView' /\ Stored'
  <2>1. WriterView'
    BY <1>1, <1>2, NoIovFacts, SizeAssumption DEF WriterView
  <2>2. Stored'
    BY <1>1, NoIovFacts, EmptyFacts DEF Stored
  <2> QED BY <2>1, <2>2
<1>4. ReaderView' /\ Copied'
  BY <1>1, <1>2 DEF RInv, ReaderView, Copied
<1> QED BY <1>1, <1>3, <1>4 DEF RInv

LEMMA ReadFinishFacts ==
  ASSUME RInv, ReadFinish
  PROVE  /\ UNCHANGED <<buffer, wp, wiov, offered>> /\ riov' = NoIov /\ taken' = <<>>
         /\ Len(taken) \in 0..Count
         /\ PosOK' /\ Count' = Count - Len(taken)
         /\ \A i \in 1..N : i + Len(taken) <= N => Cell(rp', i) = Cell(rp, Len(taken) + i)
<1>1. /\ UNCHANGED <<buffer, wp, wiov, offered>> /\ riov' = NoIov /\ taken' = <<>>
      /\ MoveRp(Len(taken))
  BY DEF ReadFinish
<1>2. Len(taken) \in 0..Count
  <2>1. /\ Len(taken) \in Nat /\ Len(taken) <= Total(riov)
        /\ Total(riov) \in Nat /\ Total(riov) <= Count /\ Count \in 0..N
    BY IdleFacts, IovTotal, CellFacts DEF RInv, ReaderView, Copied
  <2> QED BY <2>1, SizeAssumption
<1>3. PosOK /\ wp' = wp
  BY <1>1 DEF RInv
<1> QED BY <1>1, <1>2, <1>3, ReadMoves

LEMMA ReadFinishInv == ASSUME RInv, ReadFinish PROVE RInv'
<1>1. /\ UNCHANGED <<buffer, wp, wiov, offered>> /\ riov' = NoIov /\ taken' = <<>>
      /\ Len(taken) \in 0..Count
      /\ PosOK' /\ Count' = Count - Len(taken)
  BY ReadFinishFacts
<1>2. Count \in 0..N /\ Count' \in 0..N /\ Total(wiov) \in Nat /\ Total(wiov) <= N - Count'
  <2>1. Count \in 0..N
    BY CellFacts DEF RInv
  <2>2. Total(wiov) \in Nat /\ Total(wiov) <= N - Count
    BY IovTotal DEF RInv, WriterView
  <2> QED BY <1>1, <2>1, <2>2, SizeAssumption
<1>3. ReaderView' /\ Copied'
  <2>1. ReaderView'
    BY <1>1, <1>2, NoIovFacts, SizeAssumption DEF ReaderView
  <2>2. Copied'
    BY <1>1, NoIovFacts, EmptyFacts DEF Copied
  <2> QED BY <2>1, <2>2
<1>4. WriterView' /\ Stored'
  BY <1>1, <1>2 DEF RInv, WriterView, Stored
<1> QED BY <1>1, <1>3, <1>4 DEF RInv

LEMMA ResetInv == ASSUME RInv, Reset PROVE RInv' /\ Count' = 0
<1>1. /\ UNCHANGED <<buffer, wiov, riov, offered, taken>>
      /\ wp' = 0 /\ rp' = 0 /\ full' = FALSE /\ wiov = NoIov /\ riov = NoIov
  BY DEF Reset
<1>2. PosOK' /\ Count' = 0
  <2>1. wp' = 0 /\ rp' = 0 /\ ~full' /\ full' \in BOOLEAN
    BY <1>1, Zenon
  <2> QED BY <2>1, SizeAssumption DEF PosOK, Count
<1>3. offered = <<>> /\ taken = <<>>
  BY <1>1, IdleFacts
<1>4. WriterView' /\ ReaderView' /\ Stored' /\ Copied'
  BY <1>1, <1>2, <1>3, NoIovFacts, EmptyFacts, SizeAssumption
     DEF WriterView, ReaderView, Stored, Copied
<1> QED BY <1>1, <1>2, <1>4 DEF RInv

LEMMA RNext == ASSUME RInv, [Next]_vars PROVE RInv'
<1>1. CASE UNCHANGED vars
  BY <1>1 DEF vars, RInv, PosOK, Count, WriterView, ReaderView, Stored, Copied
<1>2. CASE Next
  BY <1>2, WritingInv, FillInv, WriteFinishInv, ReadingInv, CopyInv, ReadFinishInv,
     ResetInv DEF Next
<1> QED BY <1>1, <1>2

THEOREM RingInvariance == Spec => []RInv
<1>1. RInv /\ [Next]_vars => RInv'
  BY RNext
<1> QED BY RInit, <1>1, PTL DEF Spec

(* Every reachable state has its type.                                     *)
THEOREM RingTypeCorrect == Spec => []TypeOK
<1>1. RInv => TypeOK
  BY DEF RInv, TypeOK, PosOK, WriterView, ReaderView, Stored, Copied
<1> QED BY RingInvariance, <1>1, PTL

(* What reading and writing answer adds up to the size of the buffer, so   *)
(* wp = rp is never full for one of them and empty for the other.          *)
THEOREM RingSizesAgree == Spec => []SizesAgree
<1>1. RInv => SizesAgree
  <2> SUFFICES ASSUME RInv PROVE SizesAgree
    OBVIOUS
  <2>1. Total(ReadIov) = Count /\ Total(WriteIov) = N - Count /\ Count \in 0..N
    BY ReadShape, WriteShape, CellFacts DEF RInv
  <2> QED BY <2>1, SizeAssumption DEF SizesAgree
<1> QED BY RingInvariance, <1>1, PTL

(* No interleaving of producer and consumer makes an assertion of          *)
(* write_finish or read_finish fail.                                       *)
THEOREM RingAssertions == Spec => []AssertionsHold
<1>1. RInv => AssertionsHold
  <2> SUFFICES ASSUME RInv PROVE AssertionsHold
    OBVIOUS
  <2>1. Total(ReadIov) = Count /\ Total(WriteIov) = N - Count /\ Count \in 0..N
    BY ReadShape, WriteShape, CellFacts DEF RInv
  <2>2. /\ Len(offered) \in Nat /\ Len(offered) <= Total(wiov)
        /\ Len(taken) \in Nat /\ Len(taken) <= Total(riov)
        /\ Total(wiov) <= N - Count /\ Total(riov) <= Count
        /\ Total(wiov) \in Nat /\ Total(riov) \in Nat
    BY IdleFacts, IovTotal DEF RInv, WriterView, ReaderView, Stored, Copied
  <2>3. Len(offered) <= N - Count /\ Len(taken) <= Count
    BY <2>1, <2>2, SizeAssumption
  <2> QED BY <2>1, <2>3 DEF AssertionsHold, WriteAssertion, ReadAssertion
<1> QED BY RingInvariance, <1>1, PTL

(* The producer, however old the answer it acts on, never overwrites a     *)
(* byte that is still to be read.                                          *)
THEOREM RingWriterApart == Spec => []WriterApart
<1>1. RInv => WriterApart
  <2> SUFFICES ASSUME RInv, NEW i \in 1..Total(wiov), NEW j \in 1..Total(ReadIov),
                      Addr(wiov, i) = Addr(ReadIov, j)
               PROVE  FALSE
    BY Zenon DEF WriterApart
  <2>1. Total(ReadIov) = Count /\ Addr(ReadIov, j) = Cell(rp, j)
    BY ReadShape DEF RInv
  <2>2. /\ Count \in 0..N /\ rp \in 0..N
        /\ \A p \in 0..N, k, l \in 1..N : Cell(p, k) = Cell(p, l) => k = l
        /\ \A k \in 1..(N - Count) : Cell(wp, k) = Cell(rp, Count + k)
    BY CellFacts DEF RInv, PosOK
  <2>3. Total(wiov) \in Nat /\ Total(wiov) <= N - Count /\ Addr(wiov, i) = Cell(wp, i)
    BY IovTotal DEF RInv, WriterView
  <2>4. i \in 1..(N - Count) /\ Count + i \in 1..N /\ j \in 1..N /\ Count + i # j
    BY <2>1, <2>2, <2>3, SizeAssumption
  <2>5. Cell(rp, Count + i) = Cell(rp, j)
    BY <2>1, <2>2, <2>3, <2>4
  <2> QED BY <2>2, <2>4, <2>5
<1> QED BY RingInvariance, <1>1, PTL

-----------------------------------------------------------------------------
(* The refinement: the queue of the abstract FIFO is the bytes in the      *)
(* Count cells from rp on.                                                 *)
ContentIs ==
  /\ Content \in Seq(Bytes) /\ Len(Content) = Count
  /\ \A i \in 1..Count : Content[i] = buffer[Cell(rp, i)]

LEMMA ContentShape == RInv => ContentIs
<1> SUFFICES ASSUME RInv PROVE ContentIs
  OBVIOUS
<1>1. Total(ReadIov) = Count /\ \A i \in 1..Count : Addr(ReadIov, i) = Cell(rp, i)
  BY ReadShape DEF RInv
<1>2. /\ Count \in 0..N /\ rp \in 0..N
      /\ \A p \in 0..N, i \in 1..N : Cell(p, i) \in 0..(N - 1)
  BY CellFacts DEF RInv, PosOK
<1>3. ASSUME NEW i \in 1..Count
      PROVE  Addr(ReadIov, i) = Cell(rp, i) /\ buffer[Addr(ReadIov, i)] \in Bytes
  <2>1. i \in 1..N
    BY <1>2, SizeAssumption
  <2>2. Addr(ReadIov, i) = Cell(rp, i) /\ Cell(rp, i) \in 0..(N - 1)
    BY <1>1, <1>2, <2>1
  <2> QED BY <2>2 DEF RInv
<1>4. Count \in Nat /\ Content = [i \in 1..Count |-> buffer[Addr(ReadIov, i)]]
  BY <1>1, <1>2 DEF Content
<1>5. Content \in [1..Count -> Bytes]
  BY <1>3, <1>4
<1>6. Content \in Seq(Bytes) /\ Len(Content) = Count
  BY <1>4, <1>5
<1>7. \A i \in 1..Count : Content[i] = buffer[Cell(rp, i)]
  BY <1>3, <1>4
<1> QED BY <1>6, <1>7 DEF ContentIs

LEMMA ContentNext == RInv' => ContentIs'
BY ContentShape, PTL

LEMMA SameContent ==
  ASSUME ContentIs, ContentIs', Count' = Count,
         \A i \in 1..Count : buffer'[Cell(rp', i)] = buffer[Cell(rp, i)]
  PROVE  Content' = Content
<1>1. /\ Content \in Seq(Bytes) /\ Len(Content) = Count
      /\ \A i \in 1..Count : Content[i] = buffer[Cell(rp, i)]
  BY DEF ContentIs
<1>2. /\ Content' \in Seq(Bytes) /\ Len(Content') = Count
      /\ \A i \in 1..Count : Content'[i] = buffer'[Cell(rp', i)]
  BY DEF ContentIs, Cell
<1>3. \A i \in 1..Len(Content') : Content'[i] = Content[i]
  BY <1>1, <1>2
<1> HIDE DEF ContentIs
<1> QED BY <1>1, <1>2, <1>3, SeqEqual

(* Fill is an offer of the abstract FIFO, and leaves its queue alone.      *)
LEMMA FillOffers == ASSUME RInv, RInv', Fill PROVE Fifo!Offer
<1>1. /\ UNCHANGED <<wp, rp, full, wiov, riov, taken>> /\ offered = <<>>
      /\ offered' \in Seq(Bytes) /\ Len(offered') \in 1..Total(wiov)
      /\ \A i \in 1..Count : buffer'[Cell(rp, i)] = buffer[Cell(rp, i)]
  BY FillFacts
<1>2. ContentIs /\ ContentIs' /\ Count' = Count
  BY <1>1, ContentShape, ContentNext DEF Count
<1>3. Content' = Content
  BY <1>1, <1>2, SameContent
<1>4. Len(Content) + Len(offered') <= N
  <2>1. /\ Len(Content) = Count /\ Count \in 0..N
        /\ Total(wiov) \in Nat /\ Total(wiov) <= N - Count
    BY <1>2, CellFacts, IovTotal DEF ContentIs, RInv, WriterView
  <2>2. Len(offered') \in Nat /\ Len(offered') <= Total(wiov)
    BY <1>1, <2>1
  <2> QED BY <2>1, <2>2, SizeAssumption
<1> QED BY <1>1, <1>3, <1>4 DEF Fifo!Offer

(* WriteFinish appends what was offered to the queue.                      *)
LEMMA WriteFinishPuts == ASSUME RInv, RInv', WriteFinish PROVE Fifo!Put
<1>1. /\ UNCHANGED <<buffer, rp, riov, taken>> /\ offered' = <<>>
      /\ Len(offered) \in 0..(N - Count) /\ Count' = Count + Len(offered)
  BY WriteFinishFacts
<1>2. /\ Content \in Seq(Bytes) /\ Len(Content) = Count
      /\ \A i \in 1..Count : Content[i] = buffer[Cell(rp, i)]
  BY ContentShape DEF ContentIs
<1>3. /\ Content' \in Seq(Bytes) /\ Len(Content') = Count'
      /\ \A i \in 1..Count' : Content'[i] = buffer'[Cell(rp', i)]
  BY ContentNext DEF ContentIs, Cell
<1>4. /\ offered \in Seq(Bytes) /\ \A i \in 1..Len(offered) : buffer[Cell(wp, i)] = offered[i]
      /\ Count \in 0..N
      /\ \A i \in 1..(N - Count) : Cell(wp, i) = Cell(rp, Count + i)
  BY CellFacts DEF RInv, Stored
<1> HIDE DEF Content, Count, Cell
<1>5. /\ Content \o offered \in Seq(Bytes)
      /\ Len(Content \o offered) = Len(Content) + Len(offered)
      /\ \A i \in 1 .. Len(Content) + Len(offered) : (Content \o offered)[i] =
           IF i <= Len(Content) THEN Content[i] ELSE offered[i - Len(Content)]
  BY <1>2, <1>4, ConcatProperties
<1>6. ASSUME NEW i \in 1..Len(Content') PROVE Content'[i] = (Content \o offered)[i]
  <2>1. i \in 1..(Count + Len(offered)) /\ Content'[i] = buffer[Cell(rp, i)]
    BY <1>1, <1>3
  <2>2. CASE i <= Count
    <3>1. i \in 1..Count
      BY <1>4, <2>1, <2>2
    <3> QED BY <1>2, <1>5, <2>1, <2>2, <3>1
  <2>3. CASE ~(i <= Count)
    <3> DEFINE k == i - Count
    <3>1. k \in 1..Len(offered) /\ k \in 1..(N - Count) /\ i = Count + k
      BY <1>1, <1>4, <2>1, <2>3, SizeAssumption
    <3>2. (Content \o offered)[i] = offered[k]
      BY <1>2, <1>5, <2>1, <2>3
    <3> HIDE DEF k
    <3>3. buffer[Cell(rp, i)] = offered[k]
      BY <1>4, <3>1
    <3> QED BY <2>1, <3>2, <3>3
  <2> QED BY <2>2, <2>3
<1>7. Len(Content') = Len(Content \o offered)
  BY <1>1, <1>2, <1>3, <1>5
<1>8. Content' = Content \o offered
  BY <1>3, <1>5, <1>6, <1>7, SeqEqual
<1> QED BY <1>1, <1>8 DEF Fifo!Put

(* Copy takes a prefix of the queue.                                       *)
LEMMA CopyTakes == ASSUME RInv, RInv', Copy PROVE Fifo!Take
<1>1. /\ UNCHANGED <<buffer, wp, rp, full, wiov, riov, offered>> /\ taken = <<>>
      /\ taken' \in Seq(Bytes) /\ Len(taken') \in 1..Total(riov)
      /\ \A i \in 1..Len(taken') : buffer[Cell(rp, i)] = taken'[i]
  BY CopyFacts
<1>2. ContentIs /\ ContentIs' /\ Count' = Count
  BY <1>1, ContentShape, ContentNext DEF Count
<1>3. Content' = Content
  BY <1>1, <1>2, SameContent
<1>4. /\ Content \in Seq(Bytes) /\ Len(Content) = Count
      /\ \A i \in 1..Count : Content[i] = buffer[Cell(rp, i)]
  BY <1>2 DEF ContentIs
<1> DEFINE n == Len(taken')
<1>5. n \in 1..Count /\ Count \in Nat
  <2>1. Total(riov) \in Nat /\ Total(riov) <= Count /\ Count \in 0..N
    BY CellFacts, IovTotal DEF RInv, ReaderView
  <2> QED BY <1>1, <2>1
<1> HIDE DEF Content, Count, Cell
<1>6. /\ SubSeq(Content, 1, n) \in Seq(Bytes) /\ Len(SubSeq(Content, 1, n)) = n
      /\ \A i \in 1..n : SubSeq(Content, 1, n)[i] = Content[i]
  BY <1>4, <1>5
<1>7. \A i \in 1..Len(taken') : taken'[i] = SubSeq(Content, 1, n)[i]
  <2>1. \A i \in 1..n : i \in 1..Count
    BY <1>5
  <2> QED BY <1>1, <1>4, <1>6, <2>1
<1>8. taken' = SubSeq(Content, 1, n)
  BY <1>1, <1>6, <1>7, SeqEqual
<1>9. \E m \in 1..Len(Content) : taken' = SubSeq(Content, 1, m)
  BY <1>4, <1>5, <1>8
<1> QED BY <1>1, <1>3, <1>9, Zenon DEF Fifo!Take

(* ReadFinish drops what was taken from the front of the queue.            *)
LEMMA ReadFinishDrops == ASSUME RInv, RInv', ReadFinish PROVE Fifo!Drop
<1>1. /\ UNCHANGED <<buffer, wp, wiov, offered>> /\ taken' = <<>>
      /\ Len(taken) \in 0..Count /\ Count' = Count - Len(taken)
      /\ \A i \in 1..N : i + Len(taken) <= N => Cell(rp', i) = Cell(rp, Len(taken) + i)
  BY ReadFinishFacts
<1>2. /\ Content \in Seq(Bytes) /\ Len(Content) = Count
      /\ \A i \in 1..Count : Content[i] = buffer[Cell(rp, i)]
  BY ContentShape DEF ContentIs
<1>3. /\ Content' \in Seq(Bytes) /\ Len(Content') = Count'
      /\ \A i \in 1..Count' : Content'[i] = buffer'[Cell(rp', i)]
  BY ContentNext DEF ContentIs, Cell
<1>4. Count \in 0..N
  BY CellFacts DEF RInv
<1> DEFINE n == Len(taken)
           rest == SubSeq(Content, n + 1, Count)
<1> HIDE DEF Content, Count, Cell
<1>5. n \in Nat /\ n <= Count /\ Count \in Nat
  BY <1>1, <1>4, SizeAssumption
<1>6. /\ rest \in Seq(Bytes) /\ Len(rest) = Count - n
      /\ \A i \in 1..(Count - n) : rest[i] = Content[n + i]
  BY <1>2, <1>5
<1>7. ASSUME NEW i \in 1..Len(Content') PROVE Content'[i] = rest[i]
  <2>1. i \in 1..(Count - n) /\ Content'[i] = buffer[Cell(rp', i)]
    BY <1>1, <1>3
  <2>2. i \in 1..N /\ i + n <= N /\ n + i \in 1..Count
    BY <1>4, <1>5, <2>1, SizeAssumption
  <2>3. Cell(rp', i) = Cell(rp, n + i)
    BY <1>1, <2>2
  <2>4. rest[i] = Content[n + i] /\ Content[n + i] = buffer[Cell(rp, n + i)]
    BY <1>2, <1>6, <2>1, <2>2
  <2> QED BY <2>1, <2>3, <2>4
<1>8. Content' = rest
  <2>1. Len(Content') = Len(rest)
    BY <1>1, <1>3, <1>6
  <2> HIDE DEF rest
  <2> QED BY <1>3, <1>6, <1>7, <2>1, SeqEqual
<1> QED BY <1>1, <1>2, <1>8 DEF Fifo!Drop

(* Reset empties the queue.                                                *)
LEMMA ResetClears == ASSUME RInv, RInv', Reset PROVE Fifo!Clear
<1>1. offered = <<>> /\ taken = <<>> /\ UNCHANGED <<offered, taken>>
  BY IdleFacts DEF Reset
<1>2. Content' \in Seq(Bytes) /\ Len(Content') = 0
  BY ContentNext, ResetInv DEF ContentIs
<1>3. Content' = <<>>
  BY <1>2, EmptySeq
<1> QED BY <1>1, <1>3 DEF Fifo!Clear

LEMMA PhaseStutters ==
  ASSUME RInv, RInv', Writing \/ Reading \/ UNCHANGED vars
  PROVE  UNCHANGED Fifo!fifoVars
<1>1. UNCHANGED <<buffer, wp, rp, full, offered, taken>>
  BY DEF Writing, Reading, ring, vars
<1>2. ContentIs /\ ContentIs' /\ Count' = Count
  BY <1>1, ContentShape, ContentNext DEF Count
<1>3. Content' = Content
  BY <1>1, <1>2, SameContent
<1> QED BY <1>1, <1>3 DEF Fifo!fifoVars

(* The ring buffer implements the bounded FIFO: what is read is what was   *)
(* written, each byte once and in order, and never more than N are kept.   *)
THEOREM RingIsFifo == Spec => FifoSpec
<1>1. Init /\ RInv => Fifo!FifoInit
  <2> SUFFICES ASSUME Init, RInv PROVE Fifo!FifoInit
    OBVIOUS
  <2>1. Count = 0
    <3>1. wp = 0 /\ rp = 0 /\ ~full
      BY Zenon DEF Init
    <3> QED BY <3>1, SizeAssumption DEF Count
  <2>2. Content = <<>>
    <3>1. Content \in Seq(Bytes) /\ Len(Content) = 0
      BY <2>1, ContentShape DEF ContentIs
    <3> QED BY <3>1, EmptySeq
  <2> QED BY <2>2 DEF Init, Fifo!FifoInit
<1>2. RInv /\ RInv' /\ [Next]_vars => [Fifo!FifoNext]_(Fifo!fifoVars)
  <2> SUFFICES ASSUME RInv, RInv', [Next]_vars PROVE [Fifo!FifoNext]_(Fifo!fifoVars)
    OBVIOUS
  <2>1. CASE Writing \/ Reading \/ UNCHANGED vars
    BY <2>1, PhaseStutters
  <2>2. CASE Fill
    BY <2>2, FillOffers DEF Fifo!FifoNext
  <2>3. CASE WriteFinish
    BY <2>3, WriteFinishPuts DEF Fifo!FifoNext
  <2>4. CASE Copy
    BY <2>4, CopyTakes DEF Fifo!FifoNext
  <2>5. CASE ReadFinish
    BY <2>5, ReadFinishDrops DEF Fifo!FifoNext
  <2>6. CASE Reset
    BY <2>6, ResetClears DEF Fifo!FifoNext
  <2> QED BY <2>1, <2>2, <2>3, <2>4, <2>5, <2>6 DEF Next
<1> QED BY RInit, RingInvariance, <1>1, <1>2, PTL DEF Spec, FifoSpec, Fifo!FifoSpec

=============================================================================
