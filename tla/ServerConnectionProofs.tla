----------------------- MODULE ServerConnectionProofs -----------------------
(* Proofs about tcpBuffer's methods and about ServerConnection, for buffers, *)
(* frames and replies of any size and any number of requests.                *)
EXTENDS ServerConnection, SequenceTheorems, TLAPS

IInv == TypeOK /\ InBufferNeverGrows

-----------------------------------------------------------------------------
(* tcpBuffer.  A sequence made element by element has the right type.        *)
LEMMA NewBufferOK ==
  ASSUME NEW size \in Nat
  PROVE  BufferOK(NewBuffer(size)) /\ Len(NewBuffer(size).data) = size
  BY DEF NewBuffer, BufferOK, Buffer

(* Moving what can be read to the front keeps it.                            *)
LEMMA MovedOK ==
  ASSUME NEW b, BufferOK(b), NEW size \in Nat, ReadAble(b) <= size
  PROVE  /\ BufferOK(Moved(b, size)) /\ Len(Moved(b, size).data) = size
         /\ ReadAble(Moved(b, size)) = ReadAble(b)
         /\ Moved(b, size).writeIdx = ReadAble(b)
         /\ \A i \in 1 .. ReadAble(b) :
               Moved(b, size).data[i] = b.data[b.readIdx + i]
<1> DEFINE n == ReadAble(b)
           d == Moved(b, size).data
<1>1. n \in Nat /\ n <= size /\ b.readIdx \in Nat /\ b.readIdx + n = b.writeIdx
  BY DEF BufferOK, Buffer, ReadAble
<1>2. \A i \in 1 .. n : b.data[b.readIdx + i] \in Unit
  BY <1>1 DEF BufferOK
<1>3. d = [i \in 1 .. size |-> IF i <= n THEN b.data[b.readIdx + i] ELSE Blank]
  BY DEF Moved
<1> HIDE DEF n, d
<1>4. d \in Seq(Unit \cup {Blank}) /\ Len(d) = size
  BY <1>1, <1>2, <1>3
<1>5. \A i \in 1 .. n : d[i] = b.data[b.readIdx + i] /\ d[i] \in Unit
  BY <1>1, <1>2, <1>3
<1>6. Moved(b, size) = [data |-> d, readIdx |-> 0, writeIdx |-> n]
  BY DEF Moved, d, n
<1> QED
  BY <1>1, <1>4, <1>5, <1>6 DEF BufferOK, Buffer, ReadAble, n

LEMMA AdjustBufferOK ==
  ASSUME NEW b, BufferOK(b)
  PROVE  /\ BufferOK(AdjustBuffer(b)) /\ Len(AdjustBuffer(b).data) = Len(b.data)
         /\ AdjustBuffer(b).writeIdx <= b.writeIdx
<1>1. ReadAble(b) <= Len(b.data) /\ ReadAble(b) <= b.writeIdx /\ Len(b.data) \in Nat
  BY DEF BufferOK, Buffer, ReadAble
<1>2. CASE b.readIdx < Len(b.data) \div 3
  <2>1. AdjustBuffer(b) = b
    BY <1>2 DEF AdjustBuffer
  <2>2. b.writeIdx \in Nat
    BY DEF BufferOK, Buffer
  <2> QED
    BY <2>1, <2>2
<1>3. CASE ~(b.readIdx < Len(b.data) \div 3)
  <2>1. AdjustBuffer(b) = Moved(b, Len(b.data))
    BY <1>3 DEF AdjustBuffer
  <2> QED
    BY <1>1, <2>1, MovedOK
<1> QED
  BY <1>2, <1>3

(* Neither index ever gets to the end of the buffer by move_read_index or    *)
(* move_write_index.                                                         *)
LEMMA MoveReadIndexOK ==
  ASSUME NEW b, BufferOK(b), NEW n \in Nat, b.readIdx + n <= b.writeIdx
  PROVE  /\ BufferOK(MoveReadIndex(b, n))
         /\ Len(MoveReadIndex(b, n).data) = Len(b.data)
         /\ MoveReadIndex(b, n).writeIdx <= b.writeIdx
<1> DEFINE c == [b EXCEPT !.readIdx = @ + n]
<1>1. BufferOK(c) /\ c.data = b.data /\ c.writeIdx = b.writeIdx
  BY DEF BufferOK, Buffer
<1> HIDE DEF c
<1>2. MoveReadIndex(b, n) = b \/ MoveReadIndex(b, n) = AdjustBuffer(c)
  BY DEF MoveReadIndex, c
<1>3. b.writeIdx \in Nat
  BY DEF BufferOK, Buffer
<1> QED
  BY <1>1, <1>2, <1>3, AdjustBufferOK

LEMMA CopyToOK ==
  ASSUME NEW b, BufferOK(b), NEW units \in Seq(Unit), Len(units) <= WriteAble(b)
  PROVE  LET d == CopyTo(b.data, b.writeIdx, units)
         IN  /\ d \in Seq(Unit \cup {Blank}) /\ Len(d) = Len(b.data)
             /\ \A i \in 1 .. b.writeIdx : d[i] = b.data[i]
             /\ \A i \in 1 .. Len(units) : d[b.writeIdx + i] = units[i]
<1> DEFINE w == b.writeIdx
           n == Len(units)
           d == CopyTo(b.data, w, units)
<1>1. /\ w \in Nat /\ n \in Nat /\ w + n <= Len(b.data) /\ Len(b.data) \in Nat
      /\ \A i \in 1 .. n : units[i] \in Unit
      /\ \A i \in 1 .. Len(b.data) : b.data[i] \in Unit \cup {Blank}
  BY LenProperties DEF BufferOK, Buffer, WriteAble
<1>2. d = [i \in 1 .. Len(b.data) |->
             IF i \in w + 1 .. w + n THEN units[i - w] ELSE b.data[i]]
  BY DEF CopyTo
<1> HIDE DEF w, n, d
<1>3. d \in Seq(Unit \cup {Blank}) /\ Len(d) = Len(b.data)
  BY <1>1, <1>2
<1>4. /\ \A i \in 1 .. w : d[i] = b.data[i]
      /\ \A i \in 1 .. n : d[w + i] = units[i]
  BY <1>1, <1>2
<1> QED
  BY <1>3, <1>4 DEF w, n, d

(* What is copied behind the write index can be read once the index moves.   *)
LEMMA FilledOK ==
  ASSUME NEW b, BufferOK(b), NEW units \in Seq(Unit), Len(units) <= WriteAble(b)
  PROVE  LET c == [b EXCEPT !.data = CopyTo(b.data, b.writeIdx, units)]
             e == [c EXCEPT !.writeIdx = @ + Len(units)]
         IN  /\ BufferOK(c) /\ BufferOK(e)
             /\ Len(c.data) = Len(b.data) /\ c.writeIdx = b.writeIdx
             /\ e.data = c.data /\ e.readIdx = b.readIdx
             /\ e.writeIdx = b.writeIdx + Len(units)
<1> DEFINE d == CopyTo(b.data, b.writeIdx, units)
<1>1. /\ d \in Seq(Unit \cup {Blank}) /\ Len(d) = Len(b.data)
      /\ \A i \in 1 .. b.writeIdx : d[i] = b.data[i]
      /\ \A i \in 1 .. Len(units) : d[b.writeIdx + i] = units[i]
  BY CopyToOK
<1>2. /\ b.readIdx \in Nat /\ b.writeIdx \in Nat /\ Len(units) \in Nat
      /\ b.readIdx <= b.writeIdx /\ b.writeIdx + Len(units) <= Len(b.data)
      /\ \A i \in 1 .. Len(units) : units[i] \in Unit
      /\ \A i \in b.readIdx + 1 .. b.writeIdx : b.data[i] \in Unit
      /\ b \in Buffer
  BY LenProperties DEF BufferOK, Buffer, WriteAble
<1> HIDE DEF d
<1>3. \A i \in b.readIdx + 1 .. b.writeIdx : d[i] \in Unit
  BY <1>1, <1>2
<1>4. \A i \in b.writeIdx + 1 .. b.writeIdx + Len(units) : d[i] \in Unit
  <2> TAKE i \in b.writeIdx + 1 .. b.writeIdx + Len(units)
  <2>1. i - b.writeIdx \in 1 .. Len(units) /\ b.writeIdx + (i - b.writeIdx) = i
    BY <1>2
  <2> QED
    BY <1>1, <1>2, <2>1
<1> DEFINE c == [b EXCEPT !.data = d]
           e == [c EXCEPT !.writeIdx = @ + Len(units)]
<1>5. /\ c \in Buffer /\ e \in Buffer /\ c.data = d /\ e.data = d
      /\ c.readIdx = b.readIdx /\ e.readIdx = b.readIdx
      /\ c.writeIdx = b.writeIdx /\ e.writeIdx = b.writeIdx + Len(units)
  <2>1. c = [data |-> d, readIdx |-> b.readIdx, writeIdx |-> b.writeIdx]
    BY <1>2 DEF Buffer
  <2> HIDE DEF c
  <2>2. e = [data |-> d, readIdx |-> b.readIdx,
             writeIdx |-> b.writeIdx + Len(units)]
    BY <2>1
  <2>3. b.writeIdx + Len(units) \in Nat
    BY <1>2
  <2> HIDE DEF e
  <2> QED
    BY <1>1, <1>2, <2>1, <2>2, <2>3 DEF Buffer
<1> HIDE DEF c, e
<1>6. BufferOK(c)
  BY <1>1, <1>2, <1>3, <1>5 DEF BufferOK
<1>7. BufferOK(e)
  <2>1. \A i \in e.readIdx + 1 .. e.writeIdx : e.data[i] \in Unit
    BY <1>2, <1>3, <1>4, <1>5
  <2> QED
    BY <1>1, <1>2, <1>5, <2>1 DEF BufferOK
<1> QED
  BY <1>1, <1>5, <1>6, <1>7 DEF c, e, d

(* read() into a buffer with room, then move_write_index: whether or not it  *)
(* takes the bytes there is room left.                                       *)
LEMMA ReceivedOK ==
  ASSUME NEW b, BufferOK(b), WriteAble(b) > 0,
         NEW units \in Seq(Unit), Len(units) <= WriteAble(b)
  PROVE  LET c == [b EXCEPT !.data = CopyTo(b.data, b.writeIdx, units)]
             e == MoveWriteIndex(c, Len(units))
         IN  BufferOK(e) /\ Len(e.data) = Len(b.data) /\ WriteAble(e) > 0
<1> DEFINE c == [b EXCEPT !.data = CopyTo(b.data, b.writeIdx, units)]
           e == [c EXCEPT !.writeIdx = @ + Len(units)]
           m == MoveWriteIndex(c, Len(units))
<1>1. /\ BufferOK(c) /\ BufferOK(e)
      /\ Len(c.data) = Len(b.data) /\ c.writeIdx = b.writeIdx
      /\ e.data = c.data /\ e.writeIdx = b.writeIdx + Len(units)
  BY FilledOK
<1>2. b.writeIdx \in Nat /\ Len(b.data) \in Nat /\ Len(units) \in Nat
  BY LenProperties DEF BufferOK, Buffer
<1>3. m = IF c.writeIdx + Len(units) >= Len(c.data) THEN c ELSE AdjustBuffer(e)
  BY DEF MoveWriteIndex
<1> HIDE DEF c, e, m
<1> SUFFICES BufferOK(m) /\ Len(m.data) = Len(b.data) /\ WriteAble(m) > 0
  BY DEF m, c
<1>4. CASE c.writeIdx + Len(units) >= Len(c.data)
  BY <1>1, <1>2, <1>3, <1>4 DEF WriteAble
<1>5. CASE ~(c.writeIdx + Len(units) >= Len(c.data))
  <2>1. m = AdjustBuffer(e) /\ e.writeIdx < Len(e.data) /\ Len(e.data) = Len(b.data)
    BY <1>1, <1>2, <1>3, <1>5
  <2>2. BufferOK(m) /\ Len(m.data) = Len(b.data) /\ m.writeIdx <= e.writeIdx
    BY <1>1, <2>1, AdjustBufferOK
  <2>3. m.writeIdx \in Nat /\ e.writeIdx \in Nat
    BY <1>1, <2>2 DEF BufferOK, Buffer
  <2> QED
    BY <1>2, <2>1, <2>2, <2>3 DEF WriteAble
<1> QED
  BY <1>4, <1>5

(* write_buffer makes room for everything it is given.                       *)
LEMMA WriteBufferOK ==
  ASSUME NEW b, BufferOK(b), NEW units \in Seq(Unit)
  PROVE  /\ BufferOK(WriteBuffer(b, units))
         /\ ReadAble(WriteBuffer(b, units)) = ReadAble(b) + Len(units)
<1> DEFINE w == b.writeIdx
           n == Len(units)
           size == (3 * (w + n)) \div 2
           c == IF n > WriteAble(b) THEN ResizeBuffer(b, size) ELSE b
<1>1. /\ w \in Nat /\ n \in Nat /\ b.readIdx \in Nat /\ b.readIdx <= w
      /\ w <= Len(b.data) /\ Len(b.data) \in Nat /\ b \in Buffer
  BY LenProperties DEF BufferOK, Buffer
<1>2. size \in Nat /\ w + n <= size /\ ReadAble(b) <= w /\ ReadAble(b) \in Nat
  BY <1>1 DEF ReadAble
<1> HIDE DEF size
<1>3. BufferOK(c) /\ n <= WriteAble(c) /\ ReadAble(c) = ReadAble(b)
  <2>1. CASE n > WriteAble(b)
    <3>1. ~(size < ReadAble(b))
      BY <1>1, <1>2
    <3>2. [b EXCEPT !.writeIdx = IF size < ReadAble(b) THEN b.readIdx + size
                                 ELSE @] = b
      BY <1>1, <3>1 DEF Buffer
    <3>3. c = Moved(b, size)
      BY <2>1, <3>2 DEF ResizeBuffer
    <3> HIDE DEF c
    <3>4. /\ BufferOK(c) /\ Len(c.data) = size /\ ReadAble(c) = ReadAble(b)
          /\ c.writeIdx = ReadAble(b)
      BY <1>1, <1>2, <3>3, MovedOK
    <3> QED
      BY <1>1, <1>2, <3>4 DEF WriteAble
  <2>2. CASE ~(n > WriteAble(b))
    <3>1. c = b
      BY <2>2
    <3>2. WriteAble(b) \in Int
      BY <1>1 DEF WriteAble
    <3> QED
      BY <1>1, <2>2, <3>1, <3>2
  <2> QED
    BY <2>1, <2>2
<1>4. WriteBuffer(b, units) =
        [c EXCEPT !.data = CopyTo(c.data, c.writeIdx, units),
                  !.writeIdx = @ + n]
  BY DEF WriteBuffer, size
<1> HIDE DEF c, n, w
<1> DEFINE f == [c EXCEPT !.data = CopyTo(c.data, c.writeIdx, units)]
           e == [f EXCEPT !.writeIdx = @ + n]
<1>5. /\ BufferOK(e) /\ e.readIdx = c.readIdx /\ e.writeIdx = c.writeIdx + n
  BY <1>3, FilledOK DEF n
<1>6. WriteBuffer(b, units) = e
  BY <1>3, <1>4 DEF BufferOK, Buffer
<1>7. c.readIdx \in Nat /\ c.writeIdx \in Nat
  BY <1>3 DEF BufferOK, Buffer
<1> HIDE DEF e, f
<1> QED
  BY <1>1, <1>3, <1>5, <1>6, <1>7 DEF ReadAble, n

LEMMA BytesOK ==
  ASSUME NEW b, BufferOK(b)
  PROVE  /\ Bytes(b) \in Seq(Unit) /\ Len(Bytes(b)) = ReadAble(b)
         /\ \A n \in 0 .. ReadAble(b) : SubSeq(Bytes(b), 1, n) \in Seq(Unit)
<1>1. /\ b.readIdx \in Nat /\ b.writeIdx \in Nat /\ b.readIdx <= b.writeIdx
      /\ b.writeIdx <= Len(b.data) /\ b.data \in Seq(Unit \cup {Blank})
      /\ \A i \in b.readIdx + 1 .. b.writeIdx : b.data[i] \in Unit
  BY DEF BufferOK, Buffer
<1>2. Bytes(b) = SubSeq(b.data, b.readIdx + 1, b.writeIdx)
  BY DEF Bytes
<1>3. /\ Bytes(b) \in Seq(Unit)
      /\ Len(Bytes(b)) = IF b.readIdx + 1 <= b.writeIdx
                         THEN b.writeIdx - (b.readIdx + 1) + 1 ELSE 0
  BY <1>1, <1>2, SubSeqProperties
<1>4. Len(Bytes(b)) = ReadAble(b) /\ ReadAble(b) \in Nat
  BY <1>1, <1>3 DEF ReadAble
<1>5. \A i \in 1 .. ReadAble(b) : Bytes(b)[i] \in Unit
  BY <1>3, <1>4
<1> QED
  BY <1>3, <1>4, <1>5, SubSeqProperties

-----------------------------------------------------------------------------
(* The units of the model: what the client sends, and a reply.               *)
LEMMA SentUnit ==
  ASSUME NEW p \in 1 .. StreamLen
  PROVE  Sent(p) \in Unit
<1> DEFINE q == (p - 1) \div FrameLen
           m == (p - 1) % FrameLen
<1>1. /\ NumRequests \in Nat /\ FrameLen \in Nat /\ FrameLen >= 3
      /\ ReplyLen \in Nat /\ p \in Nat /\ 1 <= p /\ p <= NumRequests * FrameLen
  BY SizesAssumption DEF StreamLen
<1>2. q \in Nat /\ m \in 0 .. FrameLen - 1 /\ p - 1 = FrameLen * q + m
  BY <1>1
<1>3. q < NumRequests
  <2>1. SUFFICES ASSUME q >= NumRequests PROVE FALSE
    BY <1>1, <1>2
  <2> HIDE DEF q, m
  <2>2. PICK k \in Nat : q = NumRequests + k
    BY <1>1, <1>2, <2>1
  <2>3. FrameLen * q = FrameLen * NumRequests + FrameLen * k /\ FrameLen * k \in Nat
    BY <1>1, <2>2
  <2> QED
    BY <1>1, <1>2, <2>3
<1> HIDE DEF q, m
<1>4. q + 1 \in Requests /\ m + 1 \in 1 .. Max2(FrameLen, ReplyLen)
  BY <1>1, <1>2, <1>3 DEF Requests, Max2
<1> QED
  BY <1>4 DEF Sent, Unit, Calls, q, m

(* Replies that end among units are replies to requests.                     *)
LEMMA EndedOK ==
  ASSUME NEW units \in Seq(Unit)
  PROVE  Ended(units) \in SUBSET Calls
<1>1. \A i \in 1 .. Len(units) : units[i] \in Unit
  OBVIOUS
<1>2. \A u \in Unit : u.req \in Calls
  BY DEF Unit
<1> QED
  BY <1>1, <1>2 DEF Ended

LEMMA ReplyOK ==
  ASSUME NEW r \in Calls
  PROVE  ReplyUnits(r) \in Seq(Unit) /\ Len(ReplyUnits(r)) = ReplyLen
<1>1. \A k \in 1 .. ReplyLen : [req |-> r, pos |-> k] \in Unit
  BY SizesAssumption DEF Unit, Max2
<1> QED
  BY <1>1, SizesAssumption DEF ReplyUnits

-----------------------------------------------------------------------------
(* The steps.  The buffer on_read writes to is the one it has: it has room.  *)
LEMMA TargetIsInBuf ==
  ASSUME IInv
  PROVE  /\ Target = inBuf /\ BufferOK(inBuf) /\ WriteAble(inBuf) > 0
         /\ WriteAble(inBuf) \in Nat /\ Available \in Nat
         /\ Len(inBuf.data) = BufferSize
<1>1. BufferOK(inBuf) /\ WriteAble(inBuf) > 0 /\ Len(inBuf.data) = BufferSize
  BY DEF IInv, TypeOK, InBufferNeverGrows
<1>2. WriteAble(inBuf) \in Nat
  BY <1>1 DEF WriteAble, BufferOK, Buffer
<1>3. Available \in Nat
  BY SizesAssumption DEF IInv, TypeOK, Available, StreamLen
<1> QED
  BY <1>1, <1>2, <1>3 DEF Target

LEMMA ReceiveStep ==
  ASSUME IInv, NEW n \in Nat, n <= Available, n <= WriteAble(inBuf), Receive(n)
  PROVE  /\ BufferOK(inBuf') /\ InBufferNeverGrows'
         /\ taken' \in 0 .. sent /\ dropped' \in BOOLEAN
<1> DEFINE arrived == [i \in 1 .. n |-> Sent(taken + i)]
<1>1. /\ taken \in Nat /\ sent \in Nat /\ taken <= sent /\ sent <= StreamLen
      /\ StreamLen \in Nat
  BY SizesAssumption DEF IInv, TypeOK, StreamLen
<1>2. \A i \in 1 .. n : Sent(taken + i) \in Unit
  BY <1>1, SentUnit DEF Available
<1>3. arrived \in Seq(Unit) /\ Len(arrived) = n
  BY <1>2
<1>4. /\ inBuf' = MoveWriteIndex([inBuf EXCEPT !.data =
                     CopyTo(inBuf.data, inBuf.writeIdx, arrived)], n)
      /\ taken' = taken + n
      /\ dropped' = (dropped \/ inBuf.writeIdx + n >= Len(inBuf.data))
  BY TargetIsInBuf DEF Receive
<1> HIDE DEF arrived
<1>5. BufferOK(inBuf') /\ Len(inBuf'.data) = BufferSize /\ WriteAble(inBuf') > 0
  BY <1>3, <1>4, TargetIsInBuf, ReceivedOK
<1>6. InBufferNeverGrows'
  BY <1>5 DEF InBufferNeverGrows, WriteAble
<1>7. dropped' \in BOOLEAN
  BY <1>4
<1>8. taken' \in 0 .. sent
  BY <1>1, <1>4 DEF Available
<1> QED
  BY <1>5, <1>6, <1>7, <1>8

LEMMA PbLensOK ==
  ASSUME NEW i
  PROVE  PbLens(i) \subseteq Nat
  BY SizesAssumption DEF PbLens

(* The length that is added to the read index does not pass the write index. *)
LEMMA DecodeOneStep ==
  ASSUME IInv, DecodeOne
  PROVE  BufferOK(inBuf') /\ InBufferNeverGrows' /\ result' \in Seq(Calls)
<1>1. PICK i \in Unread, n \in Nat :
        /\ n \in PbLens(i) /\ Found(i, n) /\ inBuf' = MoveReadIndex(inBuf, n)
        /\ \/ result' = result
           \/ \E r \in Calls : result' = Append(result, r)
  BY PbLensOK DEF DecodeOne, Calls
<1>2. /\ BufferOK(inBuf) /\ Len(inBuf.data) = BufferSize
      /\ inBuf.readIdx \in Nat /\ inBuf.writeIdx \in Nat /\ i \in Nat
      /\ inBuf.readIdx <= i /\ i < inBuf.writeIdx /\ BufferSize \in Nat
      /\ result \in Seq(Calls) /\ inBuf.writeIdx < BufferSize
  <2>1. /\ BufferOK(inBuf) /\ Len(inBuf.data) = BufferSize
        /\ WriteAble(inBuf) > 0 /\ BufferSize \in Nat
    BY SizesAssumption, TargetIsInBuf
  <2>2. inBuf.readIdx \in Nat /\ inBuf.writeIdx \in Nat
    BY <2>1 DEF BufferOK, Buffer
  <2>3. inBuf.writeIdx < BufferSize
    BY <2>1, <2>2 DEF WriteAble
  <2>4. i \in Nat /\ inBuf.readIdx <= i /\ i < inBuf.writeIdx
    BY <2>2 DEF Unread
  <2> QED
    BY <2>1, <2>2, <2>3, <2>4 DEF IInv, TypeOK
<1>3. n \in Nat
  BY PbLensOK
<1>4. i + n - 1 < inBuf.writeIdx
  BY <1>1, <1>2, <1>3 DEF Found, IsFrame
<1>5. inBuf.readIdx + n <= inBuf.writeIdx
  BY <1>2, <1>3, <1>4
<1>6. /\ BufferOK(inBuf') /\ Len(inBuf'.data) = BufferSize
      /\ inBuf'.writeIdx <= inBuf.writeIdx
  BY <1>1, <1>2, <1>3, <1>5, MoveReadIndexOK
<1>7. InBufferNeverGrows'
  <2>1. inBuf'.writeIdx \in Nat
    BY <1>6 DEF BufferOK, Buffer
  <2> QED
    BY <1>2, <1>6, <2>1 DEF InBufferNeverGrows, WriteAble
<1>8. result' \in Seq(Calls)
  BY <1>1, <1>2
<1> QED
  BY <1>6, <1>7, <1>8

LEMMA InitIInv == Init => IInv
<1> SUFFICES ASSUME Init PROVE IInv
  OBVIOUS
<1>1. BufferOK(NewBuffer(BufferSize)) /\ Len(NewBuffer(BufferSize).data) = BufferSize
  BY SizesAssumption, NewBufferOK
<1>2. WriteAble(NewBuffer(BufferSize)) = BufferSize
  BY <1>1, SizesAssumption DEF WriteAble, NewBuffer
<1>3. StreamLen \in Nat
  BY SizesAssumption DEF StreamLen
<1>4. TypeOK
  <2>1. BufferOK(inBuf) /\ BufferOK(outBuf)
    BY <1>1 DEF Init
  <2>2. result \in Seq(Calls) /\ replay \in Seq(Calls)
        /\ executed \in Seq(Calls) /\ received \in SUBSET Calls
    BY DEF Init
  <2>3. /\ sent \in 0 .. StreamLen /\ taken \in 0 .. sent
        /\ partial \in 0 .. MaxPartial
    BY <1>3, SizesAssumption DEF Init
  <2> QED
    BY <2>1, <2>2, <2>3 DEF Init, TypeOK
<1>5. InBufferNeverGrows
  BY <1>1, <1>2, SizesAssumption DEF Init, InBufferNeverGrows
<1> QED
  BY <1>4, <1>5 DEF IInv

LEMMA NextIInv ==
  ASSUME IInv, [Next]_vars
  PROVE  IInv'
<1> USE DEF IInv
<1>0. StreamLen \in Nat /\ MaxPartial \in Nat /\ sent \in Nat /\ taken \in Nat
  BY SizesAssumption DEF StreamLen, TypeOK
<1>1. CASE UNCHANGED vars
  BY <1>1 DEF vars, TypeOK, InBufferNeverGrows, BufferOK, Buffer, WriteAble
<1>2. CASE SetConnected
  BY <1>2, <1>0 DEF SetConnected, connVars, clientVars, excVars, writeVars, TypeOK,
     InBufferNeverGrows, BufferOK, Buffer, WriteAble
<1>3. CASE PeerSends
  BY <1>3, <1>0 DEF PeerSends, connVars, clientVars, excVars, writeVars, TypeOK,
     InBufferNeverGrows, BufferOK, Buffer, WriteAble
<1>4. CASE PeerCloses
  BY <1>4, <1>0 DEF PeerCloses, connVars, clientVars, excVars, writeVars, TypeOK,
     InBufferNeverGrows, BufferOK, Buffer, WriteAble
<1>5. CASE OnRead
  BY <1>5, <1>0 DEF OnRead, connVars, clientVars, excVars, writeVars, TypeOK,
     InBufferNeverGrows, BufferOK, Buffer, WriteAble
<1>6. CASE ReadFull
  <2>1. /\ BufferOK(inBuf') /\ InBufferNeverGrows'
        /\ taken' \in 0 .. sent /\ dropped' \in BOOLEAN
    BY <1>6, TargetIsInBuf, ReceiveStep DEF ReadFull
  <2>2. UNCHANGED <<connVars, clientVars, outBuf, phase, excVars, writeVars>>
    BY <1>6 DEF ReadFull
  <2> QED
    BY <2>1, <2>2 DEF connVars, clientVars, excVars, writeVars, TypeOK, BufferOK,
       Buffer
<1>7. CASE ReadShort
  <2>1. /\ BufferOK(inBuf') /\ InBufferNeverGrows'
        /\ taken' \in 0 .. sent /\ dropped' \in BOOLEAN
    BY <1>7, TargetIsInBuf, ReceiveStep DEF ReadShort
  <2>2. /\ UNCHANGED <<connVars, clientVars, outBuf, excVars, writeVars>>
        /\ phase' = "decoding"
    BY <1>7 DEF ReadShort
  <2> QED
    BY <2>1, <2>2 DEF connVars, clientVars, excVars, writeVars, TypeOK, BufferOK,
       Buffer
<1>8. CASE ReadAgain
  BY <1>8, <1>0, TargetIsInBuf DEF ReadAgain, connVars, clientVars, excVars,
     writeVars, TypeOK, InBufferNeverGrows, BufferOK, Buffer, WriteAble
<1>9. CASE ReadEof
  BY <1>9, <1>0, TargetIsInBuf DEF ReadEof, connVars, clientVars, excVars,
     writeVars, TypeOK, InBufferNeverGrows, BufferOK, Buffer, WriteAble
<1>10. CASE DecodeOne
  <2>1. BufferOK(inBuf') /\ InBufferNeverGrows' /\ result' \in Seq(Calls)
    BY <1>10, DecodeOneStep
  <2>2. UNCHANGED <<connVars, clientVars, taken, outBuf, phase, replay, executed,
                    writeVars, dropped>>
    BY <1>10 DEF DecodeOne
  <2> QED
    BY <2>1, <2>2 DEF connVars, clientVars, writeVars, TypeOK, BufferOK, Buffer
<1>11. CASE DecodeEnd
  BY <1>11, <1>0 DEF DecodeEnd, connVars, clientVars, excVars, writeVars, TypeOK,
     InBufferNeverGrows, BufferOK, Buffer, WriteAble
<1>12. CASE Dispatch
  <2>1. Head(result) \in Calls /\ Tail(result) \in Seq(Calls)
    BY <1>12, HeadTailProperties DEF Dispatch, TypeOK
  <2> QED
    BY <1>12, <1>0, <2>1 DEF Dispatch, connVars, clientVars, writeVars, TypeOK,
       InBufferNeverGrows, BufferOK, Buffer, WriteAble
<1>13. CASE Encode
  <2>1. Head(replay) \in Calls /\ Tail(replay) \in Seq(Calls)
    BY <1>13, HeadTailProperties DEF Encode, TypeOK
  <2>2. BufferOK(outBuf')
    BY <1>13, <2>1, ReplyOK, WriteBufferOK DEF Encode, TypeOK
  <2>3. /\ replay' = Tail(replay)
        /\ UNCHANGED <<connVars, clientVars, taken, inBuf, phase, result, executed,
                       writeVars, dropped>>
    BY <1>13 DEF Encode
  <2> QED
    BY <2>1, <2>2, <2>3 DEF connVars, clientVars, writeVars, TypeOK,
       InBufferNeverGrows, BufferOK, Buffer, WriteAble
<1>14. CASE ExcuteEnd
  BY <1>14, <1>0 DEF ExcuteEnd, connVars, clientVars, excVars, writeVars, TypeOK,
     InBufferNeverGrows, BufferOK, Buffer, WriteAble
<1>15. CASE OnWrite
  BY <1>15, <1>0 DEF OnWrite, connVars, clientVars, excVars, writeVars, TypeOK,
     InBufferNeverGrows, BufferOK, Buffer, WriteAble
<1>16. CASE WriteAll
  <2>1. received' \in SUBSET Calls
    BY <1>16, BytesOK, EndedOK DEF WriteAll, TypeOK
  <2>2. /\ outOn' = FALSE /\ phase' = "epoll"
        /\ UNCHANGED <<state, clientVars, taken, inBuf, outBuf, excVars, partial,
                       dropped>>
    BY <1>16 DEF WriteAll
  <2> QED
    BY <2>1, <2>2 DEF clientVars, excVars, TypeOK, InBufferNeverGrows, BufferOK,
       Buffer, WriteAble
<1>17. CASE WritePart
  <2>1. PICK n \in 1 .. ReadAble(outBuf) - 1 :
          received' = received \cup Ended(SubSeq(Bytes(outBuf), 1, n))
    BY <1>17 DEF WritePart
  <2>2. ReadAble(outBuf) \in Int
    BY DEF TypeOK, BufferOK, Buffer, ReadAble
  <2>3. SubSeq(Bytes(outBuf), 1, n) \in Seq(Unit)
    BY <2>2, BytesOK DEF TypeOK
  <2>4. received' \in SUBSET Calls
    BY <2>1, <2>3, EndedOK DEF TypeOK
  <2>5. /\ partial' \in 0 .. MaxPartial
        /\ UNCHANGED <<connVars, clientVars, taken, inBuf, outBuf, phase, excVars,
                       dropped>>
    BY <1>0, <1>17 DEF WritePart, TypeOK
  <2> QED
    BY <2>4, <2>5 DEF connVars, clientVars, excVars, TypeOK, InBufferNeverGrows,
       BufferOK, Buffer, WriteAble
<1>18. CASE WriteAgain
  BY <1>18, <1>0 DEF WriteAgain, connVars, clientVars, excVars, writeVars, TypeOK,
     InBufferNeverGrows, BufferOK, Buffer, WriteAble
<1> QED
  BY <1>1, <1>2, <1>3, <1>4, <1>5, <1>6, <1>7, <1>8, <1>9, <1>10, <1>11, <1>12,
     <1>13, <1>14, <1>15, <1>16, <1>17, <1>18 DEF Next, Read, Excute, Write

(* No read, decode, dispatch or encode leaves a buffer whose indices are out *)
(* of order or whose readable part holds what nobody wrote.                  *)
THEOREM BuffersStayOK == Spec => []TypeOK
<1>1. Spec => []IInv
  BY InitIInv, NextIInv, PTL DEF Spec
<1>2. IInv => TypeOK
  BY DEF IInv
<1> QED
  BY <1>1, <1>2, PTL

(* Whatever the sizes, on_read always finds room in m_in_buffer, so the      *)
(* branch that would make the buffer larger is never taken.                  *)
THEOREM NeverGrows == Spec => []InBufferNeverGrows
<1>1. Spec => []IInv
  BY InitIInv, NextIInv, PTL DEF Spec
<1>2. IInv => InBufferNeverGrows
  BY DEF IInv
<1> QED
  BY <1>1, <1>2, PTL

-----------------------------------------------------------------------------
(* What tcpBuffer's methods do to the units that can be read.                *)
Held(b, i) == b.data[b.readIdx + i]

LEMMA AdjustBufferKeeps ==
  ASSUME NEW b, BufferOK(b)
  PROVE  /\ ReadAble(AdjustBuffer(b)) = ReadAble(b)
         /\ \A i \in 1 .. ReadAble(b) : Held(AdjustBuffer(b), i) = Held(b, i)
<1>1. ReadAble(b) <= Len(b.data) /\ Len(b.data) \in Nat
  BY DEF BufferOK, Buffer, ReadAble
<1>2. CASE b.readIdx < Len(b.data) \div 3
  BY <1>2 DEF AdjustBuffer
<1>3. CASE ~(b.readIdx < Len(b.data) \div 3)
  <2> DEFINE m == Moved(b, Len(b.data))
  <2>1. AdjustBuffer(b) = m
    BY <1>3 DEF AdjustBuffer
  <2>2. /\ ReadAble(m) = ReadAble(b)
        /\ \A i \in 1 .. ReadAble(b) : m.data[i] = b.data[b.readIdx + i]
    BY <1>1, MovedOK
  <2>3. m.readIdx = 0
    BY DEF Moved
  <2> HIDE DEF m
  <2>4. \A i \in 1 .. ReadAble(b) : m.readIdx + i = i
    BY <2>3
  <2> QED
    BY <2>1, <2>2, <2>4 DEF Held
<1> QED
  BY <1>2, <1>3

(* Unless the buffer is full, no move of the read index is refused.          *)
LEMMA MoveReadIndexKeeps ==
  ASSUME NEW b, BufferOK(b), b.writeIdx < Len(b.data),
         NEW n \in Nat, n <= ReadAble(b)
  PROVE  /\ ReadAble(MoveReadIndex(b, n)) = ReadAble(b) - n
         /\ \A i \in 1 .. ReadAble(b) - n :
               Held(MoveReadIndex(b, n), i) = Held(b, n + i)
<1> DEFINE c == [b EXCEPT !.readIdx = @ + n]
<1>1. /\ b \in Buffer /\ b.readIdx \in Nat /\ b.writeIdx \in Nat
      /\ Len(b.data) \in Nat /\ b.readIdx + n <= b.writeIdx
  BY DEF BufferOK, Buffer, ReadAble
<1>2. /\ BufferOK(c) /\ c.data = b.data /\ c.writeIdx = b.writeIdx
      /\ c.readIdx = b.readIdx + n
  BY <1>1 DEF BufferOK, Buffer
<1> HIDE DEF c
<1>3. MoveReadIndex(b, n) = AdjustBuffer(c)
  BY <1>1 DEF MoveReadIndex, c
<1>4. ReadAble(c) = ReadAble(b) - n
  BY <1>1, <1>2 DEF ReadAble
<1>5. \A i \in 1 .. ReadAble(b) - n : c.readIdx + i = b.readIdx + (n + i)
  BY <1>1, <1>2
<1>6. \A i \in 1 .. ReadAble(b) - n : Held(c, i) = Held(b, n + i)
  BY <1>2, <1>5 DEF Held
<1> QED
  BY <1>2, <1>3, <1>4, <1>6, AdjustBufferKeeps

(* What is copied behind the write index comes after what was there.         *)
LEMMA FilledKeeps ==
  ASSUME NEW b, BufferOK(b), NEW units \in Seq(Unit), Len(units) <= WriteAble(b)
  PROVE  LET c == [b EXCEPT !.data = CopyTo(b.data, b.writeIdx, units)]
             e == [c EXCEPT !.writeIdx = @ + Len(units)]
         IN  /\ ReadAble(e) = ReadAble(b) + Len(units)
             /\ \A i \in 1 .. ReadAble(b) : Held(e, i) = Held(b, i)
             /\ \A i \in 1 .. Len(units) : Held(e, ReadAble(b) + i) = units[i]
<1> DEFINE d == CopyTo(b.data, b.writeIdx, units)
           c == [b EXCEPT !.data = d]
           e == [c EXCEPT !.writeIdx = @ + Len(units)]
<1>1. /\ \A i \in 1 .. b.writeIdx : d[i] = b.data[i]
      /\ \A i \in 1 .. Len(units) : d[b.writeIdx + i] = units[i]
  BY CopyToOK
<1>2. /\ b.readIdx \in Nat /\ b.writeIdx \in Nat /\ Len(units) \in Nat
      /\ b.readIdx <= b.writeIdx /\ b \in Buffer
  BY LenProperties DEF BufferOK, Buffer
<1>3. e.data = c.data /\ e.readIdx = b.readIdx
      /\ e.writeIdx = b.writeIdx + Len(units)
  BY FilledOK
<1>4. c.data = d
  BY <1>2 DEF Buffer
<1> HIDE DEF d, c, e
<1>5. ReadAble(e) = ReadAble(b) + Len(units)
  BY <1>2, <1>3 DEF ReadAble
<1>6. \A i \in 1 .. ReadAble(b) : Held(e, i) = Held(b, i)
  <2> TAKE i \in 1 .. ReadAble(b)
  <2>1. b.readIdx + i \in 1 .. b.writeIdx
    BY <1>2 DEF ReadAble
  <2> QED
    BY <1>1, <1>3, <1>4, <2>1 DEF Held
<1>7. \A i \in 1 .. Len(units) : Held(e, ReadAble(b) + i) = units[i]
  <2> TAKE i \in 1 .. Len(units)
  <2>1. b.readIdx + (ReadAble(b) + i) = b.writeIdx + i
    BY <1>2 DEF ReadAble
  <2> QED
    BY <1>1, <1>3, <1>4, <2>1 DEF Held
<1> QED
  BY <1>5, <1>6, <1>7 DEF e, c, d

LEMMA ReceivedKeeps ==
  ASSUME NEW b, BufferOK(b), NEW units \in Seq(Unit),
         b.writeIdx + Len(units) < Len(b.data)
  PROVE  LET c == [b EXCEPT !.data = CopyTo(b.data, b.writeIdx, units)]
             m == MoveWriteIndex(c, Len(units))
         IN  /\ ReadAble(m) = ReadAble(b) + Len(units)
             /\ \A i \in 1 .. ReadAble(b) : Held(m, i) = Held(b, i)
             /\ \A i \in 1 .. Len(units) : Held(m, ReadAble(b) + i) = units[i]
<1> DEFINE c == [b EXCEPT !.data = CopyTo(b.data, b.writeIdx, units)]
           e == [c EXCEPT !.writeIdx = @ + Len(units)]
           m == MoveWriteIndex(c, Len(units))
<1>1. /\ b.writeIdx \in Nat /\ Len(b.data) \in Nat /\ Len(units) \in Nat
      /\ b.readIdx \in Nat /\ b.readIdx <= b.writeIdx
      /\ Len(units) <= WriteAble(b)
  BY LenProperties DEF BufferOK, Buffer, WriteAble
<1>2. /\ ReadAble(e) = ReadAble(b) + Len(units)
      /\ \A i \in 1 .. ReadAble(b) : Held(e, i) = Held(b, i)
      /\ \A i \in 1 .. Len(units) : Held(e, ReadAble(b) + i) = units[i]
  BY <1>1, FilledKeeps
<1>3. BufferOK(e) /\ Len(c.data) = Len(b.data) /\ c.writeIdx = b.writeIdx
  BY <1>1, FilledOK
<1>4. m = IF c.writeIdx + Len(units) >= Len(c.data) THEN c ELSE AdjustBuffer(e)
  BY DEF MoveWriteIndex
<1> HIDE DEF c, e, m
<1>5. m = AdjustBuffer(e)
  BY <1>1, <1>3, <1>4
<1>6. /\ ReadAble(m) = ReadAble(e)
      /\ \A i \in 1 .. ReadAble(e) : Held(m, i) = Held(e, i)
  BY <1>3, <1>5, AdjustBufferKeeps
<1>7. ReadAble(b) \in Nat
  BY <1>1 DEF ReadAble
<1>8. \A i \in 1 .. ReadAble(b) : i \in 1 .. ReadAble(e)
  BY <1>1, <1>2, <1>7
<1>9. \A i \in 1 .. Len(units) : ReadAble(b) + i \in 1 .. ReadAble(e)
  BY <1>1, <1>2, <1>7
<1> QED
  BY <1>2, <1>6, <1>8, <1>9 DEF m, c

LEMMA WriteBufferKeeps ==
  ASSUME NEW b, BufferOK(b), NEW units \in Seq(Unit)
  PROVE  LET e == WriteBuffer(b, units)
         IN  /\ \A i \in 1 .. ReadAble(b) : Held(e, i) = Held(b, i)
             /\ \A i \in 1 .. Len(units) : Held(e, ReadAble(b) + i) = units[i]
<1> DEFINE size == (3 * (b.writeIdx + Len(units))) \div 2
           c == IF Len(units) > WriteAble(b) THEN ResizeBuffer(b, size) ELSE b
<1>1. /\ b.writeIdx \in Nat /\ Len(units) \in Nat /\ b.readIdx \in Nat
      /\ b.readIdx <= b.writeIdx /\ b.writeIdx <= Len(b.data)
      /\ Len(b.data) \in Nat /\ b \in Buffer
  BY LenProperties DEF BufferOK, Buffer
<1>2. /\ size \in Nat /\ b.writeIdx + Len(units) <= size
      /\ ReadAble(b) <= b.writeIdx /\ ReadAble(b) \in Nat
  BY <1>1 DEF ReadAble
<1> HIDE DEF size
<1>3. /\ BufferOK(c) /\ Len(units) <= WriteAble(c) /\ ReadAble(c) = ReadAble(b)
      /\ \A i \in 1 .. ReadAble(b) : Held(c, i) = Held(b, i)
  <2>1. CASE Len(units) > WriteAble(b)
    <3>1. ~(size < ReadAble(b))
      BY <1>1, <1>2
    <3>2. [b EXCEPT !.writeIdx = IF size < ReadAble(b) THEN b.readIdx + size
                                 ELSE @] = b
      BY <1>1, <3>1 DEF Buffer
    <3>3. c = Moved(b, size)
      BY <2>1, <3>2 DEF ResizeBuffer
    <3> HIDE DEF c
    <3>4. c.readIdx = 0
      BY <3>3 DEF Moved
    <3>5. /\ BufferOK(c) /\ Len(c.data) = size /\ ReadAble(c) = ReadAble(b)
          /\ c.writeIdx = ReadAble(b)
          /\ \A i \in 1 .. ReadAble(b) : c.data[i] = b.data[b.readIdx + i]
      BY <1>1, <1>2, <3>3, MovedOK
    <3>6. \A i \in 1 .. ReadAble(b) : c.readIdx + i = i
      BY <3>4
    <3> QED
      BY <1>1, <1>2, <3>5, <3>6 DEF WriteAble, Held
  <2>2. CASE ~(Len(units) > WriteAble(b))
    <3>1. c = b
      BY <2>2
    <3>2. WriteAble(b) \in Int
      BY <1>1 DEF WriteAble
    <3> QED
      BY <1>1, <2>2, <3>1, <3>2
  <2> QED
    BY <2>1, <2>2
<1> DEFINE f == [c EXCEPT !.data = CopyTo(c.data, c.writeIdx, units)]
           e == [f EXCEPT !.writeIdx = @ + Len(units)]
<1>4. WriteBuffer(b, units) =
        [c EXCEPT !.data = CopyTo(c.data, c.writeIdx, units),
                  !.writeIdx = @ + Len(units)]
  BY DEF WriteBuffer, size
<1> HIDE DEF c
<1>5. WriteBuffer(b, units) = e
  BY <1>3, <1>4 DEF BufferOK, Buffer
<1>6. /\ \A i \in 1 .. ReadAble(c) : Held(e, i) = Held(c, i)
      /\ \A i \in 1 .. Len(units) : Held(e, ReadAble(c) + i) = units[i]
  BY <1>3, FilledKeeps
<1> HIDE DEF e, f
<1> QED
  BY <1>3, <1>5, <1>6

LEMMA BytesAreHeld ==
  ASSUME NEW b, BufferOK(b), NEW i \in 1 .. ReadAble(b)
  PROVE  Bytes(b)[i] = Held(b, i)
<1> DEFINE first == b.readIdx + 1
           last  == b.writeIdx
           units == b.data
<1>1. /\ b.readIdx \in Nat /\ first = b.readIdx + 1
      /\ first \in Int /\ last \in Int
      /\ \A k \in first .. last : units[k] \in Unit
      /\ i \in 1 .. last - b.readIdx
  BY DEF BufferOK, Buffer, ReadAble
<1>2. Bytes(b) = SubSeq(units, first, last)
  BY DEF Bytes
<1> HIDE DEF first, last
<1>3. i \in 1 .. last - first + 1 /\ first + i - 1 = b.readIdx + i
  BY <1>1
<1>4. \A k \in 1 .. last - first + 1 :
         SubSeq(units, first, last)[k] = units[first + k - 1]
  <2> HIDE DEF units
  <2> QED
    BY <1>1, SubSeqProperties
<1> QED
  BY <1>2, <1>3, <1>4 DEF Held

-----------------------------------------------------------------------------
(* Division: where a unit of a stream of frames, or of replies, belongs.     *)
LEMMA DivMod ==
  ASSUME NEW d \in Nat \ {0}, NEW q \in Nat, NEW m \in 0 .. d - 1
  PROVE  (d * q + m) \div d = q /\ (d * q + m) % d = m
<1> DEFINE p == d * q + m
           u == p \div d
           v == p % d
<1>1. p \in Nat /\ d * q \in Nat
  OBVIOUS
<1>2. u \in Nat /\ v \in 0 .. d - 1 /\ p = d * u + v
  <2> HIDE DEF p
  <2> QED
    BY <1>1
<1> HIDE DEF u, v
<1>3. u = q
  <2>1. CASE u < q
    <3>1. PICK k \in Nat : q = u + 1 + k
      BY <1>2, <2>1
    <3>2. d * q = d * u + d + d * k /\ d * k \in Nat /\ d * u \in Nat
      BY <1>2, <3>1
    <3> QED
      BY <1>2, <3>2
  <2>2. CASE q < u
    <3>1. PICK k \in Nat : u = q + 1 + k
      BY <1>2, <2>2
    <3>2. d * u = d * q + d + d * k /\ d * k \in Nat
      BY <3>1
    <3> QED
      BY <1>1, <1>2, <3>2
  <2> QED
    BY <1>2, <2>1, <2>2
<1>4. v = m
  BY <1>1, <1>2, <1>3
<1> QED
  BY <1>3, <1>4 DEF u, v

LEMMA DivBound ==
  ASSUME NEW d \in Nat \ {0}, NEW n \in Nat, NEW i \in 1 .. d * n
  PROVE  /\ (i - 1) \div d + 1 \in 1 .. n
         /\ ((i - 1) % d) + 1 \in 1 .. d
<1> DEFINE q == (i - 1) \div d
           m == (i - 1) % d
<1>1. d * n \in Nat /\ i \in Nat /\ 1 <= i /\ i <= d * n
  OBVIOUS
<1>2. q \in Nat /\ m \in 0 .. d - 1 /\ i - 1 = d * q + m
  BY <1>1
<1> HIDE DEF q, m
<1>3. q < n
  <2>1. SUFFICES ASSUME q >= n PROVE FALSE
    BY <1>2
  <2>2. PICK k \in Nat : q = n + k
    BY <1>2, <2>1
  <2>3. d * q = d * n + d * k /\ d * k \in Nat
    BY <2>2
  <2> QED
    BY <1>1, <1>2, <2>3
<1>4. q + 1 \in 1 .. n /\ m + 1 \in 1 .. d
  BY <1>2, <1>3
<1> QED
  BY <1>4 DEF q, m

LEMMA SentIs ==
  ASSUME NEW n \in Nat, NEW k \in 1 .. FrameLen
  PROVE  Sent(FrameLen * n + k) = [req |-> n + 1, pos |-> k]
<1>1. FrameLen \in Nat \ {0} /\ k - 1 \in 0 .. FrameLen - 1 /\ k \in Nat
  BY SizesAssumption
<1>2. FrameLen * n \in Nat
  BY <1>1
<1> DEFINE p == FrameLen * n + k
<1>3. p - 1 = FrameLen * n + (k - 1)
  BY <1>1, <1>2
<1>4. /\ (FrameLen * n + (k - 1)) \div FrameLen = n
      /\ (FrameLen * n + (k - 1)) % FrameLen = k - 1
  BY <1>1, DivMod
<1>5. k - 1 + 1 = k
  BY <1>1
<1> HIDE DEF p
<1>6. Sent(p) = [req |-> n + 1, pos |-> k]
  BY <1>3, <1>4, <1>5 DEF Sent
<1> QED
  BY <1>6 DEF p

-----------------------------------------------------------------------------
(* The stream.  While no read has filled the buffer, what is taken from the  *)
(* client is the requests decoded and then, unbroken, what m_in_buffer holds.*)
Decoded == Len(executed) + Len(result)

StreamInv ==
    ~dropped =>
        /\ taken = FrameLen * Decoded + ReadAble(inBuf)
        /\ \A k \in 1 .. ReadAble(inBuf) :
              Held(inBuf, k) = Sent(FrameLen * Decoded + k)
        /\ \A i \in 1 .. Len(executed) : executed[i] = i
        /\ \A i \in 1 .. Len(result) : result[i] = Len(executed) + i

(* Requests wait to be dispatched only while excute runs, and decode stops   *)
(* when less than a frame is left.                                           *)
PhaseInv ==
    /\ phase \notin {"decoding", "dispatching"} => result = <<>>
    /\ ~dropped /\ \/ phase \in {"dispatching", "writing"}
                   \/ phase = "epoll" /\ state # "closed"
          => ReadAble(inBuf) < FrameLen

StreamIInv == IInv /\ StreamInv /\ PhaseInv

LEMMA SizesOK ==
  ASSUME IInv
  PROVE  /\ FrameLen \in Nat \ {0} /\ FrameLen >= 3 /\ ReplyLen \in Nat \ {0}
         /\ BufferOK(inBuf) /\ BufferOK(outBuf)
         /\ inBuf.readIdx \in Nat /\ inBuf.writeIdx \in Nat
         /\ ReadAble(inBuf) \in Nat /\ ReadAble(outBuf) \in Nat
         /\ ReadAble(inBuf) = inBuf.writeIdx - inBuf.readIdx
         /\ inBuf.writeIdx < Len(inBuf.data)
         /\ Len(executed) \in Nat /\ Len(result) \in Nat /\ Decoded \in Nat
         /\ Len(replay) \in Nat
         /\ taken \in Nat
<1>1. BufferOK(inBuf) /\ BufferOK(outBuf) /\ WriteAble(inBuf) > 0
  BY DEF IInv, TypeOK, InBufferNeverGrows
<1>2. /\ inBuf.readIdx \in Nat /\ inBuf.writeIdx \in Nat
      /\ ReadAble(inBuf) \in Nat /\ ReadAble(outBuf) \in Nat
      /\ ReadAble(inBuf) = inBuf.writeIdx - inBuf.readIdx
      /\ inBuf.writeIdx < Len(inBuf.data)
  BY <1>1 DEF BufferOK, Buffer, ReadAble, WriteAble
<1>3. /\ Len(executed) \in Nat /\ Len(result) \in Nat /\ Decoded \in Nat
      /\ Len(replay) \in Nat
  BY DEF IInv, TypeOK, Decoded
<1>4. taken \in Nat
  BY SizesAssumption DEF IInv, TypeOK, StreamLen
<1> QED
  BY <1>1, <1>2, <1>3, <1>4, SizesAssumption

(* A read that leaves room puts the client's next units after the others.    *)
LEMMA ReceiveStream ==
  ASSUME IInv, StreamInv, NEW n \in Nat, n <= Available, n <= WriteAble(inBuf),
         Receive(n), UNCHANGED <<executed, result>>
  PROVE  StreamInv'
<1> DEFINE arrived == [i \in 1 .. n |-> Sent(taken + i)]
           held    == ReadAble(inBuf)
<1> SUFFICES ASSUME ~dropped'
             PROVE  /\ taken' = FrameLen * Decoded + ReadAble(inBuf')
                    /\ \A k \in 1 .. ReadAble(inBuf') :
                          Held(inBuf', k) = Sent(FrameLen * Decoded + k)
                    /\ \A i \in 1 .. Len(executed) : executed[i] = i
                    /\ \A i \in 1 .. Len(result) : result[i] = Len(executed) + i
  BY DEF StreamInv, Decoded, ReadAble, Held
<1>1. /\ inBuf' = MoveWriteIndex([inBuf EXCEPT !.data =
                     CopyTo(inBuf.data, inBuf.writeIdx, arrived)], n)
      /\ taken' = taken + n
      /\ dropped' = (dropped \/ inBuf.writeIdx + n >= Len(inBuf.data))
  BY TargetIsInBuf DEF Receive
<1>2. /\ taken \in Nat /\ sent \in Nat /\ taken + n <= sent
      /\ sent <= StreamLen /\ StreamLen \in Nat
  BY SizesAssumption DEF IInv, TypeOK, StreamLen, Available
<1>3. \A i \in 1 .. n : Sent(taken + i) \in Unit
  BY <1>2, SentUnit
<1>4. /\ arrived \in Seq(Unit) /\ Len(arrived) = n
      /\ \A i \in 1 .. n : arrived[i] = Sent(taken + i)
  BY <1>3
<1> HIDE DEF arrived, held
<1>5. ~dropped /\ inBuf.writeIdx + n < Len(inBuf.data)
  <2>1. ~dropped /\ ~(inBuf.writeIdx + n >= Len(inBuf.data))
    BY <1>1
  <2>2. inBuf.writeIdx \in Nat /\ Len(inBuf.data) \in Nat
    BY DEF IInv, TypeOK, BufferOK, Buffer
  <2> QED
    BY <2>1, <2>2
<1>6. /\ ReadAble(inBuf') = held + n
      /\ \A i \in 1 .. held : Held(inBuf', i) = Held(inBuf, i)
      /\ \A i \in 1 .. n : Held(inBuf', held + i) = arrived[i]
  BY <1>1, <1>4, <1>5, SizesOK, ReceivedKeeps DEF held
<1>7. /\ held \in Nat /\ FrameLen * Decoded \in Nat
      /\ taken = FrameLen * Decoded + held
      /\ \A k \in 1 .. held : Held(inBuf, k) = Sent(FrameLen * Decoded + k)
  BY <1>5, SizesOK DEF StreamInv, held
<1>8. \A k \in 1 .. ReadAble(inBuf') :
         Held(inBuf', k) = Sent(FrameLen * Decoded + k)
  <2> TAKE k \in 1 .. ReadAble(inBuf')
  <2>1. CASE k <= held
    <3>1. k \in 1 .. held
      BY <1>6, <1>7, <2>1
    <3> QED
      BY <1>6, <1>7, <3>1
  <2>2. CASE ~(k <= held)
    <3>1. /\ k - held \in 1 .. n /\ held + (k - held) = k
          /\ taken + (k - held) = FrameLen * Decoded + k
      BY <1>6, <1>7, <2>2
    <3> QED
      BY <1>4, <1>6, <3>1
  <2> QED
    BY <2>1, <2>2
<1>9. taken' = FrameLen * Decoded + ReadAble(inBuf')
  BY <1>1, <1>6, <1>7
<1> QED
  BY <1>5, <1>8, <1>9 DEF StreamInv

(* The frame of the request after those decoded is at the read index.        *)
LEMMA NextFrame ==
  ASSUME IInv, StreamInv, ~dropped
  PROVE  \A i \in Unread :
            /\ At(i) = Sent(FrameLen * Decoded + (i - inBuf.readIdx + 1))
            /\ i < inBuf.readIdx + FrameLen =>
                  At(i) = [req |-> Decoded + 1, pos |-> i - inBuf.readIdx + 1]
<1> TAKE i \in Unread
<1> DEFINE k == i - inBuf.readIdx + 1
<1>1. /\ i \in Int /\ k \in 1 .. ReadAble(inBuf) /\ inBuf.readIdx + k = i + 1
  <2>1. /\ inBuf.readIdx \in Nat /\ inBuf.writeIdx \in Nat
        /\ ReadAble(inBuf) = inBuf.writeIdx - inBuf.readIdx
    BY SizesOK
  <2> QED
    BY <2>1 DEF Unread
<1> HIDE DEF k
<1>2. At(i) = Sent(FrameLen * Decoded + k)
  BY <1>1 DEF At, Held, StreamInv
<1>3. ASSUME i < inBuf.readIdx + FrameLen
      PROVE  At(i) = [req |-> Decoded + 1, pos |-> k]
  <2>1. k \in 1 .. FrameLen
    BY <1>1, <1>3, SizesOK
  <2> QED
    BY <1>2, <2>1, SizesOK, SentIs
<1> QED
  BY <1>2, <1>3 DEF k

(* Decode finds it there when all of it has arrived.                         *)
LEMMA FirstFrame ==
  ASSUME IInv, StreamInv, ~dropped, FrameLen <= ReadAble(inBuf)
  PROVE  LET first == inBuf.readIdx
         IN  /\ first \in Unread /\ ~PassedOver(first)
             /\ PbLens(first) = {FrameLen}
             /\ HasBodyOf(first, FrameLen, Decoded + 1)
<1> DEFINE first == inBuf.readIdx
           last  == inBuf.writeIdx
<1>1. \A i \in Unread : i < first + FrameLen =>
         At(i) = [req |-> Decoded + 1, pos |-> i - first + 1]
  BY NextFrame
<1>2. /\ first \in Nat /\ last \in Nat /\ FrameLen \in Nat
      /\ LengthBytes \in Nat \ {0} /\ FrameLen >= LengthBytes + 3
      /\ ReadAble(inBuf) = last - first /\ first + FrameLen <= last
      /\ last < Len(inBuf.data) /\ Len(inBuf.data) \in Nat
  <2>1. Len(inBuf.data) \in Nat
    BY SizesOK DEF BufferOK, Buffer
  <2> QED
    BY <2>1, SizesOK, SizesAssumption
<1>3. \A i : i \in Unread <=> i \in first .. last - 1
  BY DEF Unread
<1> HIDE DEF first, last
<1>4. ASSUME NEW i \in Int, NEW k \in 1 .. FrameLen, i = first + k - 1
      PROVE  i \in Unread /\ At(i) = [req |-> Decoded + 1, pos |-> k]
  <2>1. i \in first .. last - 1 /\ i < first + FrameLen /\ i - first + 1 = k
    BY <1>2, <1>4
  <2> QED
    BY <1>1, <1>3, <2>1
<1>5. ASSUME NEW k \in 1 .. LengthBytes
      PROVE  At(first + k) = [req |-> Decoded + 1, pos |-> k + 1]
  <2>1. k + 1 \in 1 .. FrameLen /\ first + k = first + (k + 1) - 1
        /\ first + k \in Int
    BY <1>2
  <2> DEFINE j == first + k
             m == k + 1
  <2>2. m \in 1 .. FrameLen /\ j = first + m - 1 /\ j \in Int
    BY <2>1
  <2> HIDE DEF j, m
  <2>3. At(j) = [req |-> Decoded + 1, pos |-> m]
    BY <1>4, <2>2
  <2> QED
    BY <2>3 DEF j, m
<1>6. \A k \in 1 .. LengthBytes - 1 : ZeroByte(first + k)
  <2> TAKE k \in 1 .. LengthBytes - 1
  <2>1. k \in 1 .. LengthBytes /\ k + 1 \in 2 .. LengthBytes
    BY <1>2
  <2>2. At(first + k) = [req |-> Decoded + 1, pos |-> k + 1]
    BY <1>5, <2>1
  <2>3. At(first + k).pos = k + 1
    BY <2>2
  <2> QED
    BY <2>1, <2>3 DEF ZeroByte
<1>7. LengthByte(first + LengthBytes)
  <2>1. LengthBytes \in 1 .. LengthBytes
    BY <1>2
  <2>2. At(first + LengthBytes) = [req |-> Decoded + 1, pos |-> LengthBytes + 1]
    BY <1>5, <2>1
  <2>3. At(first + LengthBytes).pos = LengthBytes + 1
    BY <2>2
  <2> QED
    BY <2>3 DEF LengthByte
<1>8. PbLens(first) = {FrameLen}
  <2>1. ~(first + LengthBytes >= Len(inBuf.data))
    BY <1>2
  <2> QED
    BY <1>6, <1>7, <2>1 DEF PbLens
<1>9. IsFrame(first, FrameLen)
  <2> DEFINE end == first + FrameLen - 1
  <2>1. /\ first + 1 < last /\ end \in 0 .. last - 1 /\ end \in Int
        /\ FrameLen \in 1 .. FrameLen /\ 1 \in 1 .. FrameLen
        /\ first = first + 1 - 1 /\ first \in Int
    BY <1>2
  <2>2. At(first).pos = 1
    BY <1>4, <2>1
  <2>3. At(end).pos = FrameLen
    <3>1. end = first + FrameLen - 1
      OBVIOUS
    <3> HIDE DEF end
    <3>2. At(end) = [req |-> Decoded + 1, pos |-> FrameLen]
      BY <1>4, <2>1, <3>1
    <3> QED
      BY <3>2
  <2> QED
    BY <2>1, <2>2, <2>3 DEF IsFrame, last
<1>10. first \in Unread
  BY <1>2, <1>3
<1>11. HasBodyOf(first, FrameLen, Decoded + 1)
  <2> SUFFICES ASSUME NEW k \in LengthBytes + 2 .. FrameLen - 1
               PROVE  At(first + k - 1) = [req |-> Decoded + 1, pos |-> k]
    BY DEF HasBodyOf
  <2> DEFINE j == first + k - 1
  <2>1. k \in 1 .. FrameLen /\ j \in Int /\ j = first + k - 1
    BY <1>2
  <2> HIDE DEF j
  <2>2. At(j) = [req |-> Decoded + 1, pos |-> k]
    BY <1>4, <2>1
  <2> QED
    BY <2>2 DEF j
<1> QED
  BY <1>8, <1>9, <1>10, <1>11 DEF PassedOver, first

(* Before that, the only frame decode can find has the length 0: any other   *)
(* ends inside the first request, whose end byte is not there.               *)
LEMMA PartialFrame ==
  ASSUME IInv, StreamInv, ~dropped, ReadAble(inBuf) < FrameLen,
         NEW i, NEW n \in PbLens(i), Found(i, n)
  PROVE  n = 0
<1> DEFINE first == inBuf.readIdx
           last  == inBuf.writeIdx
<1>1. /\ first \in Nat /\ last \in Nat /\ FrameLen \in Nat
      /\ ReadAble(inBuf) = last - first /\ n \in Nat
  BY SizesOK, PbLensOK
<1>2. \A j : j \in Unread <=> j \in first .. last - 1
  BY DEF Unread
<1>3. /\ i \in Unread /\ At(i).pos = 1
      /\ i + n - 1 \in 0 .. last - 1 /\ At(i + n - 1).pos = FrameLen
  BY DEF Found, IsFrame
<1>4. ASSUME NEW j \in Unread
      PROVE  At(j).pos = j - first + 1 /\ j \in first .. last - 1
  <2>1. j \in first .. last - 1 /\ j < first + FrameLen
    BY <1>1, <1>2
  <2>2. At(j) = [req |-> Decoded + 1, pos |-> j - first + 1]
    BY <2>1, NextFrame
  <2> QED
    BY <2>1, <2>2
<1> HIDE DEF first, last
<1>5. i = first
  <2>1. At(i).pos = i - first + 1 /\ i \in Int
    BY <1>1, <1>3, <1>4
  <2> QED
    BY <1>1, <1>3, <2>1
<1> SUFFICES ASSUME n # 0 PROVE FALSE
  OBVIOUS
<1> DEFINE end == i + n - 1
<1>6. end \in Unread
  <2>1. end \in first .. last - 1
    BY <1>1, <1>3, <1>5
  <2> QED
    BY <1>2, <2>1
<1>7. At(end).pos = end - first + 1 /\ end \in first .. last - 1
  BY <1>4, <1>6
<1>8. At(end).pos = FrameLen
  BY <1>3
<1> QED
  BY <1>1, <1>7, <1>8

(* A length partly there: decode takes nothing.                              *)
LEMMA DecodeNoneStream ==
  ASSUME IInv, StreamInv, DecodeOne, ~(FrameLen <= ReadAble(inBuf))
  PROVE  StreamInv'
<1>1. UNCHANGED <<taken, executed, dropped>>
  BY DEF DecodeOne, writeVars
<1> SUFFICES ASSUME ~dropped PROVE StreamInv'
  BY <1>1 DEF StreamInv
<1>2. PICK i \in Unread, n \in Nat :
        /\ n \in PbLens(i) /\ Found(i, n) /\ inBuf' = MoveReadIndex(inBuf, n)
        /\ \/ UNCHANGED result
           \/ \E r \in Requests : HasBodyOf(i, n, r)
           \/ ~TooShort(n)
  BY PbLensOK DEF DecodeOne
<1>3. ReadAble(inBuf) < FrameLen /\ ReadAble(inBuf) \in Nat
  BY SizesOK
<1>4. n = 0
  BY <1>2, <1>3, PartialFrame
<1>5. TooShort(n) /\ \A r \in Requests : ~HasBodyOf(i, n, r)
  BY <1>4, SizesAssumption DEF TooShort, HasBodyOf
<1>6. UNCHANGED result
  BY <1>2, <1>5
<1>7. /\ ReadAble(inBuf') = ReadAble(inBuf) - 0
      /\ \A k \in 1 .. ReadAble(inBuf) - 0 :
            Held(inBuf', k) = Held(inBuf, 0 + k)
  BY <1>2, <1>3, <1>4, SizesOK, MoveReadIndexKeeps
<1>8. /\ ReadAble(inBuf') = ReadAble(inBuf)
      /\ \A k \in 1 .. ReadAble(inBuf) : Held(inBuf', k) = Held(inBuf, k)
  BY <1>3, <1>7
<1> QED
  BY <1>1, <1>6, <1>8 DEF StreamInv, Decoded

LEMMA FirstIsRequest ==
  ASSUME IInv, StreamInv, ~dropped, FrameLen <= ReadAble(inBuf)
  PROVE  Decoded + 1 \in Requests
<1> DEFINE done == Decoded
           held == ReadAble(inBuf)
<1>1. /\ taken = FrameLen * done + held /\ held \in Nat /\ done \in Nat
      /\ FrameLen \in Nat \ {0} /\ FrameLen <= held
  BY SizesOK DEF StreamInv
<1>2. taken <= NumRequests * FrameLen /\ NumRequests \in Nat /\ taken \in Nat
  BY SizesAssumption, SizesOK DEF IInv, TypeOK, StreamLen
<1> HIDE DEF done, held
<1>3. SUFFICES ASSUME NumRequests < done + 1 PROVE FALSE
  BY <1>1, <1>2 DEF Requests, done
<1>4. PICK k \in Nat : done = NumRequests + k
  BY <1>1, <1>2, <1>3
<1>5. FrameLen * done = FrameLen * NumRequests + FrameLen * k /\ FrameLen * k \in Nat
  BY <1>1, <1>2, <1>4
<1> QED
  BY <1>1, <1>2, <1>5

(* A frame that is all there: decode takes that request, and what it leaves  *)
(* comes after it.                                                           *)
LEMMA DecodeOneStream ==
  ASSUME IInv, StreamInv, DecodeOne, FrameLen <= ReadAble(inBuf)
  PROVE  StreamInv'
<1> DEFINE held == ReadAble(inBuf)
           done == Decoded
<1>1. UNCHANGED <<taken, executed, dropped>>
  BY DEF DecodeOne, writeVars
<1> SUFFICES ASSUME ~dropped
             PROVE  /\ taken = FrameLen * (Len(executed) + Len(result'))
                                  + ReadAble(inBuf')
                    /\ \A k \in 1 .. ReadAble(inBuf') : Held(inBuf', k) =
                          Sent(FrameLen * (Len(executed) + Len(result')) + k)
                    /\ \A i \in 1 .. Len(executed) : executed[i] = i
                    /\ \A i \in 1 .. Len(result') : result'[i] = Len(executed) + i
  BY <1>1 DEF StreamInv, Decoded, ReadAble, Held
<1>2. PICK i \in Unread, n \in Nat :
        /\ n \in PbLens(i) /\ Found(i, n) /\ inBuf' = MoveReadIndex(inBuf, n)
        /\ \/ TooShort(n) /\ UNCHANGED result
           \/ \E r \in Requests : HasBodyOf(i, n, r) /\ result' = Append(result, r)
           \/ ~TooShort(n) /\ \A r \in Requests : ~HasBodyOf(i, n, r)
  BY PbLensOK DEF DecodeOne
<1>3. n = FrameLen /\ HasBodyOf(i, n, done + 1)
  <2> DEFINE first == inBuf.readIdx
  <2>1. /\ first \in Unread /\ ~PassedOver(first) /\ PbLens(first) = {FrameLen}
        /\ HasBodyOf(first, FrameLen, done + 1)
    BY FirstFrame
  <2>2. i = first
    <3>1. ~(first < i)
      BY <1>2, <2>1 DEF Found
    <3>2. first \in Nat /\ i \in Int /\ first <= i
      BY SizesOK DEF Unread
    <3> QED
      BY <3>1, <3>2
  <2> HIDE DEF first
  <2> QED
    BY <1>2, <2>1, <2>2
<1>4. /\ inBuf' = MoveReadIndex(inBuf, FrameLen)
      /\ result' = Append(result, done + 1)
  <2>1. ~TooShort(FrameLen)
    BY SizesAssumption DEF TooShort
  <2>2. ASSUME NEW r \in Requests, HasBodyOf(i, FrameLen, r)
        PROVE  r = done + 1
    <3> DEFINE k == LengthBytes + 2
    <3>1. k \in LengthBytes + 2 .. FrameLen - 1
      BY SizesAssumption
    <3> HIDE DEF k
    <3>2. /\ At(i + k - 1) = [req |-> r, pos |-> k]
          /\ At(i + k - 1) = [req |-> done + 1, pos |-> k]
      BY <1>3, <2>2, <3>1 DEF HasBodyOf
    <3>3. At(i + k - 1).req = r /\ At(i + k - 1).req = done + 1
      BY <3>2
    <3> QED
      BY <3>3
  <2>3. done + 1 \in Requests
    BY FirstIsRequest
  <2>4. \E r \in Requests : HasBodyOf(i, n, r) /\ result' = Append(result, r)
    BY <1>2, <1>3, <2>1, <2>3
  <2>5. PICK r \in Requests : HasBodyOf(i, n, r) /\ result' = Append(result, r)
    BY <2>4
  <2>6. r = done + 1
    BY <1>3, <2>2, <2>5
  <2> QED
    BY <1>2, <1>3, <2>5, <2>6
<1>5. /\ FrameLen \in Nat /\ held \in Nat
      /\ Len(executed) \in Nat /\ Len(result) \in Nat
      /\ done = Len(executed) + Len(result)
  BY SizesOK DEF Decoded
<1>6. /\ taken = FrameLen * done + held
      /\ \A k \in 1 .. held : Held(inBuf, k) = Sent(FrameLen * done + k)
      /\ \A k \in 1 .. Len(executed) : executed[k] = k
      /\ \A k \in 1 .. Len(result) : result[k] = Len(executed) + k
  BY DEF StreamInv
<1>7. /\ ReadAble(inBuf') = held - FrameLen
      /\ \A k \in 1 .. held - FrameLen :
            Held(inBuf', k) = Held(inBuf, FrameLen + k)
  BY <1>4, SizesOK, MoveReadIndexKeeps
<1> HIDE DEF held, done
<1>8. /\ Len(result') = Len(result) + 1
      /\ \A k \in 1 .. Len(result') : result'[k] = Len(executed) + k
  <2>1. result \in Seq(Calls)
    BY DEF IInv, TypeOK
  <2> QED
    BY <1>4, <1>5, <1>6, <2>1
<1> DEFINE base == FrameLen * done
           next == FrameLen * (Len(executed) + Len(result'))
<1>9. next = base + FrameLen /\ base \in Nat
  BY <1>5, <1>8
<1> HIDE DEF base, next
<1>10. taken = next + ReadAble(inBuf')
  <2>1. taken = base + held
    BY <1>6 DEF base
  <2> QED
    BY <1>5, <1>7, <1>9, <2>1
<1>11. ASSUME NEW k \in 1 .. ReadAble(inBuf')
       PROVE  Held(inBuf', k) = Sent(next + k)
  <2>1. /\ k \in 1 .. held - FrameLen /\ FrameLen + k \in 1 .. held
        /\ base + (FrameLen + k) = next + k
    BY <1>3, <1>5, <1>7, <1>9
  <2>2. Held(inBuf, FrameLen + k) = Sent(base + (FrameLen + k))
    BY <1>6, <2>1 DEF base
  <2> QED
    BY <1>7, <2>1, <2>2
<1> QED
  BY <1>6, <1>8, <1>10, <1>11 DEF next

LEMMA DispatchStream ==
  ASSUME IInv, StreamInv, Dispatch
  PROVE  StreamInv'
<1>1. /\ UNCHANGED <<taken, inBuf, dropped>> /\ result # <<>>
      /\ result' = Tail(result) /\ executed' = Append(executed, Head(result))
  BY DEF Dispatch
<1>2. result \in Seq(Calls) /\ executed \in Seq(Calls)
  BY DEF IInv, TypeOK
<1>3. /\ Len(executed') = Len(executed) + 1 /\ Len(result') = Len(result) - 1
      /\ Len(result) \in Nat \ {0} /\ Len(executed) \in Nat
      /\ \A i \in 1 .. Len(executed) : executed'[i] = executed[i]
      /\ executed'[Len(executed) + 1] = result[1]
      /\ \A i \in 1 .. Len(result') : result'[i] = result[i + 1]
  BY <1>1, <1>2
<1>4. Decoded' = Decoded
  BY <1>3 DEF Decoded
<1> SUFFICES ASSUME ~dropped
             PROVE  /\ \A i \in 1 .. Len(executed') : executed'[i] = i
                    /\ \A i \in 1 .. Len(result') :
                          result'[i] = Len(executed') + i
  BY <1>1, <1>4 DEF StreamInv, ReadAble, Held
<1>5. /\ \A i \in 1 .. Len(executed) : executed[i] = i
      /\ \A i \in 1 .. Len(result) : result[i] = Len(executed) + i
  BY DEF StreamInv
<1>6. result[1] = Len(executed) + 1
  BY <1>3, <1>5
<1>7. ASSUME NEW i \in 1 .. Len(executed')
      PROVE  executed'[i] = i
  <2>1. i \in 1 .. Len(executed) \/ i = Len(executed) + 1
    BY <1>3
  <2> QED
    BY <1>3, <1>5, <1>6, <2>1
<1>8. ASSUME NEW i \in 1 .. Len(result')
      PROVE  result'[i] = Len(executed') + i
  <2>1. /\ i + 1 \in 1 .. Len(result)
        /\ Len(executed) + (i + 1) = Len(executed') + i
    BY <1>3
  <2> QED
    BY <1>3, <1>5, <2>1
<1> QED
  BY <1>7, <1>8

LEMMA InitStream == Init => StreamIInv
<1> SUFFICES ASSUME Init PROVE StreamIInv
  OBVIOUS
<1>1. IInv
  BY InitIInv
<1>2. /\ taken = 0 /\ executed = <<>> /\ result = <<>> /\ phase = "epoll"
      /\ inBuf.readIdx = 0 /\ inBuf.writeIdx = 0
  BY DEF Init, NewBuffer
<1>3. Decoded = 0 /\ ReadAble(inBuf) = 0
  BY <1>2 DEF Decoded, ReadAble
<1>4. StreamInv
  BY <1>2, <1>3, SizesAssumption DEF StreamInv
<1>5. PhaseInv
  BY <1>2, <1>3, SizesAssumption DEF PhaseInv
<1> QED
  BY <1>1, <1>4, <1>5 DEF StreamIInv

LEMMA NextStream ==
  ASSUME StreamIInv, [Next]_vars
  PROVE  StreamIInv'
<1> USE DEF StreamIInv
<1>1. IInv'
  BY NextIInv
<1>2. ASSUME UNCHANGED <<taken, inBuf, result, executed, dropped>>
      PROVE  StreamInv'
  BY <1>2 DEF StreamInv, Decoded, ReadAble, Held
<1>3. CASE UNCHANGED vars
  BY <1>1, <1>2, <1>3 DEF vars, PhaseInv, ReadAble
<1>4. CASE SetConnected
  BY <1>1, <1>2, <1>4
     DEF SetConnected, clientVars, excVars, writeVars, PhaseInv, ReadAble
<1>5. CASE PeerSends \/ PeerCloses
  BY <1>1, <1>2, <1>5
     DEF PeerSends, PeerCloses, connVars, excVars, writeVars, PhaseInv, ReadAble
<1>6. CASE OnRead \/ OnWrite
  BY <1>1, <1>2, <1>6
     DEF OnRead, OnWrite, connVars, clientVars, excVars, writeVars, PhaseInv,
         ReadAble
<1>7. CASE ReadFull \/ ReadShort
  <2>1. PICK n \in Nat : n <= Available /\ n <= WriteAble(inBuf) /\ Receive(n)
    BY <1>7, TargetIsInBuf DEF ReadFull, ReadShort
  <2>2. /\ UNCHANGED <<state, executed, result>> /\ phase = "reading"
        /\ phase' \in {"reading", "decoding"}
    BY <1>7 DEF ReadFull, ReadShort, connVars, excVars
  <2>3. StreamInv'
    BY <2>1, <2>2, ReceiveStream
  <2> QED
    BY <1>1, <2>2, <2>3 DEF PhaseInv
<1>8. CASE ReadAgain
  BY <1>1, <1>2, <1>8, TargetIsInBuf
     DEF ReadAgain, connVars, excVars, PhaseInv, ReadAble
<1>9. CASE ReadEof
  BY <1>1, <1>2, <1>9, TargetIsInBuf
     DEF ReadEof, excVars, PhaseInv, ReadAble
<1>10. CASE DecodeOne
  <2>1. StreamInv'
    BY <1>10, DecodeOneStream, DecodeNoneStream
  <2>2. phase = "decoding" /\ phase' = "decoding"
    BY <1>10 DEF DecodeOne
  <2> QED
    BY <1>1, <2>1, <2>2 DEF PhaseInv
<1>11. CASE DecodeEnd
  <2>1. /\ phase' = "dispatching"
        /\ UNCHANGED <<taken, inBuf, result, executed, dropped>>
    BY <1>11 DEF DecodeEnd, excVars, writeVars
  <2>2. \A i \in Unread : PassedOver(i)
    BY <1>11 DEF DecodeEnd
  <2>3. ~dropped => ~(FrameLen <= ReadAble(inBuf))
    BY <2>2, FirstFrame
  <2>4. FrameLen \in Nat /\ ReadAble(inBuf) \in Nat
    BY SizesOK
  <2>5. ~dropped => ReadAble(inBuf) < FrameLen
    BY <2>3, <2>4
  <2> QED
    BY <1>1, <1>2, <2>1, <2>5 DEF PhaseInv, ReadAble
<1>12. CASE Dispatch
  <2>1. StreamInv'
    BY <1>12, DispatchStream
  <2> QED
    BY <1>1, <1>12, <2>1 DEF Dispatch, PhaseInv, ReadAble
<1>13. CASE Encode \/ ExcuteEnd
  BY <1>1, <1>2, <1>13
     DEF Encode, ExcuteEnd, excVars, writeVars, PhaseInv, ReadAble
<1>14. CASE WriteAll \/ WritePart \/ WriteAgain
  BY <1>1, <1>2, <1>14
     DEF WriteAll, WritePart, WriteAgain, connVars, excVars, writeVars, PhaseInv,
         ReadAble
<1> QED
  BY <1>3, <1>4, <1>5, <1>6, <1>7, <1>8, <1>9, <1>10, <1>11, <1>12, <1>13, <1>14
     DEF Next, Read, Excute, Write

(* However the stream is cut into reads, and however often the buffer is     *)
(* adjusted in between: as long as no read fills it, decode and dispatch     *)
(* serve the client's requests, each once and in the order it sent them.     *)
THEOREM RequestsInOrder == Spec => []ExecutedInOrder
<1>1. Spec => []StreamIInv
  BY InitStream, NextStream, PTL DEF Spec
<1>2. StreamIInv => ExecutedInOrder
  <2> SUFFICES ASSUME StreamIInv, ~dropped,
                      NEW i \in 1 .. Len(executed \o result)
               PROVE  (executed \o result)[i] = i
    BY DEF ExecutedInOrder
  <2>1. executed \in Seq(Calls) /\ result \in Seq(Calls)
    BY DEF StreamIInv, IInv, TypeOK
  <2>2. /\ \A k \in 1 .. Len(executed) : executed[k] = k
        /\ \A k \in 1 .. Len(result) : result[k] = Len(executed) + k
    BY DEF StreamIInv, StreamInv
  <2> QED
    BY <2>1, <2>2
<1> QED
  BY <1>1, <1>2, PTL

(* Whenever the loop waits again, every request whose frame was taken from   *)
(* the socket is executed, so none waits for a byte that may never come.     *)
THEOREM NoRequestLeft == Spec => []NothingLeftBehind
<1>1. Spec => []StreamIInv
  BY InitStream, NextStream, PTL DEF Spec
<1>2. StreamIInv => NothingLeftBehind
  <2> SUFFICES ASSUME StreamIInv, ~dropped, phase = "epoll", state # "closed"
               PROVE  Len(executed) = taken \div FrameLen
    BY DEF NothingLeftBehind
  <2> DEFINE held == ReadAble(inBuf)
  <2>1. held < FrameLen /\ result = <<>>
    BY DEF StreamIInv, PhaseInv
  <2>2. /\ FrameLen \in Nat \ {0} /\ held \in Nat /\ Len(executed) \in Nat
    BY SizesOK DEF StreamIInv
  <2>3. Decoded = Len(executed)
    BY <2>1, <2>2 DEF Decoded
  <2>4. taken = FrameLen * Len(executed) + held
    BY <2>3 DEF StreamIInv, StreamInv
  <2> HIDE DEF held
  <2>5. held \in 0 .. FrameLen - 1
    BY <2>1, <2>2
  <2> QED
    BY <2>2, <2>4, <2>5, DivMod
<1> QED
  BY <1>1, <1>2, PTL

-----------------------------------------------------------------------------
(* The replies.  on_write never moves the read index of m_out_buffer, so it  *)
(* holds, from its first unit, the replies to all requests but those that    *)
(* replay_messages still has.                                                *)
Encoded == Len(executed) - Len(replay)

ReplyUnit(r, k) == [req |-> r, pos |-> k]

OutInv ==
    /\ Encoded \in Nat
    /\ \A i \in 1 .. Len(replay) : replay[i] = executed[Encoded + i]
    /\ ReadAble(outBuf) = ReplyLen * Encoded
    /\ \A i \in 1 .. ReadAble(outBuf) :
          Held(outBuf, i) = ReplyUnit(executed[(i - 1) \div ReplyLen + 1],
                                      ((i - 1) % ReplyLen) + 1)

OutIInv == IInv /\ OutInv

LEMMA DispatchOut ==
  ASSUME OutIInv, Dispatch
  PROVE  OutInv'
<1>1. /\ UNCHANGED outBuf /\ executed' = Append(executed, Head(result))
      /\ replay' = Append(replay, Head(result))
  BY DEF Dispatch
<1>2. executed \in Seq(Calls) /\ replay \in Seq(Calls)
  BY DEF OutIInv, IInv, TypeOK
<1>3. /\ Len(executed') = Len(executed) + 1 /\ Len(replay') = Len(replay) + 1
      /\ Len(executed) \in Nat /\ Len(replay) \in Nat
      /\ \A i \in 1 .. Len(executed) : executed'[i] = executed[i]
      /\ executed'[Len(executed) + 1] = Head(result)
      /\ \A i \in 1 .. Len(replay) : replay'[i] = replay[i]
      /\ replay'[Len(replay) + 1] = Head(result)
  BY <1>1, <1>2
<1>4. /\ Encoded \in Nat /\ Encoded' = Encoded
      /\ Encoded + Len(replay) = Len(executed)
  BY <1>3 DEF OutIInv, OutInv, Encoded
<1>5. ASSUME NEW i \in 1 .. Len(replay')
      PROVE  replay'[i] = executed'[Encoded + i]
  <2>1. CASE i \in 1 .. Len(replay)
    <3>1. Encoded + i \in 1 .. Len(executed)
      BY <1>3, <1>4, <2>1
    <3> QED
      BY <1>3, <2>1, <3>1 DEF OutIInv, OutInv
  <2>2. CASE ~(i \in 1 .. Len(replay))
    <3>1. i = Len(replay) + 1
      BY <1>3, <2>2
    <3>2. Encoded + (Len(replay) + 1) = Len(executed) + 1
      BY <1>3, <1>4
    <3> QED
      BY <1>3, <3>1, <3>2
  <2> QED
    BY <2>1, <2>2
<1>6. ASSUME NEW i \in 1 .. ReadAble(outBuf)
      PROVE  Held(outBuf, i) = ReplyUnit(executed'[(i - 1) \div ReplyLen + 1],
                                         ((i - 1) % ReplyLen) + 1)
  <2> DEFINE q == (i - 1) \div ReplyLen + 1
  <2>1. ReadAble(outBuf) = ReplyLen * Encoded /\ ReplyLen \in Nat \ {0}
    BY SizesAssumption DEF OutIInv, OutInv
  <2>2. q \in 1 .. Encoded
    BY <1>4, <2>1, DivBound
  <2>3. Held(outBuf, i) = ReplyUnit(executed[q], ((i - 1) % ReplyLen) + 1)
    BY DEF OutIInv, OutInv
  <2> HIDE DEF q
  <2>4. executed'[q] = executed[q]
    BY <1>3, <1>4, <2>2
  <2> QED
    BY <2>3, <2>4 DEF q
<1>7. Held(outBuf, 1)' = Held(outBuf, 1) /\ ReadAble(outBuf)' = ReadAble(outBuf)
  BY <1>1 DEF Held, ReadAble
<1> QED
  BY <1>1, <1>4, <1>5, <1>6, <1>7 DEF OutIInv, OutInv, Held

LEMMA EncodeOut ==
  ASSUME OutIInv, Encode
  PROVE  OutInv'
<1> DEFINE r == Head(replay)
           units == ReplyUnits(r)
           held == ReadAble(outBuf)
           done == Encoded
<1>1. /\ UNCHANGED executed /\ replay # <<>> /\ replay' = Tail(replay)
      /\ outBuf' = WriteBuffer(outBuf, units)
  BY DEF Encode
<1>2. executed \in Seq(Calls) /\ replay \in Seq(Calls) /\ BufferOK(outBuf)
  BY DEF OutIInv, IInv, TypeOK
<1>3. /\ Len(replay') = Len(replay) - 1 /\ Len(executed) \in Nat
      /\ Len(replay) \in Nat \ {0} /\ r = replay[1] /\ r \in Calls
      /\ \A i \in 1 .. Len(replay') : replay'[i] = replay[i + 1]
  BY <1>1, <1>2
<1>4. /\ done \in Nat /\ Encoded' = done + 1 /\ done + 1 \in 1 .. Len(executed)
      /\ \A i \in 1 .. Len(replay) : replay[i] = executed[done + i]
      /\ held = ReplyLen * done
      /\ \A i \in 1 .. held : Held(outBuf, i) =
            ReplyUnit(executed[(i - 1) \div ReplyLen + 1],
                      ((i - 1) % ReplyLen) + 1)
  BY <1>1, <1>3 DEF OutIInv, OutInv, Encoded
<1>5. /\ units \in Seq(Unit) /\ Len(units) = ReplyLen /\ ReplyLen \in Nat \ {0}
      /\ \A k \in 1 .. ReplyLen : units[k] = ReplyUnit(r, k)
  BY <1>3, ReplyOK, SizesAssumption DEF ReplyUnits, ReplyUnit
<1> HIDE DEF units
<1>6. /\ ReadAble(outBuf') = held + ReplyLen
      /\ \A i \in 1 .. held : Held(outBuf', i) = Held(outBuf, i)
      /\ \A k \in 1 .. ReplyLen : Held(outBuf', held + k) = units[k]
  BY <1>1, <1>2, <1>5, WriteBufferOK, WriteBufferKeeps
<1> HIDE DEF r, held, done
<1>7. r = executed[done + 1]
  BY <1>3, <1>4
<1>8. ASSUME NEW i \in 1 .. Len(replay')
      PROVE  replay'[i] = executed[(done + 1) + i]
  <2>1. i + 1 \in 1 .. Len(replay) /\ done + (i + 1) = (done + 1) + i
    BY <1>3, <1>4
  <2> QED
    BY <1>3, <1>4, <2>1
<1>9. ReplyLen * (done + 1) = held + ReplyLen /\ held \in Nat
  <2>1. done \in Nat /\ ReplyLen \in Nat /\ held = ReplyLen * done
    BY <1>4, <1>5
  <2> QED
    BY <2>1
<1>10. ASSUME NEW i \in 1 .. ReadAble(outBuf')
       PROVE  Held(outBuf', i) = ReplyUnit(executed[(i - 1) \div ReplyLen + 1],
                                           ((i - 1) % ReplyLen) + 1)
  <2>1. CASE i \in 1 .. held
    BY <1>4, <1>6, <2>1
  <2>2. CASE ~(i \in 1 .. held)
    <3> DEFINE k == i - held
    <3>1. k \in 1 .. ReplyLen /\ held + k = i
      BY <1>5, <1>6, <1>9, <2>2
    <3> HIDE DEF k
    <3>2. k - 1 \in 0 .. ReplyLen - 1 /\ i - 1 = ReplyLen * done + (k - 1)
          /\ (k - 1) + 1 = k
      BY <1>4, <1>5, <1>9, <3>1
    <3>3. (i - 1) \div ReplyLen = done /\ (i - 1) % ReplyLen = k - 1
      <4>1. done \in Nat /\ ReplyLen \in Nat \ {0}
        BY <1>4, <1>5
      <4>2. /\ (ReplyLen * done + (k - 1)) \div ReplyLen = done
            /\ (ReplyLen * done + (k - 1)) % ReplyLen = k - 1
        BY <3>2, <4>1, DivMod
      <4> QED
        BY <3>2, <4>2
    <3>4. Held(outBuf', i) = ReplyUnit(executed[done + 1], k)
      BY <1>5, <1>6, <1>7, <3>1
    <3> QED
      BY <3>2, <3>3, <3>4
  <2> QED
    BY <2>1, <2>2
<1>11. Encoded' \in Nat /\ ReadAble(outBuf') = ReplyLen * Encoded'
  BY <1>4, <1>6, <1>9
<1> QED
  BY <1>1, <1>4, <1>8, <1>10, <1>11 DEF OutInv

LEMMA InitOut == Init => OutIInv
<1> SUFFICES ASSUME Init PROVE OutIInv
  OBVIOUS
<1>1. executed = <<>> /\ replay = <<>> /\ outBuf.readIdx = 0 /\ outBuf.writeIdx = 0
  BY DEF Init, NewBuffer
<1>2. Encoded = 0 /\ ReadAble(outBuf) = 0
  BY <1>1 DEF Encoded, ReadAble
<1>3. OutInv
  BY <1>1, <1>2, SizesAssumption DEF OutInv
<1> QED
  BY <1>3, InitIInv DEF OutIInv

LEMMA NextOut ==
  ASSUME OutIInv, [Next]_vars
  PROVE  OutIInv'
<1>1. IInv'
  BY NextIInv DEF OutIInv
<1>2. ASSUME UNCHANGED <<executed, replay, outBuf>>
      PROVE  OutIInv'
  BY <1>1, <1>2 DEF OutIInv, OutInv, Encoded, Held, ReadAble
<1>3. CASE Dispatch
  BY <1>1, <1>3, DispatchOut DEF OutIInv
<1>4. CASE Encode
  BY <1>1, <1>4, EncodeOut DEF OutIInv
<1>5. CASE UNCHANGED vars \/ SetConnected \/ PeerSends \/ PeerCloses
  BY <1>2, <1>5 DEF vars, SetConnected, PeerSends, PeerCloses, excVars
<1>6. CASE OnRead \/ Read \/ OnWrite \/ Write
  BY <1>2, <1>6 DEF OnRead, Read, ReadFull, ReadShort, ReadAgain, ReadEof, OnWrite,
     Write, WriteAll, WritePart, WriteAgain, excVars
<1>7. CASE DecodeOne \/ DecodeEnd \/ ExcuteEnd
  BY <1>2, <1>7 DEF DecodeOne, DecodeEnd, ExcuteEnd, excVars
<1> QED
  BY <1>3, <1>4, <1>5, <1>6, <1>7 DEF Next, Excute

(* Whatever the sizes, and however often the buffer grew in between,         *)
(* m_out_buffer holds the encoded replies whole, in order, none twice.       *)
THEOREM RepliesHeld == Spec => []OutHoldsReplies
<1>1. Spec => []OutIInv
  BY InitOut, NextOut, PTL DEF Spec
<1>2. OutIInv => OutHoldsReplies
  <2> SUFFICES ASSUME OutIInv PROVE OutHoldsReplies
    OBVIOUS
  <2> DEFINE encoded == SubSeq(executed, 1, Encoded)
  <2>1. /\ executed \in Seq(Calls) /\ BufferOK(outBuf) /\ Encoded \in Nat
        /\ Encoded <= Len(executed) /\ ReplyLen \in Nat \ {0}
        /\ ReadAble(outBuf) = ReplyLen * Encoded
    BY SizesAssumption DEF OutIInv, OutInv, IInv, TypeOK, Encoded
  <2>2. /\ Len(encoded) = Encoded
        /\ \A q \in 1 .. Encoded : encoded[q] = executed[q]
    BY <2>1
  <2> HIDE DEF encoded
  <2>3. ASSUME NEW i \in 1 .. ReadAble(outBuf)
        PROVE  Bytes(outBuf)[i] = ReplyUnits(encoded[(i - 1) \div ReplyLen + 1])
                                     [((i - 1) % ReplyLen) + 1]
    <3> DEFINE q == (i - 1) \div ReplyLen + 1
               m == ((i - 1) % ReplyLen) + 1
    <3>1. q \in 1 .. Encoded /\ m \in 1 .. ReplyLen
      BY <2>1, DivBound
    <3>2. Held(outBuf, i) = ReplyUnit(executed[q], m)
      BY DEF OutIInv, OutInv
    <3>3. Bytes(outBuf)[i] = Held(outBuf, i)
      BY <2>1, BytesAreHeld
    <3> HIDE DEF q, m
    <3>4. ReplyUnits(encoded[q])[m] = ReplyUnit(executed[q], m)
      BY <2>2, <3>1 DEF ReplyUnits, ReplyUnit
    <3> QED
      BY <3>2, <3>3, <3>4 DEF q, m
  <2> QED
    BY <2>1, <2>2, <2>3 DEF OutHoldsReplies, encoded, Encoded
<1> QED
  BY <1>1, <1>2, PTL
=============================================================================
