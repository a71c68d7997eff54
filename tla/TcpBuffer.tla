----------------------------- MODULE TcpBuffer -----------------------------
(* kabi::tcpBuffer: m_buffer and the two indices that bound what has been    *)
(* written to it and not read.  A buffer is a record, each of its methods an *)
(* operator; index i of the code is element i + 1 of data.                   *)
EXTENDS Integers, Sequences

CONSTANT Unit,   \* what a buffer holds: bytes, or groups of them
         Blank   \* the value a vector's new elements have

Buffer == [data : Seq(Unit \cup {Blank}), readIdx : Nat, writeIdx : Nat]

BufferOK(b) ==
    /\ b \in Buffer
    /\ b.readIdx <= b.writeIdx /\ b.writeIdx <= Len(b.data)
    /\ \A i \in b.readIdx + 1 .. b.writeIdx : b.data[i] \in Unit

NewBuffer(size) == [data |-> [i \in 1 .. size |-> Blank],
                    readIdx |-> 0, writeIdx |-> 0]

ReadAble(b)  == b.writeIdx - b.readIdx
WriteAble(b) == Len(b.data) - b.writeIdx

(* What can be read.                                                         *)
Bytes(b) == SubSeq(b.data, b.readIdx + 1, b.writeIdx)

(* memcpy of units to index at.                                              *)
CopyTo(data, at, units) ==
    [i \in 1 .. Len(data) |->
        IF i \in at + 1 .. at + Len(units) THEN units[i - at] ELSE data[i]]

(* A vector of the given size takes over what can be read.                   *)
Moved(b, size) ==
    [data |-> [i \in 1 .. size |->
                  IF i <= ReadAble(b) THEN b.data[b.readIdx + i] ELSE Blank],
     readIdx |-> 0, writeIdx |-> ReadAble(b)]

ResizeForgetting(b, size) ==     \* mutant: the bytes held are not counted
    [Moved(b, size) EXCEPT !.writeIdx = 0]
ResizeBuffer(b, size) ==
    Moved([b EXCEPT !.writeIdx =
              IF size < ReadAble(b) THEN b.readIdx + size ELSE @], size)

AdjustBuffer(b) ==
    IF b.readIdx < Len(b.data) \div 3 THEN b ELSE Moved(b, Len(b.data))

(* Both refuse to move an index to the end of the buffer.                    *)
MoveReadIndex(b, n) ==
    IF b.readIdx + n >= Len(b.data) THEN b
    ELSE AdjustBuffer([b EXCEPT !.readIdx = @ + n])

MoveWriteIndex(b, n) ==
    IF b.writeIdx + n >= Len(b.data) THEN b
    ELSE AdjustBuffer([b EXCEPT !.writeIdx = @ + n])

WriteBuffer(b, units) ==
    LET c == IF Len(units) > WriteAble(b)
             THEN ResizeBuffer(b, (3 * (b.writeIdx + Len(units))) \div 2)
             ELSE b
    IN  [c EXCEPT !.data = CopyTo(c.data, c.writeIdx, units),
                  !.writeIdx = @ + Len(units)]
=============================================================================
