-------------------------- MODULE ServerConnection --------------------------
(* The server side of a kabi::tcpConnection: on_read takes what the client   *)
(* sent out of the socket into m_in_buffer, excute decodes the requests,     *)
(* dispatches them and encodes their replies into m_out_buffer, on_write     *)
(* sends that.  The callbacks run on the thread of one event loop; an action *)
(* is one round of one of their loops.                                       *)
(*                                                                           *)
(* The client sends requests 1, 2, ..., each a frame of FrameLen units: the  *)
(* start byte, LengthBytes bytes of length (zeros and then the length, which *)
(* is below 256 in a buffer of that size), the body, the end byte.  A reply  *)
(* is ReplyLen units.                                                        *)
EXTENDS Integers, Sequences

CONSTANTS BufferSize,  \* the size a connection's buffers are created with
          LengthBytes, \* the bytes of an encoded length: four in the code
          NumRequests, FrameLen, ReplyLen,
          StrayLens,   \* lengths read from bytes that are no length
          MaxPartial   \* bound: writes the socket takes a part of

ASSUME SizesAssumption ==
    /\ BufferSize \in Nat \ {0} /\ NumRequests \in Nat
    /\ LengthBytes \in Nat \ {0} /\ FrameLen \in Nat
    /\ FrameLen >= LengthBytes + 3 /\ ReplyLen \in Nat \ {0}
    /\ MaxPartial \in Nat /\ StrayLens \subseteq Nat

Requests == 1 .. NumRequests
NoRequest == 0         \* what a frame patched together from others asks for
Calls == Requests \cup {NoRequest}
Max2(a, b) == IF a < b THEN b ELSE a
Unit  == [req : Calls, pos : 1 .. Max2(FrameLen, ReplyLen)]
Blank == [req |-> 0, pos |-> 0]

INSTANCE TcpBuffer

VARIABLES
    state,     \* m_state
    sent,      \* how many units the client has sent
    taken,     \* how many of them read() has returned
    closed,    \* the client has closed its end
    inBuf,     \* m_in_buffer
    outBuf,    \* m_out_buffer
    outOn,     \* EPOLLOUT is registered
    phase,     \* what the loop's thread is doing
    result,    \* result: requests decoded and not dispatched
    replay,    \* replay_messages: replies not encoded
    executed,  \* the requests dispatched, in order
    received,  \* the requests whose replies the client has received to the end
    partial,   \* how many writes were partial
    dropped    \* a read filled the buffer, so move_write_index refused it

vars == <<state, sent, taken, closed, inBuf, outBuf, outOn, phase, result,
          replay, executed, received, partial, dropped>>

StreamLen == NumRequests * FrameLen

(* The unit at a position of the client's stream.                            *)
Sent(p) == [req |-> (p - 1) \div FrameLen + 1, pos |-> ((p - 1) % FrameLen) + 1]

Available == sent - taken

ReplyUnits(r) == [k \in 1 .. ReplyLen |-> [req |-> r, pos |-> k]]

TypeOK ==
    /\ state \in {"notConnected", "connected", "closed"}
    /\ sent \in 0 .. StreamLen /\ taken \in 0 .. sent /\ closed \in BOOLEAN
    /\ BufferOK(inBuf) /\ BufferOK(outBuf)
    /\ outOn \in BOOLEAN
    /\ phase \in {"epoll", "reading", "decoding", "dispatching", "writing"}
    /\ result \in Seq(Calls) /\ replay \in Seq(Calls)
    /\ executed \in Seq(Calls)
    /\ received \in SUBSET Calls
    /\ partial \in 0 .. MaxPartial
    /\ dropped \in BOOLEAN

(* The constructor registers on_read with the I/O thread's loop before       *)
(* on_accept sets the state.                                                 *)
Init ==
    /\ state = "notConnected"
    /\ sent = 0 /\ taken = 0 /\ closed = FALSE
    /\ inBuf = NewBuffer(BufferSize) /\ outBuf = NewBuffer(BufferSize)
    /\ outOn = FALSE
    /\ phase = "epoll"
    /\ result = <<>> /\ replay = <<>> /\ executed = <<>>
    /\ received = {} /\ partial = 0 /\ dropped = FALSE

connVars  == <<state, outOn>>
excVars   == <<result, replay, executed>>
clientVars == <<sent, closed>>
writeVars == <<received, partial>>

-----------------------------------------------------------------------------
(* The acceptor's thread, after the constructor.                             *)
SetConnected ==
    /\ state = "notConnected"
    /\ state' = "connected"
    /\ UNCHANGED <<clientVars, taken, inBuf, outBuf, outOn, phase, excVars,
                   writeVars, dropped>>

PeerSends ==
    /\ ~closed
    /\ sent' \in sent + 1 .. StreamLen
    /\ UNCHANGED <<connVars, taken, closed, inBuf, outBuf, phase, excVars,
                   writeVars, dropped>>

PeerCloses ==
    /\ ~closed
    /\ closed' = TRUE
    /\ UNCHANGED <<connVars, sent, taken, inBuf, outBuf, phase, excVars,
                   writeVars, dropped>>

-----------------------------------------------------------------------------
(* on_read.  In any state but CONNECTED it returns at once.                  *)
OnRead ==
    /\ phase = "epoll" /\ state = "connected"
    /\ Available > 0 \/ closed
    /\ phase' = "reading"
    /\ UNCHANGED <<connVars, clientVars, taken, inBuf, outBuf, excVars,
                   writeVars, dropped>>

(* The buffer read() writes to.                                              *)
Target == IF WriteAble(inBuf) = 0
          THEN ResizeBuffer(inBuf, 2 * Len(inBuf.data)) ELSE inBuf

(* read() of n units, then move_write_index.                                 *)
Receive(n) ==
    LET arrived == [i \in 1 .. n |-> Sent(taken + i)]
        filled  == [Target EXCEPT
                       !.data = CopyTo(Target.data, Target.writeIdx, arrived)]
    IN  /\ inBuf' = MoveWriteIndex(filled, n)
        /\ taken' = taken + n
        /\ dropped' = (dropped \/ Target.writeIdx + n >= Len(Target.data))

(* The client's units fill the buffer: read again.                           *)
ReadFull ==
    /\ phase = "reading" /\ Available >= WriteAble(Target)
    /\ Receive(WriteAble(Target))
    /\ UNCHANGED <<connVars, clientVars, outBuf, phase, excVars, writeVars>>

ReadShort ==
    /\ phase = "reading" /\ Available > 0 /\ Available < WriteAble(Target)
    /\ Receive(Available)
    /\ phase' = "decoding"
    /\ UNCHANGED <<connVars, clientVars, outBuf, excVars, writeVars>>

ReadAgain ==                     \* EAGAIN
    /\ phase = "reading" /\ Available = 0 /\ ~closed
    /\ inBuf' = Target
    /\ phase' = "decoding"
    /\ UNCHANGED <<connVars, clientVars, taken, outBuf, excVars, writeVars,
                   dropped>>

(* The client has closed: clear(), without a look at what was read.          *)
ReadEof ==
    /\ phase = "reading" /\ Available = 0 /\ closed
    /\ inBuf' = Target
    /\ state' = "closed" /\ outOn' = FALSE
    /\ phase' = "epoll"
    /\ UNCHANGED <<clientVars, taken, outBuf, excVars, writeVars, dropped>>

-----------------------------------------------------------------------------
(* decode looks for the first index that holds a start byte, a length, and   *)
(* the end byte where the length says.                                       *)
At(i) == inBuf.data[i + 1]

ZeroByte(i) == At(i) = Blank \/ At(i).pos \in 2 .. LengthBytes
LengthByte(i) == At(i).pos = LengthBytes + 1

(* What the length at i + 1 may be read as.  The bytes are taken wherever    *)
(* they are, behind the write index and behind the vector too; requests do   *)
(* not differ in them.                                                       *)
PbLens(i) ==
    IF \/ i + LengthBytes >= Len(inBuf.data)
       \/ \E k \in 1 .. LengthBytes - 1 : ~ZeroByte(i + k)
       \/ ~ZeroByte(i + LengthBytes) /\ ~LengthByte(i + LengthBytes)
    THEN StrayLens
    ELSE {IF LengthByte(i + LengthBytes) THEN FrameLen ELSE 0}

(* One byte behind the start byte is enough for the length to be read; with  *)
(* the length 0 the end byte is looked for in front of the start byte.       *)
IsFrame(i, n) ==
    /\ At(i).pos = 1 /\ i + 1 < inBuf.writeIdx
    /\ i + n - 1 \in 0 .. inBuf.writeIdx - 1
    /\ At(i + n - 1).pos = FrameLen

Unread == inBuf.readIdx .. inBuf.writeIdx - 1

PassedOver(i) == \E n \in PbLens(i) : ~IsFrame(i, n)

(* Where the search stops, and with what length.                             *)
Found(i, n) ==
    /\ i \in Unread /\ n \in PbLens(i) /\ IsFrame(i, n)
    /\ \A j \in Unread : j < i => PassedOver(j)

TooShort(n) == n <= LengthBytes + 2

(* The fields of the frame found are those of request r.                     *)
HasBodyOf(i, n, r) ==
    /\ n = FrameLen
    /\ \A k \in LengthBytes + 2 .. FrameLen - 1 :
          At(i + k - 1) = [req |-> r, pos |-> k]

(* A frame is found: the read index moves by its length, from wherever it    *)
(* was.  A frame too short for a message id is given up, one patched         *)
(* together around lost units fails to parse or asks for something else.     *)
DecodeOne ==
    /\ phase = "decoding"
    /\ \E i \in Unread : \E n \in PbLens(i) :
          /\ Found(i, n)
          /\ inBuf' = MoveReadIndex(inBuf, n)
          /\ \/ TooShort(n) /\ UNCHANGED result
             \/ \E r \in Requests : HasBodyOf(i, n, r) /\ result' = Append(result, r)
             \/ /\ ~TooShort(n) /\ \A r \in Requests : ~HasBodyOf(i, n, r)
                /\ result' \in {result, Append(result, NoRequest)}
    /\ UNCHANGED <<connVars, clientVars, taken, outBuf, phase, replay, executed,
                   writeVars, dropped>>

DecodeEarlyEnd ==                \* mutant: one request for each decode
    /\ phase = "decoding"
    /\ result # <<>> \/ \A i \in Unread : PassedOver(i)
    /\ phase' = "dispatching"
    /\ UNCHANGED <<connVars, clientVars, taken, inBuf, outBuf, excVars,
                   writeVars, dropped>>
DecodeEnd ==
    /\ phase = "decoding"
    /\ \A i \in Unread : PassedOver(i)
    /\ phase' = "dispatching"
    /\ UNCHANGED <<connVars, clientVars, taken, inBuf, outBuf, excVars,
                   writeVars, dropped>>

(* rpcDispatcher::dispatch answers a request in any case: with the response  *)
(* of its method or with an error.                                           *)
DispatchLastFirst ==             \* mutant: the last request is served first
    /\ phase = "dispatching" /\ result # <<>>
    /\ result' = SubSeq(result, 1, Len(result) - 1)
    /\ executed' = Append(executed, result[Len(result)])
    /\ replay' = Append(replay, result[Len(result)])
    /\ UNCHANGED <<connVars, clientVars, taken, inBuf, outBuf, phase, writeVars,
                   dropped>>
Dispatch ==
    /\ phase = "dispatching" /\ result # <<>>
    /\ result' = Tail(result)
    /\ executed' = Append(executed, Head(result))
    /\ replay' = Append(replay, Head(result))
    /\ UNCHANGED <<connVars, clientVars, taken, inBuf, outBuf, phase, writeVars,
                   dropped>>

EncodeInPlace ==                 \* mutant: the buffer is not made larger
    /\ phase = "dispatching" /\ result = <<>> /\ replay # <<>>
    /\ replay' = Tail(replay)
    /\ outBuf' = [outBuf EXCEPT
                    !.data = CopyTo(@, outBuf.writeIdx, ReplyUnits(Head(replay))),
                    !.writeIdx = @ + ReplyLen]
    /\ UNCHANGED <<connVars, clientVars, taken, inBuf, phase, result, executed,
                   writeVars, dropped>>
Encode ==
    /\ phase = "dispatching" /\ result = <<>> /\ replay # <<>>
    /\ replay' = Tail(replay)
    /\ outBuf' = WriteBuffer(outBuf, ReplyUnits(Head(replay)))
    /\ UNCHANGED <<connVars, clientVars, taken, inBuf, phase, result, executed,
                   writeVars, dropped>>

(* listen_write_event, with or without anything new to write.                *)
ExcuteEnd ==
    /\ phase = "dispatching" /\ result = <<>> /\ replay = <<>>
    /\ outOn' = TRUE
    /\ phase' = "epoll"
    /\ UNCHANGED <<state, clientVars, taken, inBuf, outBuf, excVars, writeVars,
                   dropped>>

-----------------------------------------------------------------------------
(* on_write writes from the read index of m_out_buffer and never moves it.   *)
OnWrite ==
    /\ phase = "epoll" /\ state = "connected" /\ outOn
    /\ phase' = "writing"
    /\ UNCHANGED <<connVars, clientVars, taken, inBuf, outBuf, excVars,
                   writeVars, dropped>>

(* The requests whose replies end among some units.                          *)
Ended(units) ==
    {units[i].req : i \in {j \in 1 .. Len(units) : units[j].pos = ReplyLen}}

WriteGivenUp ==                  \* mutant: a write that is refused is given up
    /\ phase = "writing"
    /\ UNCHANGED received
    /\ outOn' = FALSE
    /\ phase' = "epoll"
    /\ UNCHANGED <<state, clientVars, taken, inBuf, outBuf, excVars, partial,
                   dropped>>
WriteAll ==
    /\ phase = "writing"
    /\ received' = received \cup Ended(Bytes(outBuf))
    /\ outOn' = FALSE
    /\ phase' = "epoll"
    /\ UNCHANGED <<state, clientVars, taken, inBuf, outBuf, excVars, partial,
                   dropped>>

(* The socket takes n units: the loop writes from the same index again.      *)
WritePart ==
    /\ phase = "writing" /\ partial < MaxPartial
    /\ \E n \in 1 .. ReadAble(outBuf) - 1 :
          received' = received \cup Ended(SubSeq(Bytes(outBuf), 1, n))
    /\ partial' = partial + 1
    /\ UNCHANGED <<connVars, clientVars, taken, inBuf, outBuf, phase, excVars,
                   dropped>>

WriteAgain ==                    \* EAGAIN: EPOLLOUT stays registered
    /\ phase = "writing" /\ ReadAble(outBuf) > 0
    /\ phase' = "epoll"
    /\ UNCHANGED <<connVars, clientVars, taken, inBuf, outBuf, excVars,
                   writeVars, dropped>>

-----------------------------------------------------------------------------
Read   == ReadFull \/ ReadShort \/ ReadAgain \/ ReadEof
Excute == DecodeOne \/ DecodeEnd \/ Dispatch \/ Encode \/ ExcuteEnd
Write  == WriteAll \/ WritePart \/ WriteAgain

Next == \/ SetConnected \/ PeerSends \/ PeerCloses
        \/ OnRead \/ Read \/ Excute \/ OnWrite \/ Write

Spec == Init /\ [][Next]_vars

(* The acceptor's thread and the loop go on; a client that reads makes room  *)
(* in the socket again and again.                                            *)
Fairness == /\ WF_vars(SetConnected)
            /\ WF_vars(OnRead) /\ WF_vars(Read) /\ WF_vars(Excute)
            /\ WF_vars(OnWrite) /\ WF_vars(Write) /\ SF_vars(WriteAll)
FairSpec == Spec /\ Fairness

-----------------------------------------------------------------------------
(* The input buffer always has room, so on_read's resize_buffer (44-47) is   *)
(* never called and the buffer never outgrows its first size: a request of   *)
(* that size never arrives.                                                  *)
InBufferNeverGrows == WriteAble(inBuf) > 0 /\ Len(inBuf.data) = BufferSize

(* As long as no read filled the buffer, the requests executed are those the *)
(* client sent, each once and in its order, however the stream was cut.      *)
ExecutedInOrder ==
    ~dropped => \A i \in 1 .. Len(executed \o result) :
                   (executed \o result)[i] = i

(* And when the loop waits again, every request that was read completely is  *)
(* executed: none stays behind in the buffer.                                *)
NothingLeftBehind ==
    ~dropped /\ phase = "epoll" /\ state # "closed" =>
        Len(executed) = taken \div FrameLen

(* m_out_buffer holds the replies to all requests ever executed, in order,   *)
(* through any number of writes and of growths.                              *)
OutHoldsReplies ==
    LET encoded == SubSeq(executed, 1, Len(executed) - Len(replay))
    IN  /\ ReadAble(outBuf) = ReplyLen * Len(encoded)
        /\ \A i \in 1 .. ReadAble(outBuf) :
              Bytes(outBuf)[i] = ReplyUnits(encoded[(i - 1) \div ReplyLen + 1])
                                    [((i - 1) % ReplyLen) + 1]

(* decode has found a frame of length 0: the read index stays, and the next  *)
(* round of its loop finds the same one.                                     *)
Stuck == phase = "decoding" /\ \E i \in Unread : Found(i, 0)

(* A request the client has sent completely is answered, unless the client   *)
(* closes, a read fills the buffer, or decode is stuck.                      *)
RequestAnswered ==
    \A r \in Requests :
        (sent >= r * FrameLen) ~>
            r \in received \/ closed \/ dropped \/ Stuck

(* "从下取四个字节" (tinypb_coder.cpp:46, take the next four bytes), "读到最后一个字节了"   *)
(* (:69, the last byte is read): decode comes to the end of what is there.   *)
DecodeEnds == phase = "decoding" ~> phase # "decoding"

=============================================================================
