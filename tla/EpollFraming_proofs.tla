------------------------ MODULE EpollFraming_proofs -------------------------
(***************************************************************************)
(* Theorems about EpollFraming for every header size, buffer size, set of  *)
(* request sizes and number of frames.  The inductive invariant says where *)
(* the reader stands in the stream: at the beginning of the first frame    *)
(* not yet handled, whatever pieces the bytes came in.                     *)
(***************************************************************************)
EXTENDS EpollFraming, SequenceTheorems, TLAPS

\* Frames are at least a header long, and have the sizes clients use.
FramesApart ==
    /\ \A j, k \in 1 .. Len(bounds) :
          j < k => bounds[j] + kHeadSize <= bounds[k]
    /\ \A k \in Frames : Frame(k).size \in BodySizes

\* The first unconsumed byte is the first byte of the next frame.  Only a
\* failed write gives that up, and then the connection is dead.
Aligned ==
    (peer = "open" \/ pc \in {"recv", "parse", "dispatch"})
        => Pos = bounds[Len(handled) + 1]

\* A decoded header is the one of the next frame; the buffer has room for the
\* frame, and was replaced only if the frame is not all there.
Decoded ==
    pc = "dispatch" =>
        /\ Len(handled) + 1 \in Frames
        /\ need = kHeadSize + Frame(Len(handled) + 1).size
        /\ need <= buf.size
        /\ head = "live" \/ need > DataSize(buf)

IInv ==
    /\ TypeOK
    /\ InBounds
    /\ FramesApart
    /\ HandledAsSent
    /\ rcvd <= Written
    /\ pc = "recv" => rcvd < Written
    /\ Aligned
    /\ Decoded

-----------------------------------------------------------------------------

\* What Append does, in the form the steps below use.
LEMMA AppendFacts ==
    ASSUME NEW S, NEW q \in Seq(S), NEW x \in S
    PROVE  /\ Append(q, x) \in Seq(S)
           /\ Len(Append(q, x)) = Len(q) + 1
           /\ \A i \in 1 .. Len(q) : Append(q, x)[i] = q[i]
           /\ Append(q, x)[Len(q) + 1] = x
  OBVIOUS

\* The Buffer operations keep the positions inside the allocation.
LEMMA BufferFacts ==
    ASSUME NEW b \in Buffers, b.s <= b.e, b.e <= b.size
    PROVE  /\ DataSize(b) \in Nat
           /\ PitSize(b) \in Nat
           /\ Move(b) \in Buffers
           /\ DataSize(Move(b)) = DataSize(b)
           /\ Move(b).s = 0 /\ Move(b).e = DataSize(b)
           /\ Move(b).size = b.size
  <1>. USE DEF Buffers, DataSize, PitSize, Move, ResetPos
  <1>1. CASE b.e - b.s > 0
    BY <1>1
  <1>2. CASE b.e = b.s
    BY <1>2
  <1>. QED
    BY <1>1, <1>2

\* Between two frames there is at least a header, so that two frames never
\* begin at the same offset and the header read there is the frame's own.
LEMMA HeaderIsNextFrame ==
    ASSUME TypeOK, FramesApart, NEW k \in Frames
    PROVE  HeaderAt(bounds[k]) = {Frame(k).size}
  <1>1. ASSUME NEW j \in Frames, bounds[j] = bounds[k]
        PROVE  j = k
    <2>1. /\ j \in 1 .. Len(bounds) /\ k \in 1 .. Len(bounds)
          /\ bounds[j] \in Nat /\ bounds[k] \in Nat
      BY DEF Frames, TypeOK
    <2>2. ~ (j < k) /\ ~ (k < j)
      BY <2>1, <1>1, HeadAssumption DEF FramesApart
    <2>. QED
      BY <2>1, <2>2
  <1>. QED
    BY <1>1 DEF HeaderAt, Frames

LEMMA InitIInv == Init => IInv
  BY HeadAssumption, BufferAssumption
  DEF Init, IInv, TypeOK, InBounds, FramesApart, HandledAsSent, Aligned,
      Decoded, Frames, Frame, Written, Pos, DataSize, NewBuffer, Buffers

-----------------------------------------------------------------------------
(* The steps of the client *)

LEMMA WriteFrameIInv == IInv /\ WriteFrame => IInv'
  <1>. SUFFICES ASSUME IInv, WriteFrame PROVE IInv'
    OBVIOUS
  <1>. USE HeadAssumption, BodyAssumption DEF IInv, TypeOK
  <1>1. PICK body \in BodySizes :
           bounds' = Append(bounds, Written + kHeadSize + body)
    BY DEF WriteFrame
  <1>2. UNCHANGED <<peer, rcvd, buf, head, need, pc, handled>>
    BY DEF WriteFrame
  <1>3. PICK n \in Nat : n = Len(bounds) /\ n > 0
    BY LenProperties
  <1>4. /\ Written \in Nat
        /\ \A i \in 1 .. n : bounds[i] \in Nat
    BY <1>3 DEF Written
  <1>5. \A i \in 1 .. n : bounds[i] <= Written
    <2>. TAKE i \in 1 .. n
    <2>1. i = n \/ bounds[i] + kHeadSize <= bounds[n]
      BY <1>3 DEF FramesApart
    <2>. QED
      BY <2>1, <1>3, <1>4 DEF Written
  <1>6. /\ bounds' \in Seq(Nat)
        /\ Len(bounds') = n + 1
        /\ \A i \in 1 .. n : bounds'[i] = bounds[i]
        /\ bounds'[n + 1] = Written + kHeadSize + body
    <2>1. Written + kHeadSize + body \in Nat
      BY <1>4
    <2>. QED
      BY <1>1, <1>3, <2>1, AppendFacts
  <1>7. /\ Frames = 1 .. n - 1 /\ Frames' = 1 .. n
        /\ \A k \in 1 .. n - 1 : Frame(k)' = Frame(k)
    BY <1>3, <1>6 DEF Frames, Frame
  <1>8. FramesApart'
    <2>1. \A j, k \in 1 .. n + 1 : j < k => bounds'[j] + kHeadSize <= bounds'[k]
      <3>. TAKE j, k \in 1 .. n + 1
      <3>. HAVE j < k
      <3>1. j \in 1 .. n /\ bounds'[j] = bounds[j]
        BY <1>6
      <3>2. CASE k \in 1 .. n
        <4>1. bounds'[k] = bounds[k]
          BY <3>2, <1>6
        <4>. QED
          BY <3>1, <3>2, <4>1, <1>3 DEF FramesApart
      <3>3. CASE k = n + 1
        BY <3>1, <3>3, <1>4, <1>5, <1>6
      <3>. QED
        BY <3>2, <3>3
    <2>2. \A k \in 1 .. n : Frame(k)'.size \in BodySizes
      <3>. TAKE k \in 1 .. n
      <3>1. CASE k \in 1 .. n - 1
        BY <3>1, <1>7 DEF FramesApart
      <3>2. CASE k = n
        BY <3>2, <1>3, <1>4, <1>6 DEF Frame, Written
      <3>. QED
        BY <3>1, <3>2
    <2>. QED
      BY <2>1, <2>2, <1>6, <1>7 DEF FramesApart
  <1>9. HandledAsSent'
    BY <1>2, <1>3, <1>6, <1>7 DEF HandledAsSent
  <1>10. Written' >= Written
    BY <1>3, <1>4, <1>6 DEF Written
  <1>11. Aligned'
    BY <1>2, <1>3, <1>6 DEF Aligned, HandledAsSent, Pos, DataSize
  <1>12. Decoded'
    BY <1>2, <1>7 DEF Decoded, DataSize
  <1>. QED
    BY <1>2, <1>4, <1>6, <1>8, <1>9, <1>10, <1>11, <1>12
    DEF InBounds, Written, Buffers

LEMMA PeerCloseIInv == IInv /\ PeerClose => IInv'
  BY DEF IInv, PeerClose, TypeOK, InBounds, FramesApart, HandledAsSent, Aligned,
         Decoded, Frames, Frame, Written, Pos, DataSize

-----------------------------------------------------------------------------
(* The steps of the server *)

LEMMA WaitReadableIInv == IInv /\ WaitReadable => IInv'
  BY DEF IInv, WaitReadable, TypeOK, InBounds, FramesApart, HandledAsSent,
         Aligned, Decoded, Frames, Frame, Written, Pos, DataSize

LEMMA HangupIInv == IInv /\ Hangup => IInv'
  BY DEF IInv, Hangup, TypeOK, InBounds, FramesApart, HandledAsSent, Aligned,
         Decoded, Frames, Frame, Written, Pos, DataSize, NewBuffer, Buffers

LEMMA RecvIInv == IInv /\ Recv => IInv'
  <1>. SUFFICES ASSUME IInv, Recv PROVE IInv'
    OBVIOUS
  <1>. USE DEF IInv, TypeOK
  <1>1. UNCHANGED <<peer, bounds, head, need, handled>> /\ pc = "recv"
    BY DEF Recv
  <1>2. FramesApart' /\ HandledAsSent'
    BY <1>1 DEF FramesApart, HandledAsSent, Frames, Frame
  <1>3. CASE PitSize(buf) = 0 /\ pc' = "wait" /\ UNCHANGED <<buf, rcvd>>
    BY <1>1, <1>2, <1>3
    DEF InBounds, Aligned, Decoded, Written, Pos, DataSize
  <1>4. CASE PitSize(buf) > 0 /\ pc' = "parse"
    <2>1. PICK m \in 1 .. Written - rcvd :
             m <= PitSize(buf) /\ buf' = Fill(buf, m) /\ rcvd' = rcvd + m
      BY <1>4 DEF Recv
    <2>2. Written \in Nat /\ m \in Nat /\ rcvd' <= Written /\ rcvd' \in Nat
      BY <2>1 DEF Written
    <2>3. /\ buf' \in Buffers /\ buf'.s = buf.s /\ buf'.size = buf.size
          /\ buf'.e = buf.e + m
      BY <2>1, <2>2 DEF Fill, Buffers
    <2>4. InBounds'
      BY <2>1, <2>2, <2>3 DEF InBounds, PitSize, Buffers
    <2>5. Pos' = Pos
      BY <2>1, <2>2, <2>3 DEF Pos, DataSize, Buffers
    <2>6. Aligned' /\ Decoded'
      BY <1>1, <1>4, <2>5 DEF Aligned, Decoded
    <2>. QED
      BY <1>1, <1>2, <1>4, <2>2, <2>3, <2>4, <2>6 DEF Written
  <1>. QED
    BY <1>3, <1>4 DEF Recv

LEMMA DecodeHeadIInv == IInv /\ DecodeHead => IInv'
  <1>. SUFFICES ASSUME IInv, DecodeHead PROVE IInv'
    OBVIOUS
  <1>. USE HeadAssumption, BodyAssumption DEF IInv, TypeOK
  <1>1. /\ UNCHANGED <<peer, bounds, rcvd, handled>>
        /\ pc = "parse" /\ pc' = "dispatch"
        /\ DataSize(buf) > kHeadSize
    BY DEF DecodeHead
  <1>2. FramesApart' /\ HandledAsSent'
    BY <1>1 DEF FramesApart, HandledAsSent, Frames, Frame
  <1>3. Len(handled) \in Nat /\ Len(bounds) \in Nat
    BY LenProperties
  <1>4. PICK n \in Nat : n = Len(handled) + 1
    BY <1>3
  <1>5. n \in 1 .. Len(bounds) /\ Pos = bounds[n] /\ bounds[n] \in Nat
    BY <1>1, <1>3, <1>4 DEF HandledAsSent, Aligned
  <1>6. DataSize(buf) \in Nat
    BY BufferFacts DEF InBounds
  \* The header's bytes are there, so the frame is one that was written.
  <1>7. n \in Frames
    <2>1. n # Len(bounds)
      BY <1>1, <1>5, <1>6 DEF Written, Pos
    <2>. QED
      BY <1>3, <1>5, <2>1 DEF Frames
  <1>8. PICK size \in Nat : size = Frame(n).size
    BY <1>7 DEF FramesApart
  <1>9. need' = kHeadSize + size /\ need' \in Nat
    <2>1. HeaderAt(bounds[n]) = {size}
      BY <1>7, <1>8, HeaderIsNextFrame
    <2>2. \E sz \in HeaderAt(Pos) : need' = sz + kHeadSize
      BY DEF DecodeHead
    <2>. QED
      BY <1>5, <2>1, <2>2
  <1>10. /\ buf' \in Buffers /\ InBounds' /\ DataSize(buf') = DataSize(buf)
         /\ need' <= buf'.size
         /\ head' \in {"live", "freed"}
         /\ head' = "freed" => need' > DataSize(buf')
    <2>1. CASE need' > buf.size /\ buf' = Expand(buf, need' + 2 * kHeadSize)
               /\ head' = "freed"
      <3>1. /\ buf'.s = 0 /\ buf'.e = DataSize(buf)
            /\ buf'.size = need' + 2 * kHeadSize
            /\ buf' \in Buffers
        BY <2>1, <1>6, <1>9 DEF Expand, Buffers
      <3>2. DataSize(buf) <= buf.size /\ buf.size \in Nat
        BY DEF DataSize, Buffers, InBounds
      <3>. QED
        BY <2>1, <3>1, <3>2, <1>6, <1>9 DEF InBounds, DataSize
    <2>2. CASE need' <= buf.size /\ head' = "live" /\ buf' = buf
      BY <2>2 DEF InBounds
    <2>. QED
      BY <2>1, <2>2 DEF DecodeHead
  <1>11. Aligned'
    BY <1>1, <1>10 DEF Aligned, Pos
  <1>12. Frames' = Frames /\ Frame(n)' = Frame(n)
    BY <1>1 DEF Frames, Frame
  <1>13. Decoded'
    BY <1>1, <1>4, <1>7, <1>8, <1>9, <1>10, <1>12 DEF Decoded
  <1>. QED
    BY <1>1, <1>2, <1>9, <1>10, <1>11, <1>13 DEF Written

LEMMA AwaitMoreIInv == IInv /\ AwaitMore => IInv'
  <1>. SUFFICES ASSUME IInv, AwaitMore PROVE IInv'
    OBVIOUS
  <1>. USE DEF IInv, TypeOK
  <1>1. /\ UNCHANGED <<peer, bounds, rcvd, need, handled>>
        /\ pc \in {"parse", "dispatch"} /\ pc' = "wait" /\ head' = "none"
        /\ buf' = Move(buf)
    BY DEF AwaitMore, OutOfBytes
  <1>2. FramesApart' /\ HandledAsSent'
    BY <1>1 DEF FramesApart, HandledAsSent, Frames, Frame
  <1>3. /\ buf' \in Buffers /\ DataSize(buf') = DataSize(buf)
        /\ InBounds'
    <2>1. /\ Move(buf) \in Buffers /\ DataSize(Move(buf)) = DataSize(buf)
          /\ Move(buf).s = 0 /\ Move(buf).e = DataSize(buf)
          /\ Move(buf).size = buf.size /\ DataSize(buf) \in Nat
      BY BufferFacts DEF InBounds
    <2>. QED
      BY <1>1, <2>1 DEF InBounds, DataSize, Buffers
  <1>4. Aligned' /\ Decoded'
    BY <1>1, <1>3 DEF Aligned, Decoded, Pos
  <1>. QED
    BY <1>1, <1>2, <1>3, <1>4 DEF Written

LEMMA HandleRequestIInv == IInv /\ HandleRequest => IInv'
  <1>. SUFFICES ASSUME IInv, HandleRequest PROVE IInv'
    OBVIOUS
  <1>. USE HeadAssumption, BodyAssumption DEF IInv, TypeOK
  <1>1. /\ UNCHANGED <<peer, bounds, rcvd, need>>
        /\ pc = "dispatch" /\ head' = "none" /\ need <= DataSize(buf)
        /\ handled' = Append(handled, [at |-> Pos, size |-> need - kHeadSize])
    BY DEF HandleRequest
  <1>2. FramesApart'
    BY <1>1 DEF FramesApart, Frames, Frame
  <1>3. Len(handled) \in Nat /\ Len(bounds) \in Nat
    BY LenProperties
  <1>4. PICK n \in Nat : n = Len(handled) + 1
    BY <1>3
  <1>5. /\ n \in Frames /\ n \in 1 .. Len(bounds) - 1
        /\ need = kHeadSize + Frame(n).size
        /\ Pos = bounds[n]
    BY <1>1, <1>4 DEF Decoded, Aligned, Frames
  <1>6. /\ bounds[n] \in Nat /\ bounds[n + 1] \in Nat
        /\ bounds[n + 1] = bounds[n] + need
        /\ need - kHeadSize \in Nat
    <2>1. bounds[n] \in Nat /\ bounds[n + 1] \in Nat
      BY <1>3, <1>5
    <2>2. Frame(n).size = bounds[n + 1] - bounds[n] - kHeadSize
      BY DEF Frame
    <2>3. Frame(n).size \in Nat
      BY <1>5 DEF FramesApart
    <2>. QED
      BY <1>5, <2>1, <2>2, <2>3
  \* The frame handed over is the next one written.
  <1>7. /\ handled' \in Seq([at : Nat, size : Nat])
        /\ Len(handled') = n
        /\ \A k \in 1 .. Len(handled) : handled'[k] = handled[k]
        /\ handled'[n] = Frame(n)
    <2>1. [at |-> Pos, size |-> need - kHeadSize] = Frame(n)
      BY <1>5, <1>6 DEF Frame
    <2>2. [at |-> Pos, size |-> need - kHeadSize] \in [at : Nat, size : Nat]
      BY <1>5, <1>6
    <2>. QED
      BY <1>1, <1>4, <2>1, <2>2, AppendFacts
  <1>8. HandledAsSent'
    <2>1. \A k \in 1 .. n : handled'[k] = Frame(k)
      <3>. TAKE k \in 1 .. n
      <3>1. k = n \/ k \in 1 .. Len(handled)
        BY <1>3, <1>4
      <3>2. k \in 1 .. Len(handled) => handled[k] = Frame(k)
        BY DEF HandledAsSent
      <3>. QED
        BY <1>7, <3>1, <3>2
    <2>2. DOMAIN handled' = 1 .. n
      BY <1>7
    <2>3. \A k : Frame(k)' = Frame(k)
      BY <1>1 DEF Frame
    <2>4. n <= Len(bounds') - 1
      BY <1>1, <1>3, <1>5
    <2>. QED
      BY <1>7, <2>1, <2>2, <2>3, <2>4 DEF HandledAsSent
  <1>9. CASE peer = "open" /\ buf' = Dig(buf, need) /\ pc' = "parse"
    <2>1. /\ buf'.s = buf.s + need /\ buf'.e = buf.e /\ buf'.size = buf.size
          /\ buf' \in Buffers
      BY <1>9 DEF Dig, Buffers
    <2>2. InBounds'
      BY <1>1, <2>1 DEF Buffers, InBounds, DataSize
    <2>3. Pos' = bounds[n + 1]
      <3>1. Pos' = rcvd - (buf.e - (buf.s + need))
        BY <1>1, <2>1 DEF Pos, DataSize
      <3>2. bounds[n] = rcvd - (buf.e - buf.s)
        BY <1>5 DEF Pos, DataSize
      <3>3. buf.e \in Nat /\ buf.s \in Nat
        BY DEF Buffers
      <3>. QED
        BY <3>1, <3>2, <3>3, <1>6
    <2>4. Aligned'
      <3>1. bounds'[Len(handled') + 1] = bounds[n + 1]
        BY <1>1, <1>7
      <3>. QED
        BY <2>3, <3>1 DEF Aligned
    <2>5. Decoded'
      BY <1>9 DEF Decoded
    <2>. QED
      BY <1>1, <1>2, <1>7, <1>8, <1>9, <2>1, <2>2, <2>4, <2>5 DEF Written
  <1>10. CASE peer = "closed" /\ buf' = Move(ResetPos(buf)) /\ pc' = "wait"
    <2>1. buf' \in Buffers /\ InBounds'
      BY <1>10 DEF Move, ResetPos, DataSize, Buffers, InBounds
    <2>2. Aligned' /\ Decoded'
      BY <1>1, <1>10 DEF Aligned, Decoded
    <2>. QED
      BY <1>1, <1>2, <1>7, <1>8, <1>10, <2>1, <2>2 DEF Written
  <1>. QED
    BY <1>9, <1>10 DEF HandleRequest


LEMMA NextIInv == IInv /\ [Next]_vars => IInv'
  <1>1. IInv /\ UNCHANGED vars => IInv'
    BY DEF vars, IInv, TypeOK, InBounds, FramesApart, HandledAsSent, Aligned,
           Decoded, Frames, Frame, Written, Pos, DataSize
  <1>. QED
    BY <1>1, WriteFrameIInv, PeerCloseIInv, WaitReadableIInv, HangupIInv,
       RecvIInv, DecodeHeadIInv, AwaitMoreIInv, HandleRequestIInv
    DEF Next, Server

LEMMA SpecIInv == Spec => []IInv
  BY InitIInv, NextIInv, PTL DEF Spec

\* Type correctness.
THEOREM TypeCorrect == Spec => []TypeOK
  BY SpecIInv, PTL DEF IInv

\* The copies of the receive loop stay inside the connection's allocation.
THEOREM BufferSafe == Spec => []InBounds
  BY SpecIInv, PTL DEF IInv

\* Every request is handed to on_request_ once, whole, in the order the client
\* wrote them, however the stream is cut into pieces by recv.
THEOREM FramingCorrect == Spec => []HandledAsSent
  BY SpecIInv, PTL DEF IInv

\* The header is never read through `head` after Expand has freed its buffer.
THEOREM NoDanglingHead == Spec => []HeadIsLive
  <1>1. IInv => HeadIsLive
    BY BufferFacts DEF IInv, TypeOK, InBounds, Decoded, HeadIsLive, Buffers,
                       DataSize
  <1>. QED
    BY <1>1, SpecIInv, PTL

-----------------------------------------------------------------------------
(* Room in the buffer *)

LEMMA RoomStep == IInv /\ RoomToRead /\ [Next]_vars => RoomToRead'
  <1>. SUFFICES ASSUME IInv, RoomToRead, [Next]_vars PROVE RoomToRead'
    OBVIOUS
  <1>. USE HeadAssumption DEF IInv, TypeOK, Buffers
  <1>1. CASE UNCHANGED <<buf, pc>>
    BY <1>1 DEF RoomToRead, PitSize
  <1>2. CASE WriteFrame \/ PeerClose
    BY <1>1, <1>2 DEF WriteFrame, PeerClose
  <1>3. CASE WaitReadable
    BY <1>3 DEF WaitReadable, RoomToRead, PitSize
  <1>4. CASE Hangup
    BY <1>4 DEF Hangup, RoomToRead
  <1>5. CASE Recv
    BY <1>5 DEF Recv, RoomToRead, PitSize
  <1>6. CASE DecodeHead
    BY <1>6 DEF DecodeHead, RoomToRead
  \* What is left over fits in the buffer and leaves room: it is at most a
  \* header, or less than a frame that fits.
  <1>7. CASE AwaitMore
    <2>1. /\ buf' = Move(buf) /\ pc' = "wait" /\ pc \in {"parse", "dispatch"}
          /\ DataSize(buf) <= kHeadSize \/ (pc = "dispatch" /\ need > DataSize(buf))
      BY <1>7 DEF AwaitMore, OutOfBytes
    <2>2. /\ buf'.e = DataSize(buf) /\ buf'.size = buf.size
          /\ DataSize(buf) \in Nat
      BY <2>1, BufferFacts DEF InBounds
    <2>3. DataSize(buf) <= kHeadSize \/ DataSize(buf) < buf.size
      BY <2>1, <2>2 DEF Decoded
    <2>. QED
      BY <2>1, <2>2, <2>3 DEF RoomToRead, PitSize
  <1>8. CASE HandleRequest
    <2>1. CASE peer = "open" /\ buf' = Dig(buf, need) /\ pc' = "parse"
      BY <1>8, <2>1 DEF HandleRequest, RoomToRead
    <2>2. CASE peer = "closed" /\ buf' = Move(ResetPos(buf)) /\ pc' = "wait"
      BY <1>8, <2>2
      DEF HandleRequest, Move, ResetPos, DataSize, RoomToRead, PitSize
    <2>. QED
      BY <2>1, <2>2, <1>8 DEF HandleRequest
  <1>. QED
    BY <1>1, <1>2, <1>3, <1>4, <1>5, <1>6, <1>7, <1>8 DEF Next, Server, vars

\* A buffer larger than a header always has room for what an event announces:
\* no connection is reported readable for ever without being read.
THEOREM AlwaysRoomToRead == Spec => []RoomToRead
  <1>1. Init => RoomToRead
    BY HeadAssumption, BufferAssumption
    DEF Init, RoomToRead, NewBuffer, PitSize
  <1>. QED
    BY <1>1, RoomStep, SpecIInv, PTL DEF Spec

-----------------------------------------------------------------------------
(* Buffer::Move *)

\* What has been consumed since the last Move includes the last frame handled.
Consumed ==
    buf.s > 0 =>
        /\ Len(handled) \in Frames
        /\ kHeadSize + Frame(Len(handled)).size <= buf.s

LEMMA ConsumedStep == IInv /\ Consumed /\ [Next]_vars => Consumed'
  <1>. SUFFICES ASSUME IInv, Consumed, [Next]_vars PROVE Consumed'
    OBVIOUS
  <1>. USE DEF IInv, TypeOK
  <1>1. CASE UNCHANGED <<bounds, handled>> /\ (buf'.s = buf.s \/ buf'.s = 0)
    BY <1>1 DEF Consumed, Frames, Frame
  <1>2. CASE UNCHANGED vars
    BY <1>1, <1>2 DEF vars
  <1>3. CASE WriteFrame
    <2>1. /\ UNCHANGED <<buf, handled>>
          /\ \E body \in BodySizes : bounds' = Append(bounds, Written + kHeadSize + body)
      BY <1>3 DEF WriteFrame
    <2>2. /\ Len(bounds) \in Nat \ {0} /\ Written \in Nat
          /\ \A body \in BodySizes : Written + kHeadSize + body \in Nat
      BY HeadAssumption, BodyAssumption, LenProperties DEF Written
    <2>3. /\ Len(bounds') = Len(bounds) + 1
          /\ \A k \in 1 .. Len(bounds) : bounds'[k] = bounds[k]
      BY <2>1, <2>2, AppendFacts
    <2>4. ASSUME NEW k \in Frames
          PROVE  k \in Frames' /\ Frame(k)' = Frame(k)
      <3>1. /\ k \in 1 .. Len(bounds) /\ k + 1 \in 1 .. Len(bounds)
            /\ k \in 1 .. Len(bounds') - 1
        BY <2>2, <2>3 DEF Frames
      <3>. QED
        BY <3>1, <2>3 DEF Frames, Frame
    <2>. QED
      BY <2>1, <2>4 DEF Consumed
  <1>4. CASE PeerClose \/ WaitReadable
    BY <1>1, <1>4 DEF PeerClose, WaitReadable
  <1>5. CASE Hangup
    BY <1>1, <1>5 DEF Hangup, NewBuffer
  <1>6. CASE Recv
    BY <1>1, <1>6 DEF Recv, Fill
  <1>7. CASE DecodeHead
    BY <1>1, <1>7 DEF DecodeHead, Expand
  <1>8. CASE AwaitMore
    BY <1>1, <1>8 DEF AwaitMore, Move, ResetPos
  <1>9. CASE HandleRequest
    <2>1. /\ pc = "dispatch" /\ UNCHANGED bounds
          /\ handled' = Append(handled, [at |-> Pos, size |-> need - kHeadSize])
      BY <1>9 DEF HandleRequest
    <2>. PICK n \in Nat : n = Len(handled) + 1
      BY LenProperties
    <2>2. /\ n \in Frames /\ need = kHeadSize + Frame(n).size
          /\ Pos = bounds[n] /\ Frame(n).size \in Nat
      BY <2>1, BodyAssumption DEF Decoded, Aligned, FramesApart
    <2>3. Len(handled') = n
      <3>1. n \in 1 .. Len(bounds) /\ bounds[n] \in Nat
        BY <2>2, LenProperties DEF Frames
      <3>2. [at |-> Pos, size |-> need - kHeadSize] \in [at : Nat, size : Nat]
        BY <2>2, <3>1, HeadAssumption
      <3>. QED
        BY <2>1, <3>2, AppendFacts
    <2>4. CASE buf' = Dig(buf, need)
      <3>1. buf'.s = buf.s + need /\ buf.s \in Nat
        BY <2>4 DEF Dig, Buffers
      <3>2. n \in Frames' /\ Frame(n)' = Frame(n)
        BY <2>1, <2>2 DEF Frames, Frame
      <3>3. need <= buf.s + need
        BY <3>1
      <3>. QED
        BY <2>2, <2>3, <3>1, <3>2, <3>3 DEF Consumed
    <2>5. CASE buf' = Move(ResetPos(buf))
      BY <2>5 DEF Move, ResetPos, Consumed
    <2>. QED
      BY <1>9, <2>4, <2>5 DEF HandleRequest
  <1>. QED
    BY <1>2, <1>3, <1>4, <1>5, <1>6, <1>7, <1>8, <1>9 DEF Next, Server

\* When all requests have one size, what AwaitMore moves is shorter than what was
\* consumed before it: the memcpy of Buffer::Move is defined.
THEOREM MoveCopiesApart == Spec => []MoveDisjoint
  <1>1. Init => Consumed
    BY DEF Init, Consumed, NewBuffer
  <1>2. IInv /\ Consumed => MoveDisjoint
    <2>. SUFFICES ASSUME IInv, Consumed, OutOfBytes, buf.s > 0,
                         \A j, k \in Frames : Frame(j).size = Frame(k).size
                  PROVE  DataSize(buf) <= buf.s
      BY DEF MoveDisjoint, MoveIsDisjoint, IInv, TypeOK, Buffers
    <2>. USE DEF IInv, TypeOK
    <2>1. /\ Len(handled) \in Frames /\ kHeadSize + Frame(Len(handled)).size <= buf.s
          /\ Frame(Len(handled)).size \in Nat
      BY BodyAssumption DEF Consumed, FramesApart
    <2>2. buf.s \in Nat /\ DataSize(buf) \in Nat
      BY BufferFacts DEF InBounds, Buffers
    <2>3. CASE DataSize(buf) <= kHeadSize
      BY <2>1, <2>2, <2>3, HeadAssumption
    <2>4. CASE pc = "dispatch" /\ need > DataSize(buf)
      BY <2>1, <2>2, <2>4, HeadAssumption DEF Decoded
    <2>. QED
      BY <2>3, <2>4 DEF OutOfBytes
  <1>. QED
    BY <1>1, <1>2, ConsumedStep, SpecIInv, PTL DEF Spec

=============================================================================
