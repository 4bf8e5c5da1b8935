---------------------------- MODULE EpollFraming ----------------------------
(***************************************************************************)
(* How the epoll server cuts the byte stream of one connection into        *)
(* requests: the loop UDSockServer::Run (epoll/poll_server.cpp) runs for   *)
(* the events of one accepted socket, over the Buffer of that connection.  *)
(*                                                                         *)
(* The stream is abstracted to the offsets at which its frames begin:      *)
(* frame k occupies bounds[k] .. bounds[k+1]-1 and starts with a header of *)
(* kHeadSize bytes.  Bytes reach the reader in pieces of any length.  What *)
(* a header read says is known only where a frame begins; read anywhere    *)
(* else it says anything.                                                  *)
(***************************************************************************)
EXTENDS SockBuffer, Sequences

CONSTANTS
    kHeadSize,   \* sizeof(RpcRequestHdr)
    BufferSizes, \* the values of buffer_size_, the constructor's argument
    BodySizes,   \* the request sizes clients use
    MaxFrames    \* bound: the frames a client writes

ASSUME HeadAssumption == kHeadSize \in Nat \ {0}
ASSUME BufferAssumption == BufferSizes \subseteq Nat
ASSUME BodyAssumption == BodySizes \subseteq Nat
ASSUME FramesAssumption == MaxFrames \in Nat

VARIABLES
    peer,     \* the client's end of the connection: "open" or "closed"
    bounds,   \* offsets in the stream of the frames written, and of its end
    rcvd,     \* the bytes of the stream handed over by recv
    buf,      \* the connection's Buffer
    head,     \* what the local `head` points to: nothing, or a live or freed buffer
    need,     \* total_size of the frame at the front of the buffer
    pc,       \* where the event loop is in serving this connection
    handled   \* the frames passed to on_request_, oldest first

vars == <<peer, bounds, rcvd, buf, head, need, pc, handled>>

-----------------------------------------------------------------------------

Written == bounds[Len(bounds)]

Pos == rcvd - DataSize(buf)

Frame(k) == [at |-> bounds[k], size |-> bounds[k + 1] - bounds[k] - kHeadSize]

\* The frames written to the connection.
Frames == 1 .. Len(bounds) - 1

\* The data_size a header read at this offset of the stream can show.
HeaderAt(p) ==
    IF \E k \in Frames : bounds[k] = p
    THEN {Frame(k).size : k \in {j \in Frames : bounds[j] = p}}
    ELSE BodySizes

Init ==
    /\ peer = "open"
    /\ bounds = <<0>>
    /\ rcvd = 0
    /\ \E size \in BufferSizes : buf = NewBuffer(size)
    /\ head = "none"
    /\ need = 0
    /\ pc = "wait"
    /\ handled = <<>>

-----------------------------------------------------------------------------
(* The client *)

\* UDSockClient::SendRequest: header and body in one writev.
WriteFrame ==
    /\ peer = "open"
    /\ Len(bounds) <= MaxFrames
    /\ \E body \in BodySizes :
          bounds' = Append(bounds, Written + kHeadSize + body)
    /\ UNCHANGED <<peer, rcvd, buf, head, need, pc, handled>>

\* The client closes its end or exits, at any time.
PeerClose ==
    /\ peer = "open"
    /\ peer' = "closed"
    /\ UNCHANGED <<bounds, rcvd, buf, head, need, pc, handled>>

-----------------------------------------------------------------------------
(* The server's event loop *)

\* epoll_wait reports EPOLLIN for this connection.  The client may still
\* close before the event is served.
WaitReadable ==
    /\ pc = "wait"
    /\ peer = "open"
    /\ rcvd < Written
    /\ pc' = "recv"
    /\ UNCHANGED <<peer, bounds, rcvd, buf, head, need, handled>>

\* epoll_wait reports EPOLLHUP: the Buffer is deleted and the socket closed
\* with it, whatever has not been read.
Hangup ==
    /\ pc = "wait"
    /\ peer = "closed"
    /\ buf' = NewBuffer(0)
    /\ pc' = "dead"
    /\ UNCHANGED <<peer, bounds, rcvd, head, need, handled>>

\* Faulty Recv: asks recv for the whole buffer, not for its free part.
RecvWholeBuffer ==
    /\ pc = "recv"
    /\ \E n \in 1 .. Written - rcvd :
          /\ n <= buf.size
          /\ buf' = Fill(buf, n)
          /\ rcvd' = rcvd + n
    /\ pc' = "parse"
    /\ UNCHANGED <<peer, bounds, head, need, handled>>

\* RecvData into the free part of the buffer.  A recv of no bytes returns 0,
\* which RecvData turns into -1.
Recv ==
    /\ pc = "recv"
    /\ \/ /\ PitSize(buf) > 0
          /\ \E n \in 1 .. Written - rcvd :
                /\ n <= PitSize(buf)
                /\ buf' = Fill(buf, n)
                /\ rcvd' = rcvd + n
          /\ pc' = "parse"
       \/ /\ PitSize(buf) = 0
          /\ pc' = "wait"
          /\ UNCHANGED <<buf, rcvd>>
    /\ UNCHANGED <<peer, bounds, head, need, handled>>

\* Faulty DecodeHead: the header is left out of total_size.
DecodeBodySize ==
    /\ pc = "parse"
    /\ DataSize(buf) > kHeadSize
    /\ need' \in HeaderAt(Pos)
    /\ head' = "live"
    /\ pc' = "dispatch"
    /\ UNCHANGED <<peer, bounds, rcvd, buf, handled>>

\* Faulty DecodeHead: also grows a buffer the frame just fits.
DecodeExpandEarly ==
    /\ pc = "parse"
    /\ DataSize(buf) > kHeadSize
    /\ \E size \in HeaderAt(Pos) : need' = size + kHeadSize
    /\ \/ /\ need' >= buf.size
          /\ buf' = Expand(buf, need' + 2 * kHeadSize)
          /\ head' = "freed"
       \/ /\ need' < buf.size
          /\ head' = "live"
          /\ UNCHANGED buf
    /\ pc' = "dispatch"
    /\ UNCHANGED <<peer, bounds, rcvd, handled>>

\* Faulty DecodeHead: the buffer never grows, as in poll/poll_server.cpp.
DecodeNoExpand ==
    /\ pc = "parse"
    /\ DataSize(buf) > kHeadSize
    /\ \E size \in HeaderAt(Pos) : need' = size + kHeadSize
    /\ head' = "live"
    /\ pc' = "dispatch"
    /\ UNCHANGED <<peer, bounds, rcvd, buf, handled>>

\* More than a header is there: total_size is read from it, and the buffer
\* grows when the frame cannot fit.  `head` still points into the old one.
DecodeHead ==
    /\ pc = "parse"
    /\ DataSize(buf) > kHeadSize
    /\ \E size \in HeaderAt(Pos) : need' = size + kHeadSize
    /\ \/ /\ need' > buf.size
          /\ buf' = Expand(buf, need' + 2 * kHeadSize)
          /\ head' = "freed"
       \/ /\ need' <= buf.size
          /\ head' = "live"
          /\ UNCHANGED buf
    /\ pc' = "dispatch"
    /\ UNCHANGED <<peer, bounds, rcvd, handled>>

\* Faulty OutOfBytes: the loop also ends after one frame.
OutOfBytesOrOneFrame ==
    \/ pc = "parse" /\ (DataSize(buf) <= kHeadSize \/ buf.s > 0)
    \/ pc = "dispatch" /\ need > DataSize(buf)

\* The header or the body of the next frame is not all there.
OutOfBytes ==
    \/ pc = "parse" /\ DataSize(buf) <= kHeadSize
    \/ pc = "dispatch" /\ need > DataSize(buf)

\* Faulty AwaitMore: what is left over is not moved to the front.
AwaitInPlace ==
    /\ OutOfBytes
    /\ head' = "none"
    /\ pc' = "wait"
    /\ UNCHANGED <<peer, bounds, rcvd, buf, need, handled>>

\* The loop ends for lack of bytes.
AwaitMore ==
    /\ OutOfBytes
    /\ buf' = Move(buf)
    /\ head' = "none"
    /\ pc' = "wait"
    /\ UNCHANGED <<peer, bounds, rcvd, need, handled>>

\* Faulty HandleRequest: Dig goes by the header after the response's size has
\* been stored in it.
HandleThenReread ==
    /\ pc = "dispatch"
    /\ need <= DataSize(buf)
    /\ handled' = Append(handled, [at |-> Pos, size |-> need - kHeadSize])
    /\ \E response \in BodySizes : buf' = Dig(buf, kHeadSize + response)
    /\ pc' = "parse"
    /\ head' = "none"
    /\ UNCHANGED <<peer, bounds, rcvd, need>>

\* A whole frame: on_request_, then the response in one WriteVec.  The
\* response's size has replaced data_size in the header by the time of Dig,
\* which goes by the total_size computed before.  The write fails when the
\* client has closed; the buffer is then emptied.
HandleRequest ==
    /\ pc = "dispatch"
    /\ need <= DataSize(buf)
    /\ handled' = Append(handled, [at |-> Pos, size |-> need - kHeadSize])
    /\ \/ /\ peer = "open"
          /\ buf' = Dig(buf, need)
          /\ pc' = "parse"
       \/ /\ peer = "closed"
          /\ buf' = Move(ResetPos(buf))
          /\ pc' = "wait"
    /\ head' = "none"
    /\ UNCHANGED <<peer, bounds, rcvd, need>>

Server == \/ WaitReadable \/ Hangup \/ Recv
          \/ DecodeHead \/ AwaitMore \/ HandleRequest

Next == WriteFrame \/ PeerClose \/ Server

Spec == Init /\ [][Next]_vars

\* The thread in Run is never stopped between two events.
FairSpec == Spec /\ WF_vars(Server)

-----------------------------------------------------------------------------

\* The types of the connection's state: positions and sizes never go below 0,
\* nor does the size of a handled request.
TypeOK ==
    /\ peer \in {"open", "closed"}
    /\ bounds \in Seq(Nat) /\ Len(bounds) > 0
    /\ rcvd \in Nat
    /\ buf \in Buffers
    /\ head \in {"none", "live", "freed"}
    /\ need \in Nat
    /\ pc \in {"wait", "recv", "parse", "dispatch", "dead"}
    /\ handled \in Seq([at : Nat, size : Nat])

\* Every copy stays inside the allocation: recv fills at most the free part,
\* Dig never passes the bytes received, Expand has room for what it takes over.
InBounds == buf.s <= buf.e /\ buf.e <= buf.size

\* The loop never goes back to epoll_wait with a full buffer, if the buffer is
\* larger than a header: recv would be asked for no bytes, report a failure,
\* and the same event would come back for ever.
RoomToRead == pc \in {"wait", "recv"} /\ buf.size > kHeadSize => PitSize(buf) > 0

\* on_request_ and WriteVec read the header through `head`: by then Expand
\* has not freed the buffer it points into.
HeadIsLive == pc = "dispatch" /\ need <= DataSize(buf) => head = "live"

\* on_request_ sees the frames the client wrote, each once, in order, with
\* the bounds the client gave them.
HandledAsSent ==
    /\ Len(handled) <= Len(bounds) - 1
    /\ \A k \in DOMAIN handled : handled[k] = Frame(k)

\* As long as all requests have one size the memcpy of Buffer::Move never
\* overlaps: what is left is shorter than what was consumed before it.
MoveDisjoint ==
    OutOfBytes /\ (\A j, k \in Frames : Frame(j).size = Frame(k).size)
        => MoveIsDisjoint(buf)

\* A frame is handled once one byte after its header has been written,
\* unless the client goes away or the buffer is too small to read a header
\* and more.  (A frame with an empty body at the end of the stream waits for
\* the next one: the loop wants more than a header.)
EventuallyHandled ==
    \A k \in 1 .. MaxFrames :
        (k < Len(bounds) /\ Written > bounds[k] + kHeadSize)
            ~> \/ Len(handled) >= k \/ peer = "closed"
               \/ buf.size <= kHeadSize
=============================================================================
