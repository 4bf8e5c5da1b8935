------------------------------ MODULE EpollSend -----------------------------
(***************************************************************************)
(* The two mutexes of UDSockClient (epoll/poll_client.cpp) and the writes  *)
(* under them, over sockets that hold only so much.  A request or response *)
(* is written by one writev, which the kernel carries out in pieces; a     *)
(* piece (a unit below) fits in the socket or it waits.  The pieces of two *)
(* requests must not mix, the response must find the callback, and the     *)
(* callers, the thread in Run and the server's one thread, each waiting    *)
(* for room or for a lock, must not wait for each other for ever.          *)
(*                                                                         *)
(* The connection stays up: EpollClient has its loss.  A request and its   *)
(* response have the same number of units, as in epoll/loop_ser.cpp.       *)
(***************************************************************************)
EXTENDS Integers, Sequences

CONSTANTS
    Threads,      \* the threads that call SendRequest
    MaxCalls,     \* bound: the calls of each of them
    Units,        \* the units of a frame
    Room          \* the units a socket holds on its way to the reader

ASSUME UnitsAssumption == Units \in Nat \ {0}
ASSUME RoomAssumption == Room \in Nat \ {0}
ASSUME CallsAssumption == MaxCalls \in Nat

Calls == Threads \X (1 .. MaxCalls)

VARIABLES
    nonBlocking, \* whether sock_ is non-blocking, as after ConnectServer
    lockReq,   \* who holds lock_req_
    lockSend,  \* who holds lock_send_
    request,   \* the calls with an entry in request_
    tpc,       \* where each calling thread is in SendRequest
    made,      \* how many calls each thread has begun
    written,   \* the units of its request each thread has written
    rpc,       \* where the thread in Run is
    rbuf,      \* its Buffer
    c2s, s2c,  \* the units on their way
    sbuf,      \* the server's Buffer
    sout,      \* what the server still has to write of a response
    called     \* the calls whose callback has run

tvars == <<tpc, made, written>>
cvars == <<rpc, rbuf, called>>
svars == <<sbuf, sout>>
vars == <<nonBlocking, lockReq, lockSend, request, tvars, cvars, c2s, s2c, svars>>

Free == "free"
Receiver == "run"

ASSUME HoldersAssumption == {Free, Receiver} \cap Threads = {}

Current(t) == <<t, made[t]>>

Frame(c) == [i \in 1 .. Units |-> [call |-> c, unit |-> i]]

Init ==
    /\ nonBlocking \in BOOLEAN
    /\ lockReq = Free
    /\ lockSend = Free
    /\ request = {}
    /\ tpc = [t \in Threads |-> "idle"]
    /\ made = [t \in Threads |-> 0]
    /\ written = [t \in Threads |-> 0]
    /\ rpc = "recv"
    /\ rbuf = <<>>
    /\ c2s = <<>>
    /\ s2c = <<>>
    /\ sbuf = <<>>
    /\ sout = <<>>
    /\ called = {}

-----------------------------------------------------------------------------
(* SendRequest *)

Call(t) ==
    /\ tpc[t] = "idle"
    /\ made[t] < MaxCalls
    /\ made' = [made EXCEPT ![t] = @ + 1]
    /\ written' = [written EXCEPT ![t] = 0]
    /\ tpc' = [tpc EXCEPT ![t] = "file"]
    /\ UNCHANGED <<lockReq, lockSend, request, cvars, c2s, s2c, svars>>

\* The callback is filed under lock_req_ ...
File(t) ==
    /\ tpc[t] = "file"
    /\ lockReq = Free
    /\ lockReq' = t
    /\ request' = request \cup {Current(t)}
    /\ tpc' = [tpc EXCEPT ![t] = "filed"]
    /\ UNCHANGED <<lockSend, made, written, cvars, c2s, s2c, svars>>

\* ... and lock_req_ is released before the frame is written.
Filed(t) ==
    /\ tpc[t] = "filed"
    /\ lockReq' = Free
    /\ tpc' = [tpc EXCEPT ![t] = "send"]
    /\ UNCHANGED <<lockSend, request, made, written, cvars, c2s, s2c, svars>>

\* Faulty LockSend: there is no lock_send_.
LockNothing(t) ==
    /\ tpc[t] = "send"
    /\ tpc' = [tpc EXCEPT ![t] = "write"]
    /\ UNCHANGED <<lockReq, lockSend, request, made, written, cvars, c2s, s2c,
                   svars>>

LockSend(t) ==
    /\ tpc[t] = "send"
    /\ lockSend = Free
    /\ lockSend' = t
    /\ tpc' = [tpc EXCEPT ![t] = "write"]
    /\ UNCHANGED <<lockReq, request, made, written, cvars, c2s, s2c, svars>>

\* Faulty WriteUnit: the socket is written to whether there is room or not.
WriteUnbounded(t) ==
    /\ tpc[t] = "write"
    /\ written[t] < Units
    /\ c2s' = Append(c2s, Frame(Current(t))[written[t] + 1])
    /\ written' = [written EXCEPT ![t] = @ + 1]
    /\ UNCHANGED <<lockReq, lockSend, request, tpc, made, cvars, s2c, svars>>

\* writev goes on while there is room; without any it waits, or it is called
\* again for EAGAIN.
WriteUnit(t) ==
    /\ tpc[t] = "write"
    /\ written[t] < Units
    /\ Len(c2s) < Room
    /\ c2s' = Append(c2s, Frame(Current(t))[written[t] + 1])
    /\ written' = [written EXCEPT ![t] = @ + 1]
    /\ UNCHANGED <<lockReq, lockSend, request, tpc, made, cvars, s2c, svars>>

\* writev on a non-blocking socket returns what it has written when there is
\* no more room: WriteVec's assertion fails and the process ends.
WritePartial(t) ==
    /\ nonBlocking
    /\ tpc[t] = "write"
    /\ written[t] \in 1 .. Units - 1
    /\ Len(c2s) = Room
    /\ tpc' = [tpc EXCEPT ![t] = "aborted"]
    /\ UNCHANGED <<lockReq, lockSend, request, made, written, cvars, c2s, s2c,
                   svars>>

\* The frame is written, lock_send_ released, 0 returned.
Return(t) ==
    /\ tpc[t] = "write"
    /\ written[t] = Units
    /\ lockSend' = Free
    /\ tpc' = [tpc EXCEPT ![t] = "idle"]
    /\ UNCHANGED <<lockReq, request, made, written, cvars, c2s, s2c, svars>>

\* Faulty Proceed: lock_req_ is held until the frame is written.
ProceedUnderLockReq(t) ==
    \/ File(t)
    \/ /\ tpc[t] = "filed"
       /\ tpc' = [tpc EXCEPT ![t] = "send"]
       /\ UNCHANGED <<lockReq, lockSend, request, made, written, cvars, c2s, s2c,
                      svars>>
    \/ LockSend(t) \/ WriteUnit(t)
    \/ /\ tpc[t] = "write"
       /\ written[t] = Units
       /\ lockReq' = Free
       /\ lockSend' = Free
       /\ tpc' = [tpc EXCEPT ![t] = "idle"]
       /\ UNCHANGED <<request, made, written, cvars, c2s, s2c, svars>>

\* Faulty Proceed: the frame is written first, the callback filed next.
ProceedWriteFirst(t) ==
    \/ /\ tpc[t] = "file"
       /\ lockSend = Free
       /\ lockSend' = t
       /\ tpc' = [tpc EXCEPT ![t] = "write"]
       /\ UNCHANGED <<lockReq, request, made, written, cvars, c2s, s2c, svars>>
    \/ WriteUnit(t)
    \/ /\ tpc[t] = "write"
       /\ written[t] = Units
       /\ lockReq = Free
       /\ request' = request \cup {Current(t)}
       /\ lockSend' = Free
       /\ tpc' = [tpc EXCEPT ![t] = "idle"]
       /\ UNCHANGED <<lockReq, made, written, cvars, c2s, s2c, svars>>

\* SendRequest, once called.
Proceed(t) ==
    \/ File(t) \/ Filed(t)
    \/ LockSend(t) \/ WriteUnit(t) \/ WritePartial(t) \/ Return(t)

-----------------------------------------------------------------------------
(* Run *)

Recv ==
    /\ rpc = "recv"
    /\ s2c # <<>>
    /\ rbuf' = Append(rbuf, Head(s2c))
    /\ s2c' = Tail(s2c)
    /\ rpc' = IF Len(rbuf') = Units THEN "lock" ELSE "recv"
    /\ UNCHANGED <<lockReq, lockSend, request, tvars, called, c2s, svars>>

LockReq ==
    /\ rpc = "lock"
    /\ lockReq = Free
    /\ lockReq' = Receiver
    /\ rpc' = "callback"
    /\ UNCHANGED <<lockSend, request, tvars, rbuf, called, c2s, s2c, svars>>

\* Faulty Callback: the table is emptied with every response.
CallbackClearsAll ==
    /\ rpc = "callback"
    /\ called' = called \cup ({Head(rbuf).call} \cap request)
    /\ request' = {}
    /\ rbuf' = <<>>
    /\ lockReq' = Free
    /\ rpc' = "recv"
    /\ UNCHANGED <<lockSend, tvars, c2s, s2c, svars>>

\* The callback runs, if it is filed, and lock_req_ is released.
Callback ==
    /\ rpc = "callback"
    /\ called' = called \cup ({Head(rbuf).call} \cap request)
    /\ request' = request \ {Head(rbuf).call}
    /\ rbuf' = <<>>
    /\ lockReq' = Free
    /\ rpc' = "recv"
    /\ UNCHANGED <<lockSend, tvars, c2s, s2c, svars>>

Run == Recv \/ LockReq \/ Callback

-----------------------------------------------------------------------------
(* The server: one thread, which reads no more while it writes a response *)

ServerRecv ==
    /\ sout = <<>>
    /\ Len(sbuf) < Units
    /\ c2s # <<>>
    /\ sbuf' = Append(sbuf, Head(c2s))
    /\ c2s' = Tail(c2s)
    /\ UNCHANGED <<lockReq, lockSend, request, tvars, cvars, s2c, sout>>

ServerHandle ==
    /\ Len(sbuf) = Units
    /\ sout' = Frame(Head(sbuf).call)
    /\ sbuf' = <<>>
    /\ UNCHANGED <<lockReq, lockSend, request, tvars, cvars, c2s, s2c>>

ServerWrite ==
    /\ sout # <<>>
    /\ Len(s2c) < Room
    /\ s2c' = Append(s2c, Head(sout))
    /\ sout' = Tail(sout)
    /\ UNCHANGED <<lockReq, lockSend, request, tvars, cvars, c2s, sbuf>>

Server == ServerRecv \/ ServerHandle \/ ServerWrite

-----------------------------------------------------------------------------

Aborted == \E t \in Threads : tpc[t] = "aborted"

Running == ~ Aborted /\ UNCHANGED nonBlocking

Next ==
    /\ Running
    /\ \/ \E t \in Threads : Call(t) \/ Proceed(t)
       \/ Run
       \/ Server

Spec == Init /\ [][Next]_vars

\* Threads that can go on do so.  A mutex or a socket others keep taking is
\* got in the end, as each thread makes a bounded number of calls.
FairSpec ==
    /\ Spec
    /\ \A t \in Threads : WF_vars(Running /\ Proceed(t))
    /\ WF_vars(Running /\ Run)
    /\ WF_vars(Running /\ Server)

-----------------------------------------------------------------------------

UnitSet == [call : Calls, unit : 1 .. Units]

\* The types; a socket never holds more than Room units, and no reader's or
\* writer's buffer more than a frame.
TypeOK ==
    /\ nonBlocking \in BOOLEAN
    /\ lockReq \in Threads \cup {Free, Receiver}
    /\ lockSend \in Threads \cup {Free}
    /\ request \subseteq Calls
    /\ tpc \in [Threads -> {"idle", "file", "filed", "send", "write", "aborted"}]
    /\ made \in [Threads -> 0 .. MaxCalls]
    /\ written \in [Threads -> 0 .. Units]
    /\ rpc \in {"recv", "lock", "callback"}
    /\ rbuf \in Seq(UnitSet) /\ Len(rbuf) <= Units
    /\ c2s \in Seq(UnitSet) /\ Len(c2s) <= Room
    /\ s2c \in Seq(UnitSet) /\ Len(s2c) <= Room
    /\ sbuf \in Seq(UnitSet) /\ Len(sbuf) <= Units
    /\ sout \in Seq(UnitSet) /\ Len(sout) <= Units
    /\ called \subseteq Calls

\* What a stream holds are whole frames, one after the other; the first may
\* have lost units to the reader and the last may be waiting for its own.
WholeFrames(stream) ==
    \A i \in 1 .. Len(stream) - 1 :
        LET a == stream[i]
            b == stream[i + 1]
        IN  IF a.unit = Units
            THEN b.unit = 1
            ELSE b = [call |-> a.call, unit |-> a.unit + 1]

\* The frames of two threads never mix on the connection, in either direction,
\* and what is in a reader's buffer begins with the beginning of a frame.
FramesUnmixed ==
    /\ WholeFrames(sbuf \o c2s)
    /\ WholeFrames(rbuf \o s2c \o sout)
    /\ sbuf # <<>> => sbuf[1].unit = 1
    /\ rbuf # <<>> => rbuf[1].unit = 1

\* A response never arrives before its callback is filed: whatever is on the
\* connection belongs to a call that has its entry in request_.
FiledBeforeSent ==
    LET stream == rbuf \o s2c \o sout \o sbuf \o c2s
    IN  \A i \in DOMAIN stream : stream[i].call \in request

\* Every call of SendRequest returns: no cycle of full sockets and held locks
\* stops the callers, the thread in Run and the server.  (WriteVec's assertion
\* does, on a non-blocking socket.)
CallsReturn ==
    \A t \in Threads :
        tpc[t] # "idle" ~> tpc[t] = "idle" \/ (nonBlocking /\ Aborted)

\* Every request is answered through its callback.
CallsAnswered ==
    \A t \in Threads : \A n \in 1 .. MaxCalls :
        made[t] = n ~> <<t, n>> \in called \/ (nonBlocking /\ Aborted)

\* WriteVec: assert(n == bsize + hsize).
WritesWhole == ~ Aborted
=============================================================================
