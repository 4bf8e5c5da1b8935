--------------------------- MODULE EpollSend_proofs --------------------------
(***************************************************************************)
(* Theorems about EpollSend for any number of threads and calls, any size  *)
(* of frames and of sockets: the two mutexes keep the frames of the        *)
(* threads apart, and a response finds its callback filed.                 *)
(*                                                                         *)
(* All units there are, from the one next to be consumed to the one last   *)
(* written, form one sequence, the Stream.  Reading and answering only     *)
(* moves the borders in it; a write adds to its end; a callback takes one  *)
(* whole frame from its front.                                             *)
(***************************************************************************)
EXTENDS EpollSend, PipeLemmas

\* The responses, what is left of them to write included, and the requests.
Answers == rbuf \o s2c \o sout
Requests == sbuf \o c2s
Stream == Answers \o Requests

Writing(t) == tpc[t] \in {"write", "aborted"}

\* Locks, and how far Run and the server are.
Control ==
    /\ \A t \in Threads : Writing(t) => lockSend = t
    /\ \A t \in Threads : tpc[t] # "idle" => made[t] > 0
    /\ \A t \in Threads : tpc[t] \in {"file", "filed", "send"} => written[t] = 0
    /\ rpc = "recv" <=> Len(rbuf) < Units
    /\ sbuf # <<>> => sout = <<>>

\* A reader's buffer holds the beginning of one frame.
OneFrame(buffer) ==
    \A i \in 1 .. Len(buffer) : buffer[i].call = buffer[1].call /\ buffer[i].unit = i

\* The stream is cut into frames, and no call has two; the responses end with
\* the end of a frame.
Framed ==
    /\ WholeFrames(Stream)
    /\ Stream # <<>> => Stream[1].unit = 1
    /\ \A i, j \in 1 .. Len(Stream) :
          Stream[i].call = Stream[j].call => Stream[j].unit - Stream[i].unit = j - i
    /\ Answers # <<>> => Stream[Len(Answers)].unit = Units

\* The stream ends with what the thread that writes has written of its frame, or
\* with a whole frame.
Ending ==
    /\ \A t \in Threads : Writing(t) =>
          /\ \A i \in 1 .. Len(Stream) : Stream[i].call = Current(t)
                => Stream[i].unit = written[t] - (Len(Stream) - i)
          /\ written[t] \in 1 .. Units - 1 =>
                /\ Stream # <<>>
                /\ Stream[Len(Stream)] = [call |-> Current(t), unit |-> written[t]]
    /\ (\A t \in Threads : Writing(t) => written[t] \in {0, Units})
          => (Stream # <<>> => Stream[Len(Stream)].unit = Units)

\* What is in the stream was begun, and is filed, as is what is to be written.
Known ==
    /\ \A i \in 1 .. Len(Stream) :
          /\ Stream[i].call[2] <= made[Stream[i].call[1]]
          /\ Stream[i].call \in request
    /\ \A t \in Threads : tpc[t] \in {"file", "filed", "send"}
          => \A i \in 1 .. Len(Stream) : Stream[i].call # Current(t)
    /\ \A t \in Threads :
          tpc[t] \in {"filed", "send"} \/ (Writing(t) /\ written[t] < Units)
             => Current(t) \in request

IInv ==
    /\ TypeOK
    /\ Control
    /\ OneFrame(rbuf) /\ OneFrame(sbuf)
    /\ Framed /\ Ending /\ Known

-----------------------------------------------------------------------------
(* The stream and its parts *)

LEMMA StreamParts ==
    ASSUME TypeOK
    PROVE  /\ Answers \in Seq(UnitSet) /\ Requests \in Seq(UnitSet)
           /\ Stream \in Seq(UnitSet) /\ rbuf \o s2c \in Seq(UnitSet)
           /\ Len(Answers) \in Nat /\ Len(Requests) \in Nat
           /\ Len(Stream) = Len(Answers) + Len(Requests)
           /\ Len(rbuf) \in 0 .. Len(Answers) /\ Len(sbuf) \in 0 .. Len(Requests)
           /\ \A i \in 1 .. Len(Answers) : Stream[i] = Answers[i]
           /\ \A i \in 1 .. Len(Requests) : Stream[Len(Answers) + i] = Requests[i]
           /\ \A i \in 1 .. Len(rbuf) : Stream[i] = rbuf[i]
           /\ \A i \in 1 .. Len(sbuf) : Stream[Len(Answers) + i] = sbuf[i]
           /\ \A i \in 1 .. Len(Stream) : Stream[i] \in UnitSet
           /\ DOMAIN Stream = 1 .. Len(Stream)
           /\ Stream # <<>> <=> Len(Stream) > 0
           /\ Answers # <<>> <=> Len(Answers) > 0
  <1>1. /\ rbuf \in Seq(UnitSet) /\ s2c \in Seq(UnitSet) /\ sout \in Seq(UnitSet)
        /\ sbuf \in Seq(UnitSet) /\ c2s \in Seq(UnitSet)
    BY DEF TypeOK
  <1>2. rbuf \o s2c \in Seq(UnitSet) /\ Requests \in Seq(UnitSet)
    BY <1>1, ConcatProperties DEF Requests
  <1>3. Answers \in Seq(UnitSet)
    BY <1>1, <1>2, ConcatProperties DEF Answers
  <1>4. Stream \in Seq(UnitSet)
    BY <1>2, <1>3, ConcatProperties DEF Stream
  <1>5. /\ Len(rbuf) \in Nat /\ Len(s2c) \in Nat /\ Len(sout) \in Nat /\ Len(sbuf) \in Nat
        /\ Len(c2s) \in Nat /\ Len(Answers) \in Nat /\ Len(Requests) \in Nat
    BY <1>1, <1>2, <1>3, LenProperties
  <1>6. /\ Len(Stream) = Len(Answers) + Len(Requests)
        /\ \A i \in 1 .. Len(Answers) + Len(Requests) :
              Stream[i] = IF i <= Len(Answers) THEN Answers[i] ELSE Requests[i - Len(Answers)]
    BY <1>2, <1>3, ConcatProperties DEF Stream
  <1>7. /\ Len(Requests) = Len(sbuf) + Len(c2s)
        /\ \A i \in 1 .. Len(sbuf) + Len(c2s) :
              Requests[i] = IF i <= Len(sbuf) THEN sbuf[i] ELSE c2s[i - Len(sbuf)]
    BY <1>1, ConcatProperties DEF Requests
  <1>8. /\ Len(rbuf \o s2c) = Len(rbuf) + Len(s2c)
        /\ \A i \in 1 .. Len(rbuf) + Len(s2c) :
              (rbuf \o s2c)[i] = IF i <= Len(rbuf) THEN rbuf[i] ELSE s2c[i - Len(rbuf)]
    BY <1>1, ConcatProperties
  <1>9. /\ Len(Answers) = Len(rbuf \o s2c) + Len(sout)
        /\ \A i \in 1 .. Len(rbuf \o s2c) + Len(sout) :
              Answers[i] = IF i <= Len(rbuf \o s2c) THEN (rbuf \o s2c)[i]
                           ELSE sout[i - Len(rbuf \o s2c)]
    BY <1>1, <1>2, ConcatProperties DEF Answers
  <1>10. /\ Len(rbuf) \in 0 .. Len(Answers) /\ Len(sbuf) \in 0 .. Len(Requests)
    BY <1>5, <1>7, <1>8, <1>9
  <1>11. \A i \in 1 .. Len(rbuf) : Answers[i] = rbuf[i]
    BY <1>5, <1>8, <1>9
  <1>12. \A i \in 1 .. Len(sbuf) : Requests[i] = sbuf[i]
    BY <1>5, <1>7
  <1>13. /\ \A i \in 1 .. Len(Answers) : Stream[i] = Answers[i]
         /\ \A i \in 1 .. Len(Requests) : Stream[Len(Answers) + i] = Requests[i]
    <2>1. \A i \in 1 .. Len(Answers) : Stream[i] = Answers[i]
      BY <1>5, <1>6
    <2>2. ASSUME NEW i \in 1 .. Len(Requests)
          PROVE  Stream[Len(Answers) + i] = Requests[i]
      <3>1. /\ Len(Answers) + i \in 1 .. Len(Answers) + Len(Requests)
            /\ ~ (Len(Answers) + i <= Len(Answers)) /\ (Len(Answers) + i) - Len(Answers) = i
        BY <1>5
      <3>. QED
        BY <3>1, <1>6
    <2>. QED
      BY <2>1, <2>2
  <1>14. /\ \A i \in 1 .. Len(rbuf) : i \in 1 .. Len(Answers)
         /\ \A i \in 1 .. Len(sbuf) : i \in 1 .. Len(Requests)
    BY <1>5, <1>10
  <1>15. /\ \A i \in 1 .. Len(Stream) : Stream[i] \in UnitSet
         /\ DOMAIN Stream = 1 .. Len(Stream)
    BY <1>4, ElementOfSeq, LenProperties
  <1>16. /\ Stream # <<>> <=> Len(Stream) > 0
         /\ Answers # <<>> <=> Len(Answers) > 0
    BY <1>3, <1>4, EmptySeq
  <1>. QED
    BY <1>2, <1>3, <1>4, <1>5, <1>6, <1>10, <1>11, <1>12, <1>13, <1>14, <1>15, <1>16

LEMMA InvProperties ==
    ASSUME IInv
    PROVE  FramesUnmixed /\ FiledBeforeSent
  <1>1. TypeOK
    BY DEF IInv
  <1>. PICK k \in Nat, m \in Nat : k = Len(Answers) /\ m = Len(Requests)
    BY <1>1, StreamParts
  <1>2. /\ Len(Stream) = k + m
        /\ \A i \in 1 .. k : Stream[i] = Answers[i]
        /\ \A i \in 1 .. m : Stream[k + i] = Requests[i]
    BY <1>1, StreamParts
  <1>3. WholeFrames(Stream)
    BY DEF IInv, Framed
  <1>4. WholeFrames(Answers)
    <2>1. ASSUME NEW i \in 1 .. k - 1
          PROVE  i \in 1 .. Len(Stream) - 1 /\ Stream[i] = Answers[i] /\ Stream[i + 1] = Answers[i + 1]
      BY <1>2
    <2>. QED
      BY <2>1, <1>3 DEF WholeFrames
  <1>5. WholeFrames(Requests)
    <2>1. ASSUME NEW i \in 1 .. m - 1
          PROVE  /\ k + i \in 1 .. Len(Stream) - 1 /\ Stream[k + i] = Requests[i]
                 /\ Stream[(k + i) + 1] = Requests[i + 1]
      <3>1. i \in 1 .. m /\ i + 1 \in 1 .. m /\ (k + i) + 1 = k + (i + 1)
        OBVIOUS
      <3>. QED
        BY <3>1, <1>2
    <2>. QED
      BY <2>1, <1>3 DEF WholeFrames
  <1>6. /\ rbuf # <<>> => rbuf[1].unit = 1
        /\ sbuf # <<>> => sbuf[1].unit = 1
    <2>1. /\ rbuf # <<>> => 1 \in 1 .. Len(rbuf)
          /\ sbuf # <<>> => 1 \in 1 .. Len(sbuf)
      BY <1>1, EmptySeq DEF TypeOK
    <2>. QED
      BY <2>1 DEF IInv, OneFrame
  <1>7. FramesUnmixed
    BY <1>4, <1>5, <1>6 DEF FramesUnmixed, Answers, Requests
  <1>8. FiledBeforeSent
    <2>1. rbuf \o s2c \o sout \o sbuf \o c2s = Stream
      <3>1. Answers \in Seq(UnitSet) /\ sbuf \in Seq(UnitSet) /\ c2s \in Seq(UnitSet)
        BY <1>1, StreamParts DEF TypeOK
      <3>2. (Answers \o sbuf) \o c2s = Answers \o (sbuf \o c2s)
        BY <3>1, ConcatAssociative
      <3>. QED
        BY <3>2 DEF Stream, Requests, Answers
    <2>. QED
      BY <1>1, <2>1, StreamParts DEF FiledBeforeSent, IInv, Known
  <1>. QED
    BY <1>7, <1>8

-----------------------------------------------------------------------------
(* The steps of the threads that send *)

\* The stream is what it was.
LEMMA StreamKept ==
    ASSUME UNCHANGED <<rbuf, c2s, s2c, svars>>
    PROVE  UNCHANGED <<Stream, Answers, Requests>>
  BY DEF svars, Stream, Answers, Requests

\* What is left to show of a step that moves one thread on and leaves the stream
\* and its parts alone.
LEMMA ThreadInv ==
    ASSUME IInv, TypeOK', Ending', Known',
           UNCHANGED <<rpc, rbuf, c2s, s2c, svars>>,
           NEW t \in Threads, made'[t] >= made[t],
           tpc'[t] # "idle" => made'[t] > 0,
           tpc'[t] \in {"file", "filed", "send"} => written'[t] = 0,
           Writing(t)' => lockSend' = t,
           \A u \in Threads \ {t} :
               /\ UNCHANGED <<tpc[u], made[u], written[u]>>
               /\ Writing(u) => lockSend' = lockSend
    PROVE  IInv'
  <1>1. Control'
    <2>1. /\ \A u \in Threads : Writing(u)' => lockSend' = u
          /\ \A u \in Threads : tpc'[u] # "idle" => made'[u] > 0
          /\ \A u \in Threads : tpc'[u] \in {"file", "filed", "send"} => written'[u] = 0
      BY DEF IInv, Control, Writing
    <2>2. /\ (rpc' = "recv") <=> (Len(rbuf') < Units)
          /\ sbuf' # <<>> => sout' = <<>>
      BY DEF IInv, Control, svars
    <2>. QED
      BY <2>1, <2>2 DEF Control
  <1>2. OneFrame(rbuf') /\ OneFrame(sbuf') /\ Framed'
    <2>1. UNCHANGED <<rbuf, sbuf, Stream, Answers>>
      BY StreamKept DEF svars
    <2>. QED
      BY <2>1 DEF IInv, Framed
  <1>. QED
    BY <1>1, <1>2 DEF IInv

LEMMA CallStep ==
    ASSUME IInv, NEW t \in Threads, Call(t), Running
    PROVE  IInv'
  <1>1. /\ TypeOK /\ tpc[t] = "idle" /\ made[t] < MaxCalls /\ made[t] \in 0 .. MaxCalls
        /\ made' = [made EXCEPT ![t] = made[t] + 1]
        /\ written' = [written EXCEPT ![t] = 0]
        /\ tpc' = [tpc EXCEPT ![t] = "file"]
        /\ UNCHANGED <<nonBlocking, lockReq, lockSend, request, rpc, rbuf, called, c2s, s2c,
                       svars, Stream, Answers, Requests>>
    BY StreamKept DEF IInv, Call, Running, cvars, TypeOK
  <1>2. /\ tpc'[t] = "file" /\ made'[t] = made[t] + 1 /\ written'[t] = 0
        /\ \A u \in Threads \ {t} :
              UNCHANGED <<tpc[u], made[u], written[u]>> /\ Current(u)' = Current(u)
        /\ Current(t)' = <<t, made[t] + 1>>
    BY <1>1 DEF TypeOK, Current
  <1>3. TypeOK'
    <2>1. made[t] + 1 \in 0 .. MaxCalls /\ 0 \in 0 .. Units
      BY <1>1, CallsAssumption, UnitsAssumption
    <2>. QED
      BY <1>1, <2>1 DEF TypeOK, svars
  <1>4. Ending'
    <2>1. \A u \in Threads : Writing(u)' <=> Writing(u) /\ u # t
      BY <1>1, <1>2 DEF Writing
    <2>. QED
      BY <1>1, <1>2, <2>1 DEF IInv, Ending, Writing
  <1>5. Known'
    <2>1. \A i \in 1 .. Len(Stream) : Stream[i].call \in Calls
      BY <1>1, StreamParts DEF UnitSet
    <2>2. \A c \in Calls : made[c[1]] <= made'[c[1]]
      BY <1>1 DEF TypeOK, Calls
    <2>3. ASSUME NEW i \in 1 .. Len(Stream)
          PROVE  Stream[i].call[2] <= made'[Stream[i].call[1]] /\ Stream[i].call # <<t, made[t] + 1>>
      <3>. PICK c \in Calls : c = Stream[i].call
        BY <2>1
      <3>1. c[2] <= made[c[1]] /\ c[2] \in Nat /\ c[1] \in Threads
        BY DEF IInv, Known, Calls
      <3>2. made[c[1]] \in Nat /\ made'[c[1]] \in Nat
        BY <1>1, <1>3, <3>1 DEF TypeOK
      <3>. QED
        BY <1>1, <2>2, <3>1, <3>2
    <2>4. \A i \in 1 .. Len(Stream) : Stream[i].call \in request
      BY DEF IInv, Known
    <2>5. ASSUME NEW u \in Threads, tpc'[u] \in {"file", "filed", "send"}
          PROVE  \A i \in 1 .. Len(Stream) : Stream[i].call # Current(u)'
      BY <1>2, <2>3, <2>5 DEF IInv, Known
    <2>6. ASSUME NEW u \in Threads,
                 tpc'[u] \in {"filed", "send"} \/ (Writing(u)' /\ written'[u] < Units)
          PROVE  Current(u)' \in request
      BY <1>2, <2>6 DEF IInv, Known, Writing
    <2>. QED
      BY <1>1, <2>3, <2>4, <2>5, <2>6 DEF Known
  <1>. QED
    BY <1>1, <1>2, <1>3, <1>4, <1>5, ThreadInv DEF Writing

\* Steps of SendRequest that write nothing.
LEMMA LockStep ==
    ASSUME IInv, NEW t \in Threads, Running,
           File(t) \/ Filed(t) \/ LockSend(t) \/ WritePartial(t) \/ Return(t)
    PROVE  IInv'
  <1>1. /\ TypeOK /\ Control
        /\ UNCHANGED <<nonBlocking, made, written, rpc, rbuf, called, c2s, s2c,
                       svars, Stream, Answers, Requests>>
    BY StreamKept DEF IInv, Running, File, Filed, LockSend, WritePartial, Return, cvars
  <1>2. \E to \in {"filed", "send", "write", "aborted", "idle"} :
           /\ tpc' = [tpc EXCEPT ![t] = to]
           /\ to = "filed" => tpc[t] = "file"
           /\ to = "send" => tpc[t] = "filed"
           /\ to = "write" => tpc[t] = "send"
           /\ to = "aborted" => tpc[t] = "write"
           /\ to = "idle" => tpc[t] = "write" /\ written[t] = Units
           /\ request' = IF to = "filed" THEN request \cup {Current(t)} ELSE request
           /\ lockSend' = IF to = "write" THEN t ELSE IF to = "idle" THEN Free ELSE lockSend
           /\ to = "write" => lockSend = Free
    BY DEF File, Filed, LockSend, WritePartial, Return
  <1>. PICK to \in {"filed", "send", "write", "aborted", "idle"} :
           /\ tpc' = [tpc EXCEPT ![t] = to]
           /\ to = "filed" => tpc[t] = "file"
           /\ to = "send" => tpc[t] = "filed"
           /\ to = "write" => tpc[t] = "send"
           /\ to = "aborted" => tpc[t] = "write"
           /\ to = "idle" => tpc[t] = "write" /\ written[t] = Units
           /\ request' = IF to = "filed" THEN request \cup {Current(t)} ELSE request
           /\ lockSend' = IF to = "write" THEN t ELSE IF to = "idle" THEN Free ELSE lockSend
           /\ to = "write" => lockSend = Free
    BY <1>2
  <1>3. /\ tpc'[t] = to /\ \A u \in Threads \ {t} : tpc'[u] = tpc[u]
        /\ \A u \in Threads : Current(u)' = Current(u)
    BY <1>1 DEF TypeOK, Current
  <1>4. TypeOK'
    <2>1. tpc[t] # "idle"
      OBVIOUS
    <2>2. Current(t) \in Calls
      BY <1>1, <2>1, CallsAssumption DEF TypeOK, Control, Current, Calls
    <2>3. lockReq' \in Threads \cup {Free, Receiver}
      BY <1>1 DEF File, Filed, LockSend, WritePartial, Return, TypeOK
    <2>. QED
      BY <1>1, <2>2, <2>3 DEF TypeOK, svars
  <1>5. Ending'
    <2>1. \A u \in Threads : Writing(u)' <=> tpc'[u] \in {"write", "aborted"}
      BY DEF Writing
    <2>2. ASSUME NEW u \in Threads, Writing(u)', NEW i \in 1 .. Len(Stream),
                 Stream[i].call = Current(u)
          PROVE  Stream[i].unit = written[u] - (Len(Stream) - i)
      <3>1. Writing(u) \/ tpc[u] = "send"
        BY <1>3, <2>2 DEF Writing
      <3>. QED
        BY <2>2, <3>1 DEF IInv, Ending, Known
    <2>3. ASSUME NEW u \in Threads, Writing(u)', written[u] \in 1 .. Units - 1
          PROVE  Stream # <<>> /\ Stream[Len(Stream)] = [call |-> Current(u), unit |-> written[u]]
      <3>1. Writing(u) \/ tpc[u] = "send"
        BY <1>3, <2>3 DEF Writing
      <3>2. tpc[u] # "send"
        BY <1>1, <2>3 DEF Control
      <3>. QED
        BY <2>3, <3>1, <3>2 DEF IInv, Ending
    <2>4. ASSUME \A u \in Threads : Writing(u)' => written[u] \in {0, Units}
          PROVE  Stream # <<>> => Stream[Len(Stream)].unit = Units
      <3>1. \A u \in Threads : Writing(u) => written[u] \in {0, Units}
        BY <1>3, <2>4 DEF Writing
      <3>. QED
        BY <3>1 DEF IInv, Ending
    <2>. QED
      BY <1>1, <1>3, <2>2, <2>3, <2>4 DEF Ending
  <1>6. Known'
    <2>1. /\ request \subseteq request' /\ (to = "filed" => Current(t) \in request')
      OBVIOUS
    <2>2. \A u \in Threads : tpc'[u] \in {"file", "filed", "send"}
             => \A i \in 1 .. Len(Stream) : Stream[i].call # Current(u)
      BY <1>3 DEF IInv, Known
    <2>3. ASSUME NEW u \in Threads,
                 tpc'[u] \in {"filed", "send"} \/ (Writing(u)' /\ written[u] < Units)
          PROVE  Current(u) \in request'
      BY <1>3, <2>1, <2>3 DEF IInv, Known, Writing
    <2>4. \A i \in 1 .. Len(Stream) :
             Stream[i].call[2] <= made[Stream[i].call[1]] /\ Stream[i].call \in request'
      BY <2>1 DEF IInv, Known
    <2>. QED
      BY <1>1, <1>3, <2>2, <2>3, <2>4 DEF Known
  <1>7. ASSUME NEW u \in Threads \ {t}, Writing(u)
        PROVE  lockSend' = lockSend
    <2>1. lockSend = u /\ u # Free
      BY <1>1, <1>7, HoldersAssumption DEF Control
    <2>2. Writing(t) => lockSend = t
      BY <1>1 DEF Control
    <2>. QED
      BY <2>1, <2>2 DEF Writing
  <1>8. /\ Writing(t)' => lockSend' = t
        /\ tpc'[t] # "idle" => made'[t] > 0
        /\ tpc'[t] \in {"file", "filed", "send"} => written'[t] = 0
    BY <1>1, <1>3 DEF Control, Writing
  <1>9. made'[t] >= made[t]
    BY <1>1, CallsAssumption DEF TypeOK
  <1>. QED
    BY <1>1, <1>3, <1>4, <1>5, <1>6, <1>7, <1>8, <1>9, ThreadInv

\* A thread that writes adds the next unit of its frame to the end of the stream.
LEMMA WriteStep ==
    ASSUME IInv, NEW t \in Threads, WriteUnit(t), Running
    PROVE  IInv'
  <1>. DEFINE x == [call |-> Current(t), unit |-> written[t] + 1]
  <1>1. /\ TypeOK /\ Control /\ Framed /\ Ending /\ Known
        /\ tpc[t] = "write" /\ Writing(t) /\ written[t] \in 0 .. Units - 1
        /\ made[t] > 0 /\ lockSend = t
        /\ written' = [written EXCEPT ![t] = written[t] + 1]
        /\ UNCHANGED <<nonBlocking, lockReq, lockSend, request, tpc, made, rpc, rbuf, called,
                       s2c, svars>>
    <2>1. TypeOK /\ Control /\ Framed /\ Ending /\ Known
      BY DEF IInv
    <2>2. /\ tpc[t] = "write" /\ written[t] < Units
          /\ written' = [written EXCEPT ![t] = written[t] + 1]
          /\ UNCHANGED <<nonBlocking, lockReq, lockSend, request, tpc, made, rpc, rbuf, called,
                         s2c, svars>>
      BY DEF WriteUnit, Running, cvars
    <2>3. Writing(t) /\ lockSend = t /\ made[t] > 0
      BY <2>1, <2>2 DEF Writing, Control
    <2>4. written[t] \in 0 .. Units
      BY <2>1 DEF TypeOK
    <2>5. written[t] \in 0 .. Units - 1
      BY <2>2, <2>4, UnitsAssumption
    <2>. QED
      BY <2>1, <2>2, <2>3, <2>5
  <1>2. /\ x \in UnitSet /\ c2s' = Append(c2s, x) /\ Len(c2s) < Room
    <2>1. Current(t) \in Calls /\ written[t] + 1 \in 1 .. Units
      BY <1>1, CallsAssumption, UnitsAssumption DEF TypeOK, Current, Calls
    <2>. QED
      BY <2>1 DEF WriteUnit, Frame, UnitSet
  <1>3. \A u \in Threads : Writing(u) <=> u = t
    BY <1>1 DEF Control
  <1>. HIDE DEF x
  <1>4. Stream' = Append(Stream, x) /\ Answers' = Answers
    <2>1. Answers' = Answers /\ sbuf' = sbuf
      BY <1>1 DEF Answers, svars
    <2>2. Requests' = Append(Requests, x)
      BY <1>1, <1>2, <2>1, AppendLast DEF TypeOK, Requests
    <2>3. Answers \o Append(Requests, x) = Append(Stream, x)
      BY <1>1, <1>2, StreamParts, AppendLast DEF Stream
    <2>. QED
      BY <2>1, <2>2, <2>3 DEF Stream
  <1>. PICK n \in Nat, w \in 0 .. Units - 1 : n = Len(Stream) /\ w = written[t]
    BY <1>1, StreamParts, LenProperties
  <1>5. /\ Len(Stream') = n + 1 /\ Stream'[n + 1] = x /\ Stream' # <<>>
        /\ \A i \in 1 .. n : Stream'[i] = Stream[i]
        /\ Stream \in Seq(UnitSet) /\ (Stream # <<>> <=> n > 0)
    <2>1. Stream \in Seq(UnitSet) /\ (Stream # <<>> <=> n > 0)
      BY <1>1, StreamParts
    <2>. QED
      BY <2>1, <1>2, <1>4, AppendProperties
  <1>6. /\ written'[t] = w + 1 /\ x.call = Current(t) /\ x.unit = w + 1
        /\ x = [call |-> Current(t), unit |-> w + 1]
        /\ \A u \in Threads : Current(u)' = Current(u) /\ (Writing(u)' <=> u = t)
        /\ \A u \in Threads \ {t} : written'[u] = written[u]
    BY <1>1, <1>3 DEF TypeOK, Current, Writing, x
  <1>7. /\ \A i \in 1 .. n : Stream[i].unit \in 1 .. Units
        /\ \A i \in 1 .. n : Stream[i].call = Current(t) => Stream[i].unit = w - (n - i)
        /\ w > 0 => n > 0 /\ Stream[n] = [call |-> Current(t), unit |-> w]
        /\ w = 0 => (n > 0 => Stream[n].unit = Units)
    <2>1. \A i \in 1 .. n : Stream[i].unit \in 1 .. Units
      BY <1>1, StreamParts DEF UnitSet
    <2>2. \A i \in 1 .. n : Stream[i].call = Current(t) => Stream[i].unit = w - (n - i)
      BY <1>1 DEF Ending
    <2>3. w > 0 => n > 0 /\ Stream[n] = [call |-> Current(t), unit |-> w]
      BY <1>1, <1>5 DEF Ending
    <2>4. w = 0 => (n > 0 => Stream[n].unit = Units)
      BY <1>1, <1>3, <1>5 DEF Ending
    <2>. QED
      BY <2>1, <2>2, <2>3, <2>4
  <1>8. TypeOK'
    <2>1. /\ c2s' \in Seq(UnitSet) /\ Len(c2s') <= Room
      BY <1>1, <1>2, AppendProperties, RoomAssumption DEF TypeOK
    <2>2. written' \in [Threads -> 0 .. Units]
      BY <1>1, UnitsAssumption DEF TypeOK
    <2>. QED
      BY <1>1, <2>1, <2>2 DEF TypeOK, svars
  <1>9. Control'
    <2>1. \A u \in Threads : tpc'[u] \in {"file", "filed", "send"} => written'[u] = 0
      BY <1>1, <1>6 DEF Control
    <2>. QED
      BY <1>1, <1>6, <2>1 DEF Control, svars
  <1>10. OneFrame(rbuf') /\ OneFrame(sbuf')
    BY <1>1 DEF IInv, svars
  <1>11. Framed'
    <2>1. WholeFrames(Stream')
      <3>1. ASSUME NEW i \in 1 .. n
            PROVE  IF Stream'[i].unit = Units THEN Stream'[i + 1].unit = 1
                   ELSE Stream'[i + 1] = [call |-> Stream'[i].call, unit |-> Stream'[i].unit + 1]
        <4>1. CASE i < n
          <5>1. i \in 1 .. Len(Stream) - 1 /\ i + 1 \in 1 .. n
            BY <4>1
          <5>. QED
            BY <5>1, <1>1, <1>5 DEF Framed, WholeFrames
        <4>2. CASE i = n
          BY <4>2, <1>5, <1>6, <1>7
        <4>. QED
          BY <4>1, <4>2
      <3>2. Len(Stream') - 1 = n
        BY <1>5
      <3>. QED
        BY <3>1, <3>2 DEF WholeFrames
    <2>2. Stream'[1].unit = 1
      BY <1>1, <1>5, <1>6, <1>7 DEF Framed
    <2>3. ASSUME NEW i \in 1 .. n + 1, NEW j \in 1 .. n + 1, Stream'[i].call = Stream'[j].call
          PROVE  Stream'[j].unit - Stream'[i].unit = j - i
      <3>1. CASE i <= n /\ j <= n
        BY <1>1, <1>5, <2>3, <3>1 DEF Framed
      <3>2. CASE i <= n /\ j = n + 1
        BY <1>5, <1>6, <1>7, <2>3, <3>2
      <3>3. CASE i = n + 1 /\ j <= n
        BY <1>5, <1>6, <1>7, <2>3, <3>3
      <3>4. CASE i = n + 1 /\ j = n + 1
        BY <1>5, <1>6, <3>4
      <3>. QED
        BY <3>1, <3>2, <3>3, <3>4
    <2>4. Answers # <<>> => Stream'[Len(Answers)].unit = Units
      <3>1. Answers # <<>> => Len(Answers) \in 1 .. n
        BY <1>1, StreamParts
      <3>. QED
        BY <3>1, <1>1, <1>5 DEF Framed
    <2>. QED
      BY <1>4, <1>5, <2>1, <2>2, <2>3, <2>4 DEF Framed
  <1>12. Ending'
    <2>1. ASSUME NEW i \in 1 .. n + 1, Stream'[i].call = Current(t)
          PROVE  Stream'[i].unit = (w + 1) - ((n + 1) - i)
      <3>1. CASE i <= n
        BY <1>5, <1>7, <2>1, <3>1
      <3>2. CASE i = n + 1
        BY <1>5, <1>6, <3>2
      <3>. QED
        BY <3>1, <3>2
    <2>2. ASSUME \A u \in Threads : Writing(u)' => written'[u] \in {0, Units}
          PROVE  Stream'[n + 1].unit = Units
      BY <2>2, <1>5, <1>6
    <2>. QED
      BY <1>5, <1>6, <2>1, <2>2 DEF Ending
  <1>13. Known'
    <2>1. ASSUME NEW i \in 1 .. n + 1
          PROVE  /\ Stream'[i].call[2] <= made[Stream'[i].call[1]]
                 /\ Stream'[i].call \in request
      <3>1. CASE i <= n
        BY <1>1, <1>5, <3>1 DEF Known
      <3>2. CASE i = n + 1
        <4>1. Current(t) \in request /\ made[t] <= made[t]
          <5>1. written[t] < Units /\ made[t] \in 0 .. MaxCalls
            BY <1>1, UnitsAssumption DEF TypeOK
          <5>2. Current(t) \in request
            BY <5>1, <1>1 DEF Known
          <5>. QED
            BY <5>1, <5>2, CallsAssumption
        <4>2. Current(t)[1] = t /\ Current(t)[2] = made[t]
          BY DEF Current
        <4>. QED
          BY <3>2, <4>1, <4>2, <1>5, <1>6
      <3>. QED
        BY <3>1, <3>2
    <2>2. ASSUME NEW u \in Threads, tpc[u] \in {"file", "filed", "send"}, NEW i \in 1 .. n + 1
          PROVE  Stream'[i].call # Current(u)
      <3>1. CASE i <= n
        BY <1>1, <1>5, <2>2, <3>1 DEF Known
      <3>2. CASE i = n + 1
        BY <1>1, <1>5, <1>6, <2>2, <3>2 DEF Current
      <3>. QED
        BY <3>1, <3>2
    <2>3. ASSUME NEW u \in Threads,
                 tpc[u] \in {"filed", "send"} \/ (Writing(u)' /\ written'[u] < Units)
          PROVE  Current(u) \in request
      <3>1. CASE tpc[u] \in {"filed", "send"}
        BY <1>1, <3>1 DEF Known
      <3>2. CASE u = t
        <4>1. written[t] < Units
          BY <1>1, UnitsAssumption
        <4>. QED
          BY <3>2, <4>1, <1>1 DEF Known
      <3>. QED
        BY <1>6, <2>3, <3>1, <3>2
    <2>. QED
      BY <1>1, <1>5, <1>6, <2>1, <2>2, <2>3 DEF Known
  <1>. QED
    BY <1>8, <1>9, <1>10, <1>11, <1>12, <1>13 DEF IInv

-----------------------------------------------------------------------------
(* The steps of the two readers *)

\* The unit after what a reader has of a frame is the frame's next.
LEMMA NextUnit ==
    ASSUME NEW stream \in Seq(UnitSet), WholeFrames(stream),
           stream # <<>> => stream[1].unit = 1,
           NEW p \in Nat, p > 0 => stream[p].unit = Units,
           NEW b \in Seq(UnitSet), OneFrame(b), Len(b) < Units,
           p + Len(b) + 1 <= Len(stream),
           \A i \in 1 .. Len(b) : stream[p + i] = b[i]
    PROVE  OneFrame(Append(b, stream[p + Len(b) + 1]))
  <1>. PICK n \in Nat : n = Len(b)
    BY LenProperties
  <1>. DEFINE x == stream[p + n + 1]
  <1>1. Len(stream) \in Nat /\ (stream # <<>> <=> Len(stream) > 0)
    BY LenProperties, EmptySeq
  <1>2. x \in UnitSet
    BY <1>1, ElementOfSeq
  <1>3. IF n = 0 THEN x.unit = 1 ELSE x = [call |-> b[n].call, unit |-> b[n].unit + 1]
    <2>1. CASE n = 0 /\ p = 0
      BY <2>1, <1>1
    <2>2. CASE p + n > 0
      <3>1. /\ p + n \in 1 .. Len(stream) - 1 /\ (p + n) + 1 = p + n + 1
        BY <2>2, <1>1
      <3>2. IF stream[p + n].unit = Units THEN x.unit = 1
            ELSE x = [call |-> stream[p + n].call, unit |-> stream[p + n].unit + 1]
        BY <3>1 DEF WholeFrames
      <3>3. n = 0 => stream[p + n].unit = Units
        BY <2>2
      <3>4. n > 0 => stream[p + n] = b[n] /\ b[n].unit = n
        BY DEF OneFrame
      <3>. QED
        BY <3>2, <3>3, <3>4, UnitsAssumption
    <2>. QED
      BY <2>1, <2>2
  <1>. HIDE DEF x
  <1>4. /\ Len(Append(b, x)) = n + 1 /\ Append(b, x)[n + 1] = x
        /\ \A i \in 1 .. n : Append(b, x)[i] = b[i]
    BY <1>2, AppendProperties
  <1>5. ASSUME NEW i \in 1 .. n + 1
        PROVE  Append(b, x)[i].call = Append(b, x)[1].call /\ Append(b, x)[i].unit = i
    <2>1. CASE i <= n
      <3>1. i \in 1 .. n /\ 1 \in 1 .. n
        BY <2>1
      <3>. QED
        BY <3>1, <1>4 DEF OneFrame
    <2>2. CASE i = n + 1 /\ n > 0
      <3>1. n \in 1 .. n /\ 1 \in 1 .. n
        BY <2>2
      <3>. QED
        BY <2>2, <3>1, <1>3, <1>4 DEF OneFrame
    <2>3. CASE i = n + 1 /\ n = 0
      BY <2>3, <1>3, <1>4
    <2>. QED
      BY <2>1, <2>2, <2>3
  <1>. QED
    BY <1>4, <1>5 DEF OneFrame, x

\* What is left to show of a step that moves units on within the stream.
LEMMA SameStream ==
    ASSUME IInv, TypeOK', Control', OneFrame(rbuf'), OneFrame(sbuf'),
           UNCHANGED <<Stream, tvars, request>>,
           Answers' # <<>> => Stream[Len(Answers')].unit = Units
    PROVE  IInv'
  <1>1. UNCHANGED <<tpc, made, written>>
    BY DEF tvars
  <1>2. \A t \in Threads : Current(t)' = Current(t) /\ (Writing(t)' <=> Writing(t))
    BY <1>1 DEF Current, Writing
  <1>3. Framed'
    BY DEF IInv, Framed
  <1>4. Ending'
    BY <1>1, <1>2 DEF IInv, Ending
  <1>5. Known'
    BY <1>1, <1>2 DEF IInv, Known
  <1>. QED
    BY <1>3, <1>4, <1>5 DEF IInv

LEMMA RecvStep ==
    ASSUME IInv, Recv, Running
    PROVE  IInv'
  <1>1. /\ TypeOK /\ Control /\ Framed /\ rpc = "recv" /\ s2c # <<>>
        /\ rbuf' = Append(rbuf, Head(s2c)) /\ s2c' = Tail(s2c)
        /\ rpc' = IF Len(rbuf') = Units THEN "lock" ELSE "recv"
        /\ UNCHANGED <<nonBlocking, lockReq, lockSend, request, tpc, made, written, called,
                       c2s, sbuf, sout>>
    BY DEF IInv, Recv, Running, tvars, svars
  <1>2. /\ rbuf \in Seq(UnitSet) /\ s2c \in Seq(UnitSet) /\ sout \in Seq(UnitSet)
        /\ Len(rbuf) < Units /\ Len(s2c) <= Room
    BY <1>1 DEF TypeOK, Control
  <1>3. /\ rbuf' \in Seq(UnitSet) /\ Len(rbuf') = Len(rbuf) + 1
        /\ s2c' \in Seq(UnitSet) /\ Len(s2c') <= Room /\ Len(rbuf) \in Nat
    BY <1>1, <1>2, AppendProperties, HeadTailProperties, LenProperties, RoomAssumption, EmptySeq
  <1>4. Answers' = Answers /\ Stream' = Stream
    <2>1. Append(rbuf, Head(s2c)) \o Tail(s2c) = rbuf \o s2c
      BY <1>1, <1>2, MoveHead
    <2>. QED
      BY <1>1, <2>1 DEF Answers, Stream, Requests
  <1>5. /\ Stream[Len(rbuf) + 1] = Head(s2c) /\ Len(rbuf) + 1 <= Len(Stream)
        /\ \A i \in 1 .. Len(rbuf) : Stream[i] = rbuf[i]
        /\ Stream \in Seq(UnitSet)
    <2>1. /\ Len(rbuf \o s2c) = Len(rbuf) + Len(s2c) /\ Len(s2c) \in Nat \ {0}
          /\ (rbuf \o s2c)[Len(rbuf) + 1] = Head(s2c) /\ Len(rbuf) \in Nat
      <3>1. /\ Len(rbuf \o s2c) = Len(rbuf) + Len(s2c)
            /\ \A i \in 1 .. Len(rbuf) + Len(s2c) :
                  (rbuf \o s2c)[i] = IF i <= Len(rbuf) THEN rbuf[i] ELSE s2c[i - Len(rbuf)]
            /\ Len(s2c) \in Nat \ {0} /\ Len(rbuf) \in Nat /\ Head(s2c) = s2c[1]
        BY <1>1, <1>2, ConcatProperties, LenProperties, EmptySeq
      <3>2. /\ Len(rbuf) + 1 \in 1 .. Len(rbuf) + Len(s2c)
            /\ ~ (Len(rbuf) + 1 <= Len(rbuf)) /\ (Len(rbuf) + 1) - Len(rbuf) = 1
        BY <3>1
      <3>. QED
        BY <3>1, <3>2
    <2>2. /\ Len(Answers) = Len(rbuf \o s2c) + Len(sout) /\ Len(sout) \in Nat
          /\ \A i \in 1 .. Len(rbuf \o s2c) + Len(sout) :
                Answers[i] = IF i <= Len(rbuf \o s2c) THEN (rbuf \o s2c)[i]
                             ELSE sout[i - Len(rbuf \o s2c)]
      BY <1>1, <1>2, StreamParts, ConcatProperties, LenProperties DEF Answers
    <2>3. Len(rbuf) + 1 \in 1 .. Len(Answers) /\ Answers[Len(rbuf) + 1] = Head(s2c)
      BY <2>1, <2>2
    <2>. QED
      BY <2>3, <1>1, StreamParts
  <1>6. OneFrame(rbuf')
    <2>1. /\ WholeFrames(Stream) /\ (Stream # <<>> => Stream[1].unit = 1) /\ OneFrame(rbuf)
      BY <1>1 DEF Framed, IInv
    <2>. PICK stream \in Seq(UnitSet) : stream = Stream
      BY <1>5
    <2>2. \A i \in 1 .. Len(rbuf) : 0 + i = i
      OBVIOUS
    <2>3. 0 + Len(rbuf) + 1 = Len(rbuf) + 1
      BY <1>3
    <2>4. \A i \in 1 .. Len(rbuf) : stream[0 + i] = rbuf[i]
      BY <1>5, <2>2
    <2>5. /\ WholeFrames(stream) /\ (stream # <<>> => stream[1].unit = 1)
          /\ 0 + Len(rbuf) + 1 <= Len(stream)
          /\ 0 > 0 => stream[0].unit = Units
      BY <1>5, <2>1, <2>3
    <2>6. OneFrame(Append(rbuf, stream[0 + Len(rbuf) + 1]))
      BY <1>2, <2>1, <2>4, <2>5, NextUnit
    <2>. QED
      BY <1>1, <1>5, <2>3, <2>6
  <1>7. TypeOK'
    BY <1>1, <1>2, <1>3, UnitsAssumption DEF TypeOK
  <1>8. Control'
    <2>1. rpc' = "recv" <=> Len(rbuf') < Units
      BY <1>1, <1>2, <1>3, UnitsAssumption
    <2>. QED
      BY <1>1, <2>1 DEF Control, Writing
  <1>. QED
    BY <1>1, <1>4, <1>6, <1>7, <1>8, SameStream DEF IInv, Framed, tvars

LEMMA LockReqStep ==
    ASSUME IInv, LockReq, Running
    PROVE  IInv'
  <1>1. /\ TypeOK /\ Control /\ rpc = "lock" /\ lockReq' = Receiver /\ rpc' = "callback"
        /\ UNCHANGED <<nonBlocking, lockSend, request, tpc, made, written, rbuf, called,
                       c2s, s2c, sbuf, sout>>
    BY DEF IInv, LockReq, Running, tvars, svars
  <1>2. Answers' = Answers /\ Stream' = Stream
    BY <1>1 DEF Answers, Stream, Requests
  <1>3. TypeOK'
    BY <1>1 DEF TypeOK
  <1>4. Control'
    BY <1>1 DEF Control, Writing
  <1>. QED
    BY <1>1, <1>2, <1>3, <1>4, SameStream DEF IInv, Framed, tvars

LEMMA ServerRecvStep ==
    ASSUME IInv, ServerRecv, Running
    PROVE  IInv'
  <1>1. /\ TypeOK /\ Control /\ Framed /\ sout = <<>> /\ Len(sbuf) < Units /\ c2s # <<>>
        /\ sbuf' = Append(sbuf, Head(c2s)) /\ c2s' = Tail(c2s)
        /\ UNCHANGED <<nonBlocking, lockReq, lockSend, request, tpc, made, written, called,
                       rpc, rbuf, s2c, sout>>
    BY DEF IInv, ServerRecv, Running, tvars, cvars
  <1>2. /\ sbuf \in Seq(UnitSet) /\ c2s \in Seq(UnitSet) /\ Len(c2s) <= Room
        /\ Len(sbuf) \in Nat
    BY <1>1, LenProperties DEF TypeOK
  <1>3. /\ sbuf' \in Seq(UnitSet) /\ Len(sbuf') = Len(sbuf) + 1
        /\ c2s' \in Seq(UnitSet) /\ Len(c2s') <= Room
    BY <1>1, <1>2, AppendProperties, HeadTailProperties, LenProperties, RoomAssumption, EmptySeq
  <1>4. Answers' = Answers /\ Stream' = Stream
    <2>1. Append(sbuf, Head(c2s)) \o Tail(c2s) = sbuf \o c2s
      BY <1>1, <1>2, MoveHead
    <2>. QED
      BY <1>1, <2>1 DEF Answers, Stream, Requests
  <1>. PICK k \in Nat, n \in Nat : k = Len(Answers) /\ n = Len(sbuf)
    BY <1>1, <1>2, StreamParts
  <1>5. /\ Stream[k + n + 1] = Head(c2s) /\ k + n + 1 <= Len(Stream)
        /\ \A i \in 1 .. n : Stream[k + i] = sbuf[i]
        /\ Stream \in Seq(UnitSet)
    <2>1. /\ Len(Requests) = n + Len(c2s) /\ Len(c2s) \in Nat \ {0}
          /\ Requests[n + 1] = Head(c2s)
      <3>1. /\ Len(sbuf \o c2s) = n + Len(c2s)
            /\ \A i \in 1 .. n + Len(c2s) :
                  (sbuf \o c2s)[i] = IF i <= n THEN sbuf[i] ELSE c2s[i - n]
            /\ Len(c2s) \in Nat \ {0} /\ Head(c2s) = c2s[1]
        BY <1>1, <1>2, ConcatProperties, LenProperties, EmptySeq
      <3>2. n + 1 \in 1 .. n + Len(c2s) /\ ~ (n + 1 <= n) /\ (n + 1) - n = 1
        BY <3>1
      <3>. QED
        BY <3>1, <3>2 DEF Requests
    <2>2. n + 1 \in 1 .. Len(Requests) /\ k + (n + 1) = k + n + 1
      BY <2>1
    <2>3. /\ Stream[k + (n + 1)] = Requests[n + 1] /\ Len(Stream) = k + Len(Requests)
          /\ \A i \in 1 .. n : Stream[k + i] = sbuf[i]
          /\ Stream \in Seq(UnitSet)
      BY <1>1, <2>2, StreamParts
    <2>. QED
      BY <2>1, <2>2, <2>3
  <1>6. OneFrame(sbuf')
    <2>1. /\ WholeFrames(Stream) /\ (Stream # <<>> => Stream[1].unit = 1) /\ OneFrame(sbuf)
          /\ k > 0 => Stream[k].unit = Units
      BY <1>1, StreamParts DEF Framed, IInv
    <2>. PICK stream \in Seq(UnitSet) : stream = Stream
      BY <1>5
    <2>2. OneFrame(Append(sbuf, stream[k + Len(sbuf) + 1]))
      BY <1>1, <1>2, <1>5, <2>1, NextUnit
    <2>. QED
      BY <1>1, <1>5, <2>2
  <1>7. TypeOK'
    BY <1>1, <1>2, <1>3, UnitsAssumption DEF TypeOK
  <1>8. Control'
    BY <1>1 DEF Control, Writing
  <1>. QED
    BY <1>1, <1>4, <1>6, <1>7, <1>8, SameStream DEF IInv, Framed, tvars

\* The response to a request is, unit by unit, the request.
LEMMA ServerHandleStep ==
    ASSUME IInv, ServerHandle, Running
    PROVE  IInv'
  <1>1. /\ TypeOK /\ Control /\ Framed /\ Len(sbuf) = Units
        /\ sout' = Frame(Head(sbuf).call) /\ sbuf' = <<>>
        /\ UNCHANGED <<nonBlocking, lockReq, lockSend, request, tpc, made, written, called,
                       rpc, rbuf, s2c, c2s>>
    BY DEF IInv, ServerHandle, Running, tvars, cvars
  <1>2. /\ rbuf \o s2c \in Seq(UnitSet) /\ sbuf \in Seq(UnitSet) /\ c2s \in Seq(UnitSet)
        /\ sbuf # <<>> /\ sout = <<>>
    BY <1>1, StreamParts, UnitsAssumption, EmptySeq DEF TypeOK, Control
  <1>3. sout' = sbuf
    <2>1. Head(sbuf) = sbuf[1] /\ DOMAIN sbuf = 1 .. Units
      BY <1>1, <1>2, LenProperties
    <2>2. \A i \in 1 .. Units : sbuf[i] = [call |-> sbuf[1].call, unit |-> i]
      <3>1. ASSUME NEW i \in 1 .. Units
            PROVE  sbuf[i] = [call |-> sbuf[1].call, unit |-> i]
        <4>1. sbuf[i] \in UnitSet
          BY <1>1, <1>2, ElementOfSeq
        <4>2. sbuf[i].call = sbuf[1].call /\ sbuf[i].unit = i
          BY <1>1 DEF IInv, OneFrame
        <4>. QED
          BY <4>1, <4>2 DEF UnitSet
      <3>. QED
        BY <3>1
    <2>3. sbuf = [i \in 1 .. Units |-> sbuf[i]]
      BY <2>1, <1>2
    <2>. QED
      BY <1>1, <2>1, <2>2, <2>3 DEF Frame
  <1>4. /\ Answers = rbuf \o s2c /\ Answers' = Answers \o sbuf /\ Stream' = Stream
    <2>1. Answers = rbuf \o s2c /\ Answers' = (rbuf \o s2c) \o sbuf
      BY <1>1, <1>2, <1>3, ConcatEmptySeq DEF Answers
    <2>2. Requests' = c2s
      BY <1>1, <1>2, ConcatEmptySeq DEF Requests
    <2>3. ((rbuf \o s2c) \o sbuf) \o c2s = (rbuf \o s2c) \o (sbuf \o c2s)
      BY <1>2, ConcatAssociative
    <2>. QED
      BY <2>1, <2>2, <2>3 DEF Stream, Requests
  <1>5. Stream[Len(Answers')].unit = Units
    <2>1. Len(Answers') = Len(Answers) + Units
      BY <1>1, <1>2, <1>4, ConcatProperties
    <2>2. Units \in 1 .. Len(sbuf)
      BY <1>1, UnitsAssumption
    <2>3. Stream[Len(Answers) + Units] = sbuf[Units]
      BY <1>1, <2>2, StreamParts
    <2>. QED
      BY <2>1, <2>2, <2>3 DEF IInv, OneFrame
  <1>6. TypeOK'
    <2>1. <<>> \in Seq(UnitSet) /\ Len(<<>>) = 0
      BY EmptySeq
    <2>2. /\ sout' \in Seq(UnitSet) /\ Len(sout') <= Units
          /\ sbuf' \in Seq(UnitSet) /\ Len(sbuf') <= Units
      BY <1>1, <1>2, <1>3, <2>1, UnitsAssumption
    <2>. QED
      BY <1>1, <2>2 DEF TypeOK
  <1>7. OneFrame(sbuf') /\ OneFrame(rbuf')
    <2>1. Len(<<>>) = 0
      BY EmptySeq
    <2>. QED
      BY <1>1, <2>1 DEF OneFrame, IInv
  <1>8. Control'
    BY <1>1 DEF Control, Writing
  <1>. QED
    BY <1>1, <1>4, <1>5, <1>6, <1>7, <1>8, SameStream DEF tvars

LEMMA ServerWriteStep ==
    ASSUME IInv, ServerWrite, Running
    PROVE  IInv'
  <1>1. /\ TypeOK /\ Control /\ sout # <<>> /\ Len(s2c) < Room
        /\ s2c' = Append(s2c, Head(sout)) /\ sout' = Tail(sout)
        /\ UNCHANGED <<nonBlocking, lockReq, lockSend, request, tpc, made, written, called,
                       rpc, rbuf, c2s, sbuf>>
    BY DEF IInv, ServerWrite, Running, tvars, cvars
  <1>2. /\ rbuf \in Seq(UnitSet) /\ s2c \in Seq(UnitSet) /\ sout \in Seq(UnitSet)
        /\ rbuf \o s2c \in Seq(UnitSet) /\ Len(sout) <= Units /\ sbuf = <<>>
        /\ Len(s2c) \in Nat /\ Len(sout) \in Nat \ {0} /\ Head(sout) \in UnitSet
    BY <1>1, StreamParts, LenProperties, EmptySeq, HeadTailProperties DEF TypeOK, Control
  <1>3. /\ s2c' \in Seq(UnitSet) /\ Len(s2c') <= Room
        /\ sout' \in Seq(UnitSet) /\ Len(sout') <= Units
    BY <1>1, <1>2, AppendProperties, HeadTailProperties, RoomAssumption, UnitsAssumption
  <1>4. Answers' = Answers /\ Stream' = Stream
    <2>1. rbuf \o Append(s2c, Head(sout)) = Append(rbuf \o s2c, Head(sout))
      BY <1>2, AppendLast
    <2>2. Append(rbuf \o s2c, Head(sout)) \o Tail(sout) = (rbuf \o s2c) \o sout
      BY <1>1, <1>2, MoveHead
    <2>. QED
      BY <1>1, <2>1, <2>2 DEF Answers, Stream, Requests
  <1>5. TypeOK'
    BY <1>1, <1>3 DEF TypeOK
  <1>6. Control'
    BY <1>1, <1>2 DEF Control, Writing
  <1>. QED
    BY <1>1, <1>4, <1>5, <1>6, SameStream DEF IInv, Framed, tvars

-----------------------------------------------------------------------------
(* The step of Run that takes a response out of the stream *)

LEMMA CallbackStep ==
    ASSUME IInv, Callback, Running
    PROVE  IInv'
  <1>1. /\ TypeOK /\ Control /\ Framed /\ Ending /\ Known /\ rpc = "callback"
        /\ called' = called \cup ({Head(rbuf).call} \cap request)
        /\ request' = request \ {Head(rbuf).call}
        /\ rbuf' = <<>> /\ lockReq' = Free /\ rpc' = "recv"
        /\ UNCHANGED <<nonBlocking, lockSend, tpc, made, written, c2s, s2c, sbuf, sout>>
    BY DEF IInv, Callback, Running, tvars, svars
  <1>2. /\ rbuf \in Seq(UnitSet) /\ s2c \in Seq(UnitSet) /\ sout \in Seq(UnitSet)
        /\ Len(rbuf) = Units /\ rbuf # <<>> /\ Units \in Nat \ {0}
        /\ s2c \o sout \in Seq(UnitSet) /\ Requests \in Seq(UnitSet)
        /\ (s2c \o sout) \o Requests \in Seq(UnitSet)
    BY <1>1, StreamParts, UnitsAssumption, LenProperties, EmptySeq, ConcatProperties
       DEF TypeOK, Control
  <1>3. /\ Answers = rbuf \o Answers' /\ Answers' \in Seq(UnitSet)
        /\ Stream = rbuf \o Stream' /\ Stream' \in Seq(UnitSet)
    <2>1. Answers' = s2c \o sout /\ Stream' = (s2c \o sout) \o Requests
      <3>1. <<>> \o s2c = s2c
        BY <1>2, ConcatEmptySeq
      <3>. QED
        BY <1>1, <3>1 DEF Answers, Stream, Requests
    <2>2. (rbuf \o s2c) \o sout = rbuf \o (s2c \o sout)
      BY <1>2, ConcatAssociative
    <2>3. (rbuf \o (s2c \o sout)) \o Requests = rbuf \o ((s2c \o sout) \o Requests)
      <3>1. \A r \in Seq(UnitSet) : (rbuf \o r) \o Requests = rbuf \o (r \o Requests)
        BY <1>2, ConcatAssociative
      <3>. QED
        BY <3>1, <1>2
    <2>. QED
      BY <1>2, <2>1, <2>2, <2>3 DEF Answers, Stream
  <1>. PICK c : c = Head(rbuf).call
    OBVIOUS
  <1>. PICK S \in Seq(UnitSet), T \in Seq(UnitSet), k \in Nat :
          S = Stream /\ T = Stream' /\ k = Len(Answers')
    BY <1>1, <1>3, StreamParts, LenProperties
  <1>4. /\ Len(S) = Units + Len(T) /\ Len(T) \in Nat
        /\ Len(Answers) = Units + k
        /\ \A i \in 1 .. Len(T) : S[Units + i] = T[i]
        /\ T # <<>> <=> Len(T) > 0
        /\ S # <<>> <=> Len(S) > 0
        /\ Answers' # <<>> <=> k > 0
        /\ k <= Len(T)
    <2>1. /\ Len(rbuf \o T) = Units + Len(T) /\ Len(T) \in Nat
          /\ \A i \in 1 .. Units + Len(T) :
                (rbuf \o T)[i] = IF i <= Units THEN rbuf[i] ELSE T[i - Units]
      BY <1>2, ConcatProperties, LenProperties
    <2>2. ASSUME NEW i \in 1 .. Len(T)
          PROVE  (rbuf \o T)[Units + i] = T[i]
      <3>1. /\ Units + i \in 1 .. Units + Len(T)
            /\ ~ (Units + i <= Units) /\ (Units + i) - Units = i
        BY <1>2, <2>1
      <3>. QED
        BY <2>1, <3>1
    <2>3. Len(Answers) = Units + k
      BY <1>2, <1>3, ConcatProperties
    <2>4. /\ T # <<>> <=> Len(T) > 0
          /\ S # <<>> <=> Len(S) > 0
          /\ Answers' # <<>> <=> k > 0
      BY <1>3, EmptySeq, LenProperties
    <2>5. Len(Answers) <= Len(S)
      BY <1>1, StreamParts
    <2>6. S = rbuf \o T
      BY <1>3
    <2>7. Len(S) = Units + Len(T) /\ \A i \in 1 .. Len(T) : S[Units + i] = T[i]
      BY <2>1, <2>2, <2>6
    <2>8. k <= Len(T)
      BY <1>2, <2>1, <2>3, <2>5, <2>7
    <2>. QED
      BY <2>1, <2>3, <2>4, <2>7, <2>8
  <1>5. /\ S[1].unit = 1 /\ S[1].call = c
        /\ S[Units].unit = Units /\ S[Units].call = c
        /\ \A i \in 1 .. Len(S) : S[i].unit \in 1 .. Units
    <2>1. 1 \in 1 .. Len(rbuf) /\ Units \in 1 .. Len(rbuf) /\ Head(rbuf) = rbuf[1]
      BY <1>2
    <2>2. \A i \in 1 .. Len(rbuf) : S[i] = rbuf[i]
      BY <1>1, StreamParts
    <2>3. \A i \in 1 .. Len(S) : S[i].unit \in 1 .. Units
      BY <1>1, StreamParts DEF UnitSet
    <2>. QED
      BY <1>2, <2>1, <2>2, <2>3 DEF IInv, OneFrame
  <1>6. \A i \in 1 .. Len(T) : Units + i \in 1 .. Len(S)
    BY <1>2, <1>4
  <1>7. /\ WholeFrames(S)
        /\ S[Units + k].unit = Units
        /\ (\A t \in Threads : Writing(t) => written[t] \in {0, Units})
              => S[Len(S)].unit = Units
    <2>1. S # <<>> /\ Answers # <<>>
      BY <1>1, <1>2, <1>4, StreamParts
    <2>. QED
      BY <2>1, <1>1, <1>4 DEF Framed, Ending
  <1>8. \A i, j \in 1 .. Len(S) : S[i].call = S[j].call => S[j].unit - S[i].unit = j - i
    BY <1>1 DEF Framed
  <1>9. ASSUME NEW t \in Threads, Writing(t)
         PROVE  /\ \A i \in 1 .. Len(S) : S[i].call = Current(t)
                      => S[i].unit = written[t] - (Len(S) - i)
                /\ written[t] \in 1 .. Units - 1
                      => S[Len(S)] = [call |-> Current(t), unit |-> written[t]]
    BY <1>1, <1>9 DEF Ending
  <1>10. \A i \in 1 .. Len(T) : T[i].call # c
    <2>1. ASSUME NEW i \in 1 .. Len(T), T[i].call = c
          PROVE  FALSE
      <3>1. Units \in 1 .. Len(S) /\ Units + i \in 1 .. Len(S) /\ S[Units + i].call = c
        BY <1>2, <1>4, <1>6, <2>1
      <3>2. S[Units + i].unit - S[Units].unit = (Units + i) - Units
        BY <3>1, <1>5, <1>8
      <3>3. S[Units + i].unit \in 1 .. Units /\ S[Units].unit = Units
        BY <3>1, <1>5
      <3>. QED
        BY <3>2, <3>3, <1>2
    <2>. QED
      BY <2>1
  <1>11. TypeOK'
    <2>1. <<>> \in Seq(UnitSet) /\ Len(<<>>) = 0
      BY EmptySeq
    <2>2. rbuf' \in Seq(UnitSet) /\ Len(rbuf') <= Units
      BY <1>1, <1>2, <2>1
    <2>. QED
      BY <1>1, <2>2 DEF TypeOK
  <1>12. OneFrame(rbuf') /\ OneFrame(sbuf') /\ Len(rbuf') = 0
    <2>1. Len(<<>>) = 0
      BY EmptySeq
    <2>. QED
      BY <1>1, <2>1 DEF OneFrame, IInv
  <1>13. Control'
    BY <1>1, <1>2, <1>12 DEF Control, Writing
  <1>14. Framed'
    <2>1. WholeFrames(T)
      <3>1. ASSUME NEW i \in 1 .. Len(T) - 1
            PROVE  /\ Units + i \in 1 .. Len(S) - 1 /\ T[i] = S[Units + i]
                   /\ T[i + 1] = S[(Units + i) + 1]
        <4>1. i \in 1 .. Len(T) /\ i + 1 \in 1 .. Len(T) /\ (Units + i) + 1 = Units + (i + 1)
          BY <1>2, <1>4
        <4>. QED
          BY <4>1, <1>2, <1>4
      <3>2. ASSUME NEW i \in 1 .. Len(T) - 1
            PROVE  IF T[i].unit = Units THEN T[i + 1].unit = 1
                   ELSE T[i + 1] = [call |-> T[i].call, unit |-> T[i].unit + 1]
        <4>1. IF S[Units + i].unit = Units THEN S[(Units + i) + 1].unit = 1
              ELSE S[(Units + i) + 1] = [call |-> S[Units + i].call,
                                         unit |-> S[Units + i].unit + 1]
          BY <3>1, <1>7 DEF WholeFrames
        <4>. QED
          BY <3>1, <4>1
      <3>. QED
        BY <3>2 DEF WholeFrames
    <2>2. T # <<>> => T[1].unit = 1
      <3>1. T # <<>> => Units \in 1 .. Len(S) - 1 /\ T[1] = S[Units + 1]
        BY <1>2, <1>4
      <3>. QED
        BY <3>1, <1>5, <1>7 DEF WholeFrames
    <2>3. ASSUME NEW i \in 1 .. Len(T), NEW j \in 1 .. Len(T), T[i].call = T[j].call
          PROVE  T[j].unit - T[i].unit = j - i
      <3>1. /\ Units + i \in 1 .. Len(S) /\ Units + j \in 1 .. Len(S)
            /\ T[i] = S[Units + i] /\ T[j] = S[Units + j]
        BY <1>4, <1>6
      <3>2. S[Units + j].unit - S[Units + i].unit = (Units + j) - (Units + i)
        BY <2>3, <3>1, <1>8
      <3>3. (Units + j) - (Units + i) = j - i
        BY <1>2
      <3>. QED
        BY <3>1, <3>2, <3>3
    <2>4. Answers' # <<>> => T[k].unit = Units
      BY <1>4, <1>7
    <2>. QED
      BY <2>1, <2>2, <2>3, <2>4 DEF Framed
  <1>15. \A t \in Threads : Current(t)' = Current(t) /\ (Writing(t)' <=> Writing(t))
    BY <1>1 DEF Current, Writing
  <1>16. Ending'
    <2>1. Len(T) > 0 => Len(T) \in 1 .. Len(T) /\ T[Len(T)] = S[Len(S)]
      BY <1>4
    <2>2. ASSUME NEW t \in Threads, Writing(t)
          PROVE  /\ \A i \in 1 .. Len(T) : T[i].call = Current(t)
                       => T[i].unit = written[t] - (Len(T) - i)
                 /\ written[t] \in 1 .. Units - 1 =>
                       T # <<>> /\ T[Len(T)] = [call |-> Current(t), unit |-> written[t]]
      <3>1. ASSUME NEW i \in 1 .. Len(T), T[i].call = Current(t)
            PROVE  T[i].unit = written[t] - (Len(T) - i)
        <4>1. /\ Units + i \in 1 .. Len(S) /\ T[i] = S[Units + i]
              /\ Len(S) - (Units + i) = Len(T) - i
          BY <1>2, <1>4, <1>6
        <4>. QED
          BY <2>2, <3>1, <4>1, <1>9
      <3>2. ASSUME written[t] \in 1 .. Units - 1
            PROVE  T # <<>> /\ T[Len(T)] = [call |-> Current(t), unit |-> written[t]]
        <4>1. S[Len(S)] = [call |-> Current(t), unit |-> written[t]]
          BY <2>2, <3>2, <1>9
        <4>2. Len(S) # Units
          BY <4>1, <3>2, <1>2, <1>5
        <4>. QED
          BY <4>1, <4>2, <2>1, <1>2, <1>4
      <3>. QED
        BY <3>1, <3>2
    <2>3. ASSUME \A t \in Threads : Writing(t) => written[t] \in {0, Units}
          PROVE  T # <<>> => T[Len(T)].unit = Units
      BY <2>1, <2>3, <1>4, <1>7
    <2>. QED
      BY <1>1, <1>15, <2>2, <2>3 DEF Ending
  <1>17. Known'
    <2>1. ASSUME NEW i \in 1 .. Len(T)
          PROVE  T[i].call[2] <= made[T[i].call[1]] /\ T[i].call \in request'
      BY <1>1, <1>4, <1>6, <1>10 DEF Known
    <2>2. ASSUME NEW t \in Threads, tpc[t] \in {"file", "filed", "send"}
          PROVE  /\ \A i \in 1 .. Len(T) : T[i].call # Current(t)
                 /\ Current(t) # c
      <3>1. \A i \in 1 .. Len(S) : S[i].call # Current(t)
        BY <1>1, <2>2 DEF Known
      <3>2. 1 \in 1 .. Len(S)
        BY <1>2, <1>4
      <3>. QED
        BY <3>1, <3>2, <1>4, <1>5, <1>6
    <2>3. ASSUME NEW t \in Threads, Writing(t), written[t] < Units
          PROVE  Current(t) # c
      <3>1. SUFFICES ASSUME Current(t) = c PROVE FALSE
        OBVIOUS
      <3>2. Units \in 1 .. Len(S)
        BY <1>2, <1>4
      <3>3. Units = written[t] - (Len(S) - Units)
        BY <2>3, <3>1, <3>2, <1>5, <1>9
      <3>. QED
        BY <2>3, <3>3, <1>1, <1>2, <1>4 DEF TypeOK
    <2>4. ASSUME NEW t \in Threads,
                 tpc[t] \in {"filed", "send"} \/ (Writing(t) /\ written[t] < Units)
          PROVE  Current(t) \in request'
      BY <1>1, <2>2, <2>3, <2>4 DEF Known
    <2>. QED
      BY <1>1, <1>15, <2>1, <2>2, <2>4 DEF Known
  <1>. QED
    BY <1>11, <1>12, <1>13, <1>14, <1>16, <1>17 DEF IInv

-----------------------------------------------------------------------------
(* The theorems *)

LEMMA IInvInit ==
    ASSUME Init
    PROVE  IInv
  <1>1. <<>> \in Seq(UnitSet) /\ Len(<<>>) = 0 /\ <<>> \o <<>> = <<>>
    BY EmptySeq, ConcatEmptySeq
  <1>2. rbuf = <<>> /\ s2c = <<>> /\ sout = <<>> /\ sbuf = <<>> /\ c2s = <<>>
    BY DEF Init
  <1>3. Stream = <<>> /\ Answers = <<>>
    BY <1>1, <1>2 DEF Stream, Answers, Requests
  <1>4. TypeOK
    <2>1. 0 \in 0 .. Units /\ 0 \in 0 .. MaxCalls /\ 0 <= Units /\ 0 <= Room
      BY UnitsAssumption, RoomAssumption, CallsAssumption
    <2>. QED
      BY <1>1, <1>2, <2>1 DEF Init, TypeOK
  <1>5. \A t \in Threads : tpc[t] = "idle"
    BY DEF Init
  <1>6. Control
    BY <1>1, <1>2, <1>5, UnitsAssumption DEF Init, Control, Writing
  <1>7. OneFrame(rbuf) /\ OneFrame(sbuf)
    BY <1>1, <1>2 DEF OneFrame
  <1>8. Framed
    BY <1>1, <1>3 DEF Framed, WholeFrames
  <1>9. Ending
    BY <1>1, <1>3, <1>5 DEF Ending, Writing
  <1>10. Known
    BY <1>1, <1>3, <1>5 DEF Known, Writing
  <1>. QED
    BY <1>4, <1>6, <1>7, <1>8, <1>9, <1>10 DEF IInv

LEMMA IInvStep ==
    ASSUME IInv, [Next]_vars
    PROVE  IInv'
  <1>1. CASE UNCHANGED vars
    <2>1. UNCHANGED <<nonBlocking, lockReq, lockSend, request, tpc, made, written, rpc, rbuf,
                      called, c2s, s2c, sbuf, sout>>
      BY <1>1 DEF vars, tvars, cvars, svars
    <2>2. UNCHANGED <<Answers, Stream>>
      BY <2>1 DEF Answers, Stream, Requests
    <2>3. TypeOK' /\ Control'
      BY <2>1 DEF IInv, TypeOK, Control, Writing
    <2>. QED
      BY <2>1, <2>2, <2>3, SameStream DEF IInv, Framed, tvars
  <1>2. CASE Next
    <2>1. Running
      BY <1>2 DEF Next
    <2>2. ASSUME NEW t \in Threads, Call(t) \/ Proceed(t)
          PROVE  IInv'
      BY <2>1, <2>2, CallStep, LockStep, WriteStep DEF Proceed
    <2>3. ASSUME Run
          PROVE  IInv'
      BY <2>1, <2>3, RecvStep, LockReqStep, CallbackStep DEF Run
    <2>4. ASSUME Server
          PROVE  IInv'
      BY <2>1, <2>4, ServerRecvStep, ServerHandleStep, ServerWriteStep DEF Server
    <2>. QED
      BY <1>2, <2>2, <2>3, <2>4 DEF Next
  <1>. QED
    BY <1>1, <1>2

\* The inductive invariant of the two mutexes and the stream.
THEOREM SendInvariant == Spec => []IInv
  <1>1. Init => IInv
    BY IInvInit
  <1>2. IInv /\ [Next]_vars => IInv'
    BY IInvStep
  <1>. QED
    BY <1>1, <1>2, PTL DEF Spec

\* The types, with them that no socket and no buffer ever holds more than it has
\* room for.
THEOREM TypeCorrect == Spec => []TypeOK
  <1>1. IInv => TypeOK
    BY DEF IInv
  <1>. QED
    BY <1>1, SendInvariant, PTL

\* WriteVec under lock_send_: the frames of the threads that call SendRequest never
\* mix, in either direction, however a writev is cut into pieces.
THEOREM FramesApart == Spec => []FramesUnmixed
  <1>1. IInv => FramesUnmixed
    BY InvProperties
  <1>. QED
    BY <1>1, SendInvariant, PTL

\* SendRequest files the callback before it writes: a response, or any part of it or
\* of its request, on the connection has its entry in request_.
THEOREM FiledFirst == Spec => []FiledBeforeSent
  <1>1. IInv => FiledBeforeSent
    BY InvProperties
  <1>. QED
    BY <1>1, SendInvariant, PTL
=============================================================================
