------------------------- MODULE EpollClient_proofs -------------------------
(***************************************************************************)
(* Theorems about EpollClient for any number of threads, calls, exits of   *)
(* the server, connect attempts and descriptors: every callback is given   *)
(* its own response, once, in the order of sending, and the client         *)
(* implements RpcClient, until a Stop is undone.                           *)
(*                                                                         *)
(* The invariant ClientInv says nothing of where Run stands beyond what    *)
(* the client of poll/ has as well, so that PollClient_proofs can use the  *)
(* lemmas about the actions the two have in common.                        *)
(***************************************************************************)
EXTENDS EpollClient, PipeLemmas

\* The responses received, and on their way, and the requests on their way.
Pipe == inbuf \o s2c \o c2s

\* TypeOK in parts, as the steps change it.
ThreadTypes ==
    /\ nextId \in Nat
    /\ tpc \in [Threads -> {"idle", "send", "write", "short", "return", "aborted"}]
    /\ made \in [Threads -> 0 .. MaxCalls]
    /\ head \in [Threads -> Nat]
    /\ fd \in [Threads -> Nat]
    /\ ret \in [Calls -> {"none", "sent", "ok", "err"}]
    /\ fresh \subseteq Calls

TableTypes ==
    /\ request \subseteq Frames
    /\ sent \in Seq(Calls)
    /\ called \in Seq([cbk : Calls, of : Calls])

RunTypes ==
    /\ running \in BOOLEAN
    /\ tries \in 0 .. Retries
    /\ leaked \in 0 .. MaxFds
    /\ spc \in {"idle", "close", "join", "done", "aborted"}
    /\ notices \in Nat

NetTypes ==
    /\ conn \in Nat \ {0}
    /\ sock \in {None, conn}
    /\ part \in 0 .. conn
    /\ link \in {"up", "cut", "closed"}
    /\ inbuf \in Seq(Frames)
    /\ c2s \in Seq(Frames)
    /\ s2c \in Seq(Frames)
    /\ server \in {"up", "busy", "down"}
    /\ crashes \in 0 .. MaxCrashes

Types == ThreadTypes /\ TableTypes /\ RunTypes /\ NetTypes

\* Where Run stands, and what the socket and the sequences are then.
Control ==
    /\ rpc = "connect" => sock = None /\ tries < Retries /\ leaked < MaxFds
    /\ rpc \notin {"dispatch", "aborted"} => inbuf = <<>>
    /\ sock = None <=> link = "closed"
    /\ link = "closed" => s2c = <<>> /\ c2s = <<>>
    /\ spc = "done" => rpc \in {"exit", "aborted"}

\* Where each thread stands, and what is known of its calls then.
Calling ==
    \A t \in Threads :
        /\ tpc[t] \notin {"idle", "aborted"} => made[t] > 0
        /\ tpc[t] \in {"send", "write"} => ret[Current(t)] = "none"
        /\ tpc[t] = "return" => ret[Current(t)] = "sent"
        /\ \A n \in 1 .. MaxCalls : n > made[t] => ret[<<t, n>>] = "none"

\* The frames a thread is about to write.
Outgoing ==
    {[id |-> head[t], call |-> Current(t)] :
        t \in {u \in Threads : tpc[u] \in {"send", "write"}}}

\* The pairs of an id and a call there are: callbacks and frames.
Known == request \cup {Pipe[i] : i \in DOMAIN Pipe} \cup Outgoing

Begun(c) == c[2] <= made[c[1]]

\* An id stands for one call and a call for one id.
Identified ==
    /\ \A a \in Known : a.id < nextId /\ Begun(a.call)
    /\ \A a, b \in Known : a.id = b.id <=> a.call = b.call

\* A callback that has run is filed no more.
Remembered ==
    /\ \A i \in DOMAIN called : called[i].cbk = called[i].of /\ Begun(called[i].cbk)
    /\ \A i, j \in DOMAIN called : called[i].cbk = called[j].cbk => i = j
    /\ \A e \in request : \A i \in DOMAIN called : called[i].cbk # e.call

\* A response received in part is of the connection there is.
Unmixed ==
    /\ part \in {None, conn}
    /\ sock = None /\ spc \in {"idle", "close"} => part = None
    /\ rpc = "connect" => part = None

Occurs(c, s) == \E k \in DOMAIN s : s[k] = c

Precedes(c, d, s) == \E k, m \in DOMAIN s : k < m /\ s[k] = c /\ s[m] = d

\* Callbacks called and frames on their way are one sequence in the order of
\* sending.
Ordered ==
    /\ \A k \in DOMAIN sent : ret[sent[k]] \in {"sent", "ok"}
    /\ \A i \in DOMAIN called : Occurs(called[i].cbk, sent)
    /\ \A i \in DOMAIN Pipe : Occurs(Pipe[i].call, sent)
    /\ \A i, j \in DOMAIN called : i < j => Precedes(called[i].cbk, called[j].cbk, sent)
    /\ \A i \in DOMAIN called : \A j \in DOMAIN Pipe :
          Precedes(called[i].cbk, Pipe[j].call, sent)
    /\ \A i, j \in DOMAIN Pipe : i < j => Precedes(Pipe[i].call, Pipe[j].call, sent)

Matched == Identified /\ Remembered /\ Ordered

ClientInv == Types /\ Control /\ Calling /\ (~ StopUndone => Matched /\ Unmixed)

RpcTypes == rpc \in {"start", "add", "flag", "top", "connect", "addnew", "wait",
                     "hup", "recv", "dispatch", "exit", "aborted"}

IInv == RpcTypes /\ ClientInv

-----------------------------------------------------------------------------
(* What the invariant says of the properties *)

LEMMA InvTypeOK == IInv => TypeOK
  BY DEF IInv, RpcTypes, ClientInv, Types, ThreadTypes, TableTypes, RunTypes,
         NetTypes, TypeOK, None

LEMMA InvProperties ==
    ASSUME ClientInv
    PROVE  OwnResponse /\ FailedNeverCalled /\ CalledInSendOrder
  <1>1. ASSUME ~ StopUndone
        PROVE  Remembered /\ Ordered
    BY <1>1 DEF ClientInv, Matched
  <1>2. OwnResponse
    BY <1>1 DEF Remembered, OwnResponse
  <1>3. FailedNeverCalled
    BY <1>1 DEF Ordered, Occurs, FailedNeverCalled
  <1>4. CalledInSendOrder
    BY <1>1 DEF Ordered, Precedes, CalledInSendOrder
  <1>. QED
    BY <1>2, <1>3, <1>4

-----------------------------------------------------------------------------
(* Steps and the pipe *)

LEMMA CurrentIsCall ==
    ASSUME Types, Calling, NEW t \in Threads, tpc[t] \notin {"idle", "aborted"}
    PROVE  Current(t) \in Calls /\ Begun(Current(t))
  <1>1. made[t] \in 1 .. MaxCalls
    BY CallsAssumption DEF Types, ThreadTypes, Calling
  <1>. QED
    BY <1>1 DEF Current, Calls, Begun

LEMMA CalledType ==
    ASSUME Types
    PROVE  /\ Len(called) \in Nat /\ DOMAIN called = 1 .. Len(called)
           /\ \A i \in DOMAIN called : called[i].cbk \in Calls
  <1>. DEFINE Pair == [cbk : Calls, of : Calls]
  <1>1. called \in Seq(Pair)
    BY DEF Types, TableTypes
  <1>2. \A p \in Pair : p.cbk \in Calls
    OBVIOUS
  <1>. HIDE DEF Pair
  <1>3. Len(called) \in Nat /\ DOMAIN called = 1 .. Len(called)
    BY <1>1, LenProperties
  <1>4. \A i \in 1 .. Len(called) : called[i] \in Pair
    BY <1>1, ElementOfSeq
  <1>. QED
    BY <1>2, <1>3, <1>4

LEMMA PipeType ==
    ASSUME Types
    PROVE  /\ Pipe \in Seq(Frames) /\ Len(Pipe) \in Nat
           /\ DOMAIN Pipe = 1 .. Len(Pipe)
           /\ inbuf \o s2c \in Seq(Frames)
  <1>1. inbuf \o s2c \in Seq(Frames)
    BY ConcatProperties DEF Types, NetTypes
  <1>2. Pipe \in Seq(Frames)
    BY <1>1, ConcatProperties DEF Types, NetTypes, Pipe
  <1>. QED
    BY <1>1, <1>2, LenProperties

\* The frames at the end of the pipe are lost, or none is.
Cut == \E n \in 0 .. Len(Pipe) : Pipe' = SubSeq(Pipe, 1, n)

LEMMA UncutPipe ==
    ASSUME Types, Pipe' = Pipe
    PROVE  Cut
  <1>1. Len(Pipe) \in 0 .. Len(Pipe) /\ Pipe \in Seq(Frames)
    BY PipeType
  <1>2. SubSeq(Pipe, 1, Len(Pipe)) = Pipe
    BY <1>1, SubSeqFull
  <1>. QED
    BY <1>1, <1>2 DEF Cut

\* A thread whose write was cut short has no frame to write any more, nor have
\* the threads of a process that has ended.
ThreadsEnd ==
    /\ tpc' = [t \in Threads |-> tpc'[t]]
    /\ \A t \in Threads :
          \/ tpc'[t] = tpc[t]
          \/ tpc[t] = "write" /\ tpc'[t] = "short"
          \/ tpc'[t] = "aborted"

\* A step that registers, writes and calls nothing, but may drop callbacks, lose
\* the end of the pipe and end threads.
LEMMA DropStep ==
    ASSUME Types, Matched, Cut, request' \subseteq request,
           UNCHANGED tpc \/ ThreadsEnd,
           UNCHANGED <<nextId, made, head, ret, called, sent>>
    PROVE  Matched'
  <1>1. PICK n \in 0 .. Len(Pipe) : Pipe' = SubSeq(Pipe, 1, n)
    BY DEF Cut
  <1>2. /\ DOMAIN Pipe' = 1 .. n /\ n <= Len(Pipe)
        /\ \A i \in 1 .. n : i \in DOMAIN Pipe /\ Pipe'[i] = Pipe[i]
    <2>1. Len(Pipe) \in Nat /\ \A i \in 1 .. n : Pipe[i] \in Frames
      BY PipeType, ElementOfSeq
    <2>2. /\ SubSeq(Pipe, 1, n) \in Seq(Frames)
          /\ Len(SubSeq(Pipe, 1, n)) = IF 1 <= n THEN n - 1 + 1 ELSE 0
          /\ \A i \in 1 .. n - 1 + 1 : SubSeq(Pipe, 1, n)[i] = Pipe[1 + i - 1]
      BY <2>1, SubSeqProperties
    <2>3. Len(SubSeq(Pipe, 1, n)) = n /\ \A i \in 1 .. n : SubSeq(Pipe, 1, n)[i] = Pipe[i]
      BY <2>1, <2>2
    <2>. QED
      BY <1>1, <2>1, <2>2, <2>3, PipeType, LenProperties
  <1>3. Known' \subseteq Known
    <2>1. {Pipe[i] : i \in DOMAIN Pipe}' \subseteq {Pipe[i] : i \in DOMAIN Pipe}
      BY <1>2
    <2>2. Outgoing' \subseteq Outgoing
      BY DEF Outgoing, Current, ThreadsEnd
    <2>. QED
      BY <2>1, <2>2 DEF Known
  <1>4. UNCHANGED <<nextId, made, ret, called, sent>>
    OBVIOUS
  <1>5. Identified'
    BY <1>3, <1>4 DEF Matched, Identified, Begun
  <1>6. Remembered'
    BY <1>4 DEF Matched, Remembered, Begun
  <1>7. Ordered'
    BY <1>2, <1>4 DEF Matched, Ordered, Occurs, Precedes
  <1>. QED
    BY <1>5, <1>6, <1>7 DEF Matched

-----------------------------------------------------------------------------
(* SendRequest *)

\* Senders leave Run, Stop and the server alone, but for what they write.
LEMMA SendKeeps ==
    ASSUME NEW t \in Threads, SendRequest(t)
    PROVE  /\ UNCHANGED <<running, sock, rpc, tries, leaked, inbuf, part, called,
                          notices, spc, conn, link, s2c, server, crashes>>
           /\ ~ Write(t) => UNCHANGED <<c2s, sent>>
  BY DEF SendRequest, Register, LockSend, Write, WriteFails, Return, runvars,
         bufvars, netvars, srvvars

\* What is left to show of a step of SendRequest.
LEMMA SendInv ==
    ASSUME ClientInv, NEW t \in Threads, SendRequest(t),
           ThreadTypes', TableTypes', c2s' \in Seq(Frames), Calling',
           c2s # c2s' => link # "closed",
           ~ StopUndone => Matched'
    PROVE  ClientInv'
  <1>1. UNCHANGED <<running, sock, rpc, tries, leaked, inbuf, part, called,
                    notices, spc, conn, link, s2c, server, crashes>>
    BY SendKeeps
  <1>2. RunTypes' /\ NetTypes'
    BY <1>1 DEF ClientInv, Types, RunTypes, NetTypes
  <1>3. Control'
    BY <1>1 DEF ClientInv, Control
  <1>4. ~ StopUndone' => ~ StopUndone /\ Unmixed'
    BY <1>1 DEF StopUndone, ClientInv, Unmixed
  <1>. QED
    BY <1>2, <1>3, <1>4 DEF ClientInv, Types

LEMMA RegisterStep ==
    ASSUME ClientInv, NEW t \in Threads, Register(t)
    PROVE  ClientInv'
  <1>. PICK c : c = <<t, made[t] + 1>>
    OBVIOUS
  <1>. PICK new : new = [id |-> nextId, call |-> c]
    OBVIOUS
  <1>1. /\ Types /\ Calling /\ SendRequest(t)
        /\ tpc[t] = "idle" /\ made[t] \in Nat /\ made[t] < MaxCalls
        /\ made' = [made EXCEPT ![t] = made[t] + 1]
        /\ head' = [head EXCEPT ![t] = nextId]
        /\ tpc' = [tpc EXCEPT ![t] = "send"]
        /\ nextId \in Nat /\ nextId' = nextId + 1
        /\ request' = Insert(request, nextId, c)
        /\ fresh' = fresh \cup {c}
        /\ UNCHANGED <<fd, ret, called, sent, inbuf, s2c, c2s>>
    BY CallsAssumption
       DEF ClientInv, Types, ThreadTypes, Register, SendRequest, runvars, bufvars, netvars
  <1>2. made[t] + 1 \in 1 .. MaxCalls /\ c \in Calls /\ new \in Frames
    BY <1>1, CallsAssumption DEF Calls, Frames
  <1>3. ThreadTypes'
    BY <1>1, <1>2 DEF Types, ThreadTypes
  <1>4. request' \subseteq request \cup {new}
    BY <1>1 DEF Insert
  <1>5. TableTypes'
    BY <1>1, <1>2, <1>4 DEF Types, TableTypes
  <1>6. Calling'
    <2>1. ret[c] = "none"
      BY <1>1, <1>2 DEF Calling
    <2>2. Current(t)' = c
      BY <1>1 DEF Types, ThreadTypes, Current
    <2>3. ASSUME NEW u \in Threads, u # t
          PROVE  tpc'[u] = tpc[u] /\ made'[u] = made[u] /\ Current(u)' = Current(u)
      BY <1>1, <2>3 DEF Types, ThreadTypes, Current
    <2>4. tpc'[t] = "send" /\ made'[t] = made[t] + 1
      BY <1>1 DEF Types, ThreadTypes
    <2>5. ASSUME NEW u \in Threads
          PROVE  /\ tpc'[u] \notin {"idle", "aborted"} => made'[u] > 0
                 /\ tpc'[u] \in {"send", "write"} => ret'[Current(u)'] = "none"
                 /\ tpc'[u] = "return" => ret'[Current(u)'] = "sent"
                 /\ \A n \in 1 .. MaxCalls : n > made'[u] => ret'[<<u, n>>] = "none"
      <3>1. CASE u = t
        BY <3>1, <1>1, <2>1, <2>2, <2>4, CallsAssumption DEF Calling
      <3>2. CASE u # t
        BY <3>2, <1>1, <2>3 DEF Calling
      <3>. QED
        BY <3>1, <3>2
    <2>. QED
      BY <2>5 DEF Calling, Current
  <1>7. ASSUME ~ StopUndone
        PROVE  Matched'
    <2>1. Matched
      BY <1>7 DEF ClientInv
    <2>2. Pipe' = Pipe
      BY <1>1 DEF Pipe
    <2>3. Outgoing' = Outgoing \cup {new}
      <3>1. /\ tpc'[t] = "send" /\ head'[t] = nextId /\ Current(t)' = c
            /\ \A u \in Threads \ {t} :
                  tpc'[u] = tpc[u] /\ head'[u] = head[u] /\ Current(u)' = Current(u)
        BY <1>1 DEF Types, ThreadTypes, Current
      <3>2. new = [id |-> head'[t], call |-> Current(t)']
        BY <3>1
      <3>. QED
        BY <3>1, <3>2, <1>1 DEF Outgoing
    <2>4. Known' \subseteq Known \cup {new} /\ new \in Known'
      BY <2>2, <2>3, <1>4 DEF Known
    <2>5. \A d \in Calls : Begun(d) => Begun(d)'
      BY <1>1 DEF Types, ThreadTypes, Begun, Calls
    <2>6. Begun(c)' /\ ~ Begun(c)
      BY <1>1 DEF Types, ThreadTypes, Begun
    <2>7. Known \subseteq Frames
      <3>1. request \subseteq Frames
        BY <1>1 DEF Types, TableTypes
      <3>2. \A i \in DOMAIN Pipe : Pipe[i] \in Frames
        BY <1>1, PipeType, ElementOfSeq
      <3>3. Outgoing \subseteq Frames
        <4>1. ASSUME NEW u \in Threads, tpc[u] \in {"send", "write"}
              PROVE  head[u] \in Nat /\ Current(u) \in Calls
          BY <1>1, <4>1, CurrentIsCall DEF Types, ThreadTypes
        <4>. QED
          BY <4>1 DEF Outgoing, Frames
      <3>. QED
        BY <3>1, <3>2, <3>3 DEF Known
    <2>8. Identified'
      <3>1. \A a \in Known : a.id < nextId /\ Begun(a.call) /\ a.id \in Nat
                             /\ a.call \in Calls /\ a.call[1] \in Threads
        BY <2>1, <2>7 DEF Matched, Identified, Frames, Calls
      <3>2. \A a \in Known : a.id # new.id /\ a.call # new.call
        BY <3>1, <2>6, <1>1
      <3>3. \A a \in Known' : a.id < nextId' /\ Begun(a.call)'
        BY <2>4, <2>5, <2>6, <3>1, <1>1
      <3>4. \A a, b \in Known' : a.id = b.id <=> a.call = b.call
        BY <2>1, <2>4, <3>2 DEF Matched, Identified
      <3>. QED
        BY <3>3, <3>4 DEF Identified
    <2>9. Remembered'
      <3>1. \A i \in DOMAIN called : called[i].cbk \in Calls
        BY <1>1, CalledType
      <3>2. \A i \in DOMAIN called : called[i].cbk # c
        BY <2>1, <2>6 DEF Matched, Remembered
      <3>. QED
        BY <1>1, <1>4, <2>1, <2>5, <3>1, <3>2 DEF Matched, Remembered
    <2>10. Ordered'
      BY <1>1, <2>1, <2>2 DEF Matched, Ordered, Occurs, Precedes
    <2>. QED
      BY <2>8, <2>9, <2>10 DEF Matched
  <1>. QED
    BY <1>1, <1>3, <1>5, <1>6, <1>7, SendInv DEF Types, NetTypes

\* Taking lock_send_ and reading sock_.
LEMMA LockSendStep ==
    ASSUME ClientInv, NEW t \in Threads, LockSend(t)
    PROVE  ClientInv'
  <1>1. /\ Types /\ Calling /\ SendRequest(t)
        /\ tpc[t] = "send" /\ tpc' = [tpc EXCEPT ![t] = "write"]
        /\ fd' = [fd EXCEPT ![t] = sock] /\ sock \in Nat
        /\ UNCHANGED <<request, nextId, made, head, ret, fresh, called, sent,
                       inbuf, s2c, c2s>>
    BY DEF ClientInv, Types, NetTypes, LockSend, SendRequest, runvars, bufvars,
           netvars, None
  <1>2. ThreadTypes' /\ TableTypes'
    BY <1>1 DEF Types, ThreadTypes, TableTypes
  <1>3. /\ tpc'[t] = "write"
        /\ \A u \in Threads : u # t => tpc'[u] = tpc[u]
        /\ \A u \in Threads : Current(u)' = Current(u)
    BY <1>1 DEF Types, ThreadTypes, Current
  <1>4. Calling'
    BY <1>1, <1>3 DEF Calling, Current
  <1>5. ASSUME ~ StopUndone
        PROVE  Matched'
    <2>1. Matched
      BY <1>5 DEF ClientInv
    <2>2. Pipe' = Pipe
      BY <1>1 DEF Pipe
    <2>3. Outgoing' = Outgoing
      <3>1. {u \in Threads : tpc[u] \in {"send", "write"}}'
               = {u \in Threads : tpc[u] \in {"send", "write"}}
        BY <1>1, <1>3
      <3>. QED
        BY <3>1, <1>1, <1>3 DEF Outgoing
    <2>4. Known' = Known
      BY <2>2, <2>3, <1>1 DEF Known
    <2>5. Identified' /\ Remembered'
      BY <2>1, <2>4, <1>1 DEF Matched, Identified, Remembered, Begun
    <2>6. Ordered'
      BY <2>1, <2>2, <1>1 DEF Matched, Ordered, Occurs, Precedes
    <2>. QED
      BY <2>5, <2>6 DEF Matched
  <1>. QED
    BY <1>1, <1>2, <1>4, <1>5, SendInv DEF Types, NetTypes

\* The call a thread reports is its own current one: nothing else changes its
\* result.
LEMMA ReportCalling ==
    ASSUME Types, Calling, NEW t \in Threads, tpc[t] \notin {"idle", "aborted"},
           NEW result \in {"sent", "ok", "err"}, NEW to \in {"idle", "return"},
           to = "return" => result = "sent",
           ret' = [ret EXCEPT ![Current(t)] = result],
           tpc' = [tpc EXCEPT ![t] = to], made' = made
    PROVE  Calling'
  <1>1. Current(t) \in Calls
    BY CurrentIsCall
  <1>2. \A d \in Calls : ret'[d] = IF d = Current(t) THEN result ELSE ret[d]
    BY <1>1 DEF Types, ThreadTypes
  <1>3. ASSUME NEW u \in Threads
        PROVE  /\ tpc'[u] \notin {"idle", "aborted"} => made'[u] > 0
               /\ tpc'[u] \in {"send", "write"} => ret'[Current(u)'] = "none"
               /\ tpc'[u] = "return" => ret'[Current(u)'] = "sent"
               /\ \A n \in 1 .. MaxCalls : n > made'[u] => ret'[<<u, n>>] = "none"
    <2>1. tpc'[u] = (IF u = t THEN to ELSE tpc[u]) /\ Current(u)' = Current(u)
      BY DEF Types, ThreadTypes, Current
    <2>2. tpc[u] \notin {"idle", "aborted"} => Current(u) \in Calls
      BY CurrentIsCall
    <2>3. ASSUME NEW n \in 1 .. MaxCalls, n > made'[u]
          PROVE  ret'[<<u, n>>] = "none"
      <3>1. <<u, n>> \in Calls /\ ret[<<u, n>>] = "none"
        BY <2>3 DEF Calls, Calling
      <3>2. <<u, n>> # Current(t)
        BY <2>3 DEF Current, Types, ThreadTypes
      <3>. QED
        BY <3>1, <3>2, <1>2
    <2>4. u # t => Current(u) # Current(t)
      BY DEF Current
    <2>. QED
      BY <2>1, <2>2, <2>3, <2>4, <1>1, <1>2 DEF Calling
  <1>. QED
    BY <1>3 DEF Calling, Current

\* A thread that is done with its frame has no frame to write.
LEMMA OutgoingShrinks ==
    ASSUME Types, NEW t \in Threads, NEW to \in {"idle", "return"},
           tpc' = [tpc EXCEPT ![t] = to], head' = [head EXCEPT ![t] = 0],
           made' = made
    PROVE  Outgoing' \subseteq Outgoing
  <1>1. /\ tpc'[t] = to /\ \A u \in Threads : Current(u)' = Current(u)
        /\ \A u \in Threads \ {t} : tpc'[u] = tpc[u] /\ head'[u] = head[u]
    BY DEF Types, ThreadTypes, Current
  <1>. QED
    BY <1>1 DEF Outgoing

\* An error, or 0, is returned.
LEMMA ReturnStep ==
    ASSUME ClientInv, NEW t \in Threads, WriteFails(t) \/ Return(t)
    PROVE  ClientInv'
  <1>1. /\ Types /\ Calling /\ SendRequest(t)
        /\ tpc[t] \notin {"idle", "aborted"} /\ tpc' = [tpc EXCEPT ![t] = "idle"]
        /\ head' = [head EXCEPT ![t] = 0] /\ fd' = [fd EXCEPT ![t] = None]
        /\ UNCHANGED <<request, nextId, made, fresh, called, sent, inbuf, s2c, c2s>>
    BY DEF ClientInv, WriteFails, Return, SendRequest, ForgetLocals, runvars,
           bufvars, netvars
  <1>2. Current(t) \in Calls
    BY <1>1, CurrentIsCall
  <1>3. PICK result \in {"ok", "err"} :
           /\ ret' = [ret EXCEPT ![Current(t)] = result]
           /\ result = "err" => ret[Current(t)] = "none"
    BY <1>1 DEF WriteFails, Return, Calling
  <1>4. ThreadTypes' /\ TableTypes'
    BY <1>1, <1>2, <1>3 DEF Types, ThreadTypes, TableTypes, None
  <1>5. Calling'
    BY <1>1, <1>3, ReportCalling
  <1>6. ASSUME ~ StopUndone
        PROVE  Matched'
    <2>1. Matched
      BY <1>6 DEF ClientInv
    <2>2. Pipe' = Pipe
      BY <1>1 DEF Pipe
    <2>3. Known' \subseteq Known
      BY <1>1, <2>2, OutgoingShrinks DEF Known
    <2>4. Identified' /\ Remembered'
      BY <2>1, <2>3, <1>1 DEF Matched, Identified, Remembered, Begun
    <2>5. Ordered'
      <3>1. \A k \in DOMAIN sent : sent[k] \in Calls
        BY <1>1, ElementOfSeq, LenProperties DEF Types, TableTypes
      <3>2. \A k \in DOMAIN sent : ret'[sent[k]] \in {"sent", "ok"}
        BY <1>1, <1>2, <1>3, <2>1, <3>1 DEF Matched, Ordered, Types, ThreadTypes
      <3>. QED
        BY <3>2, <2>1, <2>2, <1>1 DEF Matched, Ordered, Occurs, Precedes
    <2>. QED
      BY <2>4, <2>5 DEF Matched
  <1>. QED
    BY <1>1, <1>4, <1>5, <1>6, SendInv DEF Types, NetTypes

\* Appending a call to what was sent keeps the order, and puts the call last.
LEMMA AppendSent ==
    ASSUME NEW c \in Calls, sent \in Seq(Calls), sent' = Append(sent, c)
    PROVE  /\ Occurs(c, sent')
           /\ \A d : Occurs(d, sent) => Occurs(d, sent') /\ Precedes(d, c, sent')
           /\ \A d, e : Precedes(d, e, sent) => Precedes(d, e, sent')
  <1>1. /\ DOMAIN sent = 1 .. Len(sent) /\ Len(sent) \in Nat
        /\ DOMAIN sent' = 1 .. Len(sent) + 1
        /\ sent'[Len(sent) + 1] = c
        /\ \A k \in 1 .. Len(sent) : sent'[k] = sent[k]
    BY AppendProperties, LenProperties
  <1>. QED
    BY <1>1 DEF Occurs, Precedes

LEMMA WritePipe ==
    ASSUME Types, NEW frame \in Frames, c2s' = Append(c2s, frame),
           UNCHANGED <<inbuf, s2c>>
    PROVE  Pipe' = Append(Pipe, frame)
  BY PipeType, AppendLast DEF Types, NetTypes, Pipe

LEMMA WriteStep ==
    ASSUME ClientInv, NEW t \in Threads, Write(t)
    PROVE  ClientInv'
  <1>. PICK c : c = Current(t)
    OBVIOUS
  <1>. PICK frame : frame = [id |-> head[t], call |-> c]
    OBVIOUS
  <1>1. /\ Types /\ Control /\ Calling /\ SendRequest(t)
        /\ tpc[t] = "write" /\ tpc' = [tpc EXCEPT ![t] = "return"]
        /\ head' = [head EXCEPT ![t] = 0] /\ fd' = [fd EXCEPT ![t] = None]
        /\ ret' = [ret EXCEPT ![Current(t)] = "sent"]
        /\ c2s' = Append(c2s, frame) /\ sent' = Append(sent, c) /\ link = "up"
        /\ UNCHANGED <<request, nextId, made, fresh, called, inbuf, s2c>>
    BY DEF ClientInv, Write, SendRequest, ForgetLocals, runvars, bufvars, Reaches
  <1>2. c \in Calls /\ ret[c] = "none" /\ frame \in Frames
    BY <1>1, CurrentIsCall DEF Types, ThreadTypes, Calling, Frames
  <1>3. ThreadTypes'
    BY <1>1, <1>2 DEF Types, ThreadTypes, None
  <1>4. sent \in Seq(Calls) /\ c2s \in Seq(Frames)
    BY <1>1 DEF Types, TableTypes, NetTypes
  <1>5. TableTypes' /\ c2s' \in Seq(Frames)
    BY <1>1, <1>2, <1>4, AppendProperties DEF Types, TableTypes
  <1>6. Calling'
    BY <1>1, ReportCalling
  <1>7. Pipe' = Append(Pipe, frame)
    BY <1>1, <1>2, WritePipe
  <1>8. /\ DOMAIN Pipe = 1 .. Len(Pipe) /\ Len(Pipe) \in Nat
        /\ DOMAIN Pipe' = 1 .. Len(Pipe) + 1
        /\ Pipe'[Len(Pipe) + 1] = frame
        /\ \A i \in 1 .. Len(Pipe) : Pipe'[i] = Pipe[i]
    <2>1. Pipe \in Seq(Frames) /\ Append(Pipe, frame) \in Seq(Frames)
      BY <1>1, <1>2, PipeType, AppendProperties
    <2>. QED
      BY <1>2, <1>7, <2>1, AppendProperties, LenProperties
  <1>9. ASSUME ~ StopUndone
        PROVE  Matched'
    <2>1. Matched
      BY <1>9 DEF ClientInv
    <2>2. Known' \subseteq Known
      <3>1. frame \in Outgoing
        BY <1>1 DEF Outgoing
      <3>2. {Pipe[i] : i \in DOMAIN Pipe}' \subseteq {Pipe[i] : i \in DOMAIN Pipe} \cup {frame}
        BY <1>8
      <3>3. Outgoing' \subseteq Outgoing
        BY <1>1, OutgoingShrinks
      <3>. QED
        BY <3>1, <3>2, <3>3, <1>1 DEF Known
    <2>3. Identified' /\ Remembered'
      BY <2>1, <2>2, <1>1 DEF Matched, Identified, Remembered, Begun
    <2>4. Ordered'
      <3>1. /\ Occurs(c, sent')
            /\ \A d : Occurs(d, sent) => Occurs(d, sent') /\ Precedes(d, c, sent')
            /\ \A d, e : Precedes(d, e, sent) => Precedes(d, e, sent')
        BY <1>1, <1>2, <1>4, AppendSent
      <3>2. frame.call = c
        BY <1>2
      <3>3. \A k \in DOMAIN sent' : ret'[sent'[k]] \in {"sent", "ok"}
        <4>1. /\ DOMAIN sent' = 1 .. Len(sent) + 1
              /\ sent'[Len(sent) + 1] = c
              /\ \A k \in 1 .. Len(sent) : sent'[k] = sent[k] /\ sent[k] \in Calls
          BY <1>1, <1>2, <1>4, <1>5, AppendProperties, LenProperties, ElementOfSeq
             DEF TableTypes
        <4>2. \A d \in Calls : ret'[d] = IF d = c THEN "sent" ELSE ret[d]
          BY <1>1, <1>2 DEF Types, ThreadTypes
        <4>3. \A k \in 1 .. Len(sent) : ret[sent[k]] \in {"sent", "ok"}
          BY <1>4, <2>1, LenProperties DEF Matched, Ordered
        <4>4. Len(sent) \in Nat
          BY <1>4, LenProperties
        <4>5. ASSUME NEW k \in 1 .. Len(sent) + 1
              PROVE  ret'[sent'[k]] \in {"sent", "ok"}
          <5>1. CASE k = Len(sent) + 1
            BY <5>1, <4>1, <4>2, <1>2
          <5>2. CASE k \in 1 .. Len(sent)
            BY <5>2, <4>1, <4>2, <4>3
          <5>. QED
            BY <5>1, <5>2, <4>4
        <4>. QED
          BY <4>1, <4>5
      <3>4. \A i \in DOMAIN called : Occurs(called[i].cbk, sent')
        BY <3>1, <2>1, <1>1 DEF Matched, Ordered
      <3>5. \A i \in DOMAIN Pipe' : Occurs(Pipe'[i].call, sent')
        BY <3>1, <3>2, <2>1, <1>8 DEF Matched, Ordered
      <3>6. \A i \in DOMAIN called : \A j \in DOMAIN Pipe' :
               Precedes(called[i].cbk, Pipe'[j].call, sent')
        BY <3>1, <3>2, <2>1, <1>1, <1>8 DEF Matched, Ordered
      <3>7. \A i, j \in DOMAIN Pipe' : i < j => Precedes(Pipe'[i].call, Pipe'[j].call, sent')
        BY <3>1, <3>2, <2>1, <1>8 DEF Matched, Ordered
      <3>8. \A i, j \in DOMAIN called : i < j => Precedes(called[i].cbk, called[j].cbk, sent')
        BY <3>1, <2>1 DEF Matched, Ordered
      <3>. QED
        BY <3>3, <3>4, <3>5, <3>6, <3>7, <3>8, <1>1 DEF Ordered
    <2>. QED
      BY <2>3, <2>4 DEF Matched
  <1>. QED
    BY <1>1, <1>3, <1>5, <1>6, <1>9, SendInv

LEMMA SendRequestStep ==
    ASSUME ClientInv, NEW t \in Threads, SendRequest(t)
    PROVE  ClientInv'
  BY RegisterStep, LockSendStep, WriteStep, ReturnStep DEF SendRequest

-----------------------------------------------------------------------------
(* Run, Stop and the server *)

\* What is left to show of a step that is not one of SendRequest and calls
\* nothing.
LEMMA QuietInv ==
    ASSUME ClientInv, Cut, request' \subseteq request, fresh' \subseteq fresh,
           UNCHANGED tpc \/ ThreadsEnd,
           UNCHANGED <<nextId, made, head, fd, ret, called, sent>>,
           RunTypes', NetTypes', Control',
           ~ StopUndone' => ~ StopUndone /\ Unmixed'
    PROVE  ClientInv'
  <1>1. Types /\ Calling
    BY DEF ClientInv
  <1>2. ThreadTypes' /\ TableTypes'
    <2>1. tpc' \in [Threads -> {"idle", "send", "write", "short", "return", "aborted"}]
      BY <1>1 DEF Types, ThreadTypes, ThreadsEnd
    <2>. QED
      BY <1>1, <2>1 DEF Types, ThreadTypes, TableTypes
  <1>3. Calling'
    BY <1>1 DEF Calling, Current, ThreadsEnd
  <1>4. ~ StopUndone => Matched'
    BY <1>1, DropStep DEF ClientInv
  <1>. QED
    BY <1>2, <1>3, <1>4 DEF ClientInv, Types

\* The same if the pipe does not change.
LEMMA StillInv ==
    ASSUME ClientInv, request' \subseteq request,
           UNCHANGED <<nextId, tvars, called, sent, conn, sock, link, inbuf, part,
                       c2s, s2c>>,
           RunTypes', server' \in {"up", "busy", "down"}, crashes' = crashes, Control',
           ~ StopUndone' => ~ StopUndone /\ Unmixed'
    PROVE  ClientInv'
  <1>1. Cut
    <2>1. Pipe' = Pipe
      BY DEF Pipe
    <2>. QED
      BY <2>1, UncutPipe DEF ClientInv
  <1>2. NetTypes'
    BY DEF ClientInv, Types, NetTypes
  <1>. QED
    BY <1>1, <1>2, QuietInv DEF tvars

\* Steps that move Run or Stop on, or the server.
LEMMA MoveOnStep ==
    ASSUME ClientInv,
           \/ Start \/ Loop \/ Disconnected \/ AddNew \/ EpollWait \/ Dispatched
           \/ StopFlag \/ StopJoin \/ ServerStarts \/ Backlog \/ UNCHANGED vars
    PROVE  ClientInv'
  <1>. USE DEF runvars, bufvars, netvars, srvvars
  <1>0. tries \in 0 .. Retries /\ 0 \in 0 .. Retries /\ 0 < Retries /\ notices + 1 \in Nat
    BY RetriesAssumption DEF ClientInv, Types, RunTypes
  <1>1. /\ UNCHANGED <<request, nextId, tvars, called, sent, conn, sock, link,
                       inbuf, part, c2s, s2c, crashes>>
        /\ server' \in {"up", "busy", "down"}
    BY DEF ClientInv, Types, NetTypes, Start, Loop, Disconnected, AddNew, EpollWait,
           Dispatched, StopFlag, StopJoin, ServerStarts, Backlog, vars
  <1>2. RunTypes' /\ Control' /\ (~ StopUndone' => ~ StopUndone /\ Unmixed')
    <2>. USE <1>0, <1>1 DEF ClientInv, Types, RunTypes, Control, StopUndone, Unmixed
    <2>1. CASE Start
      BY <2>1 DEF Start
    <2>2. CASE Loop \/ AddNew \/ EpollWait \/ Dispatched
      BY <2>2 DEF Loop, AddNew, EpollWait, Dispatched
    <2>3. CASE Disconnected
      BY <2>3 DEF Disconnected
    <2>4. CASE StopFlag \/ StopJoin
      BY <2>4 DEF StopFlag, StopJoin
    <2>5. CASE ServerStarts \/ Backlog \/ UNCHANGED vars
      BY <2>5 DEF ServerStarts, Backlog, vars
    <2>. QED
      BY <2>1, <2>2, <2>3, <2>4, <2>5
  <1>. QED
    BY <1>1, <1>2, StillInv

\* A failed connect drops the callbacks.
LEMMA ConnectFailsStep ==
    ASSUME ClientInv, ConnectFails
    PROVE  ClientInv'
  <1>. USE DEF ConnectFails, bufvars, netvars, srvvars
  <1>1. tries \in Nat /\ Retries \in Nat /\ leaked \in Nat /\ MaxFds \in Nat
    BY RetriesAssumption, FdsAssumption DEF ClientInv, Types, RunTypes
  <1>2. RunTypes'
    BY <1>1 DEF ClientInv, Types, RunTypes, Control
  <1>3. Control'
    BY <1>1 DEF ClientInv, Control
  <1>4. ~ StopUndone' => ~ StopUndone /\ Unmixed'
    BY DEF ClientInv, Unmixed, StopUndone
  <1>5. server' \in {"up", "busy", "down"}
    BY DEF ClientInv, Types, NetTypes
  <1>. QED
    BY <1>2, <1>3, <1>4, <1>5, StillInv

\* Without a connection nothing is on its way.
LEMMA EmptyPipe ==
    ASSUME ClientInv, sock = None, rpc \notin {"dispatch", "aborted"}
    PROVE  inbuf = <<>> /\ s2c = <<>> /\ c2s = <<>>
  BY DEF ClientInv, Control

LEMMA ConnectStep ==
    ASSUME ClientInv, Connect
    PROVE  ClientInv' /\ Pipe' = Pipe
  <1>. USE DEF Connect, bufvars, srvvars
  <1>1. inbuf = <<>> /\ s2c = <<>> /\ c2s = <<>>
    BY EmptyPipe DEF ClientInv, Control
  <1>2. Pipe' = Pipe
    BY <1>1 DEF Pipe
  <1>3. Cut
    BY <1>2, UncutPipe DEF ClientInv
  <1>4. conn \in Nat /\ part \in 0 .. conn
    BY DEF ClientInv, Types, NetTypes
  <1>5. RunTypes' /\ NetTypes'
    BY <1>4 DEF ClientInv, Types, RunTypes, NetTypes
  <1>6. Control'
    BY <1>4 DEF ClientInv, Control, None
  <1>7. ~ StopUndone' => ~ StopUndone /\ Unmixed'
    BY <1>4 DEF ClientInv, Unmixed, StopUndone, None
  <1>. QED
    BY <1>2, <1>3, <1>5, <1>6, <1>7, QuietInv

\* What has not been received is lost, or what has not been answered.
LEMMA LosePipe ==
    ASSUME Types, inbuf' = inbuf, s2c' \in {s2c, <<>>}, c2s' = <<>>
    PROVE  Cut
  <1>1. /\ inbuf \in Seq(Frames) /\ s2c \in Seq(Frames) /\ c2s \in Seq(Frames)
        /\ inbuf \o s2c \in Seq(Frames)
    BY PipeType DEF Types, NetTypes
  <1>2. CASE s2c' = s2c
    <2>1. Pipe' = inbuf \o s2c
      BY <1>1, <1>2, ConcatEmptySeq DEF Pipe
    <2>2. /\ Len(inbuf \o s2c) \in 0 .. Len(Pipe)
          /\ inbuf \o s2c = SubSeq(Pipe, 1, Len(inbuf \o s2c))
      BY <1>1, FirstPart DEF Pipe
    <2>. QED
      BY <2>1, <2>2 DEF Cut
  <1>3. CASE s2c' = <<>>
    <2>1. Pipe' = inbuf
      BY <1>1, <1>3, ConcatEmptySeq DEF Pipe
    <2>2. Pipe = inbuf \o (s2c \o c2s) /\ s2c \o c2s \in Seq(Frames)
      BY <1>1, ConcatAssociative, ConcatProperties DEF Pipe
    <2>3. Len(inbuf) \in 0 .. Len(Pipe) /\ inbuf = SubSeq(Pipe, 1, Len(inbuf))
      BY <1>1, <2>2, FirstPart
    <2>. QED
      BY <2>1, <2>3 DEF Cut
  <1>. QED
    BY <1>2, <1>3

LEMMA Closing ==
    ASSUME Types, Control, CloseSock, inbuf' = inbuf
    PROVE  /\ Cut
           /\ sock' = None /\ link' = "closed" /\ conn' = conn
           /\ s2c' = <<>> /\ c2s' = <<>>
  <1>1. /\ sock' = None /\ link' = "closed" /\ conn' = conn
        /\ s2c' = <<>> /\ c2s' = <<>>
    BY DEF CloseSock, Control
  <1>. QED
    BY <1>1, LosePipe

LEMMA HangupStep ==
    ASSUME ClientInv, Hangup
    PROVE  ClientInv' /\ Cut
  <1>. USE DEF Hangup, srvvars
  <1>1. inbuf' = inbuf
    BY DEF ClientInv, Control
  <1>2. /\ Cut
        /\ sock' = None /\ link' = "closed" /\ conn' = conn
        /\ s2c' = <<>> /\ c2s' = <<>>
    BY <1>1, Closing DEF ClientInv
  <1>3. RunTypes' /\ NetTypes'
    BY <1>1, <1>2 DEF ClientInv, Types, RunTypes, NetTypes, None
  <1>4. Control'
    BY <1>1, <1>2 DEF ClientInv, Control
  <1>5. ~ StopUndone' => ~ StopUndone /\ Unmixed'
    BY DEF StopUndone, Unmixed
  <1>. QED
    BY <1>2, <1>3, <1>4, <1>5, QuietInv DEF tvars

LEMMA StopCloseStep ==
    ASSUME ClientInv, StopClose
    PROVE  ClientInv' /\ Cut
  <1>. USE DEF StopClose, runvars, bufvars, srvvars
  <1>1. /\ Cut
        /\ sock' = None /\ link' = "closed" /\ conn' = conn
        /\ s2c' = <<>> /\ c2s' = <<>>
    BY Closing DEF ClientInv
  <1>2. RunTypes' /\ NetTypes'
    BY <1>1 DEF ClientInv, Types, RunTypes, NetTypes, None
  <1>3. Control'
    BY <1>1 DEF ClientInv, Control
  <1>4. ~ StopUndone' => ~ StopUndone /\ Unmixed'
    BY <1>1 DEF ClientInv, StopUndone, Unmixed
  <1>. QED
    BY <1>1, <1>2, <1>3, <1>4, QuietInv DEF tvars

LEMMA ServerExitsStep ==
    ASSUME ClientInv, ServerExits
    PROVE  ClientInv' /\ Cut
  <1>. USE DEF ServerExits, runvars, bufvars
  <1>1. Cut
    BY LosePipe DEF ClientInv
  <1>2. RunTypes' /\ NetTypes'
    BY CrashAssumption DEF ClientInv, Types, RunTypes, NetTypes
  <1>3. Control'
    BY DEF ClientInv, Control
  <1>4. ~ StopUndone' => ~ StopUndone /\ Unmixed'
    BY DEF ClientInv, StopUndone, Unmixed
  <1>5. UNCHANGED tpc \/ ThreadsEnd
    BY DEF ClientInv, Types, ThreadTypes, ThreadsEnd
  <1>. QED
    BY <1>1, <1>2, <1>3, <1>4, <1>5, QuietInv

\* An assertion that fails ends every thread and closes the connection.
LEMMA WriteAbortsStep ==
    ASSUME ClientInv, NEW t \in Threads, WriteAborts(t)
    PROVE  ClientInv' /\ Cut
  <1>. USE DEF WriteAborts, bufvars, srvvars
  <1>1. Cut
    BY LosePipe DEF ClientInv
  <1>2. RunTypes' /\ NetTypes'
    BY DEF ClientInv, Types, RunTypes, NetTypes
  <1>3. Control'
    BY DEF ClientInv, Control
  <1>4. ~ StopUndone' => ~ StopUndone /\ Unmixed'
    BY DEF ClientInv, StopUndone, Unmixed
  <1>5. ThreadsEnd
    BY DEF ThreadsEnd
  <1>. QED
    BY <1>1, <1>2, <1>3, <1>4, <1>5, QuietInv

LEMMA ServerAnswersStep ==
    ASSUME ClientInv, ServerAnswers
    PROVE  ClientInv' /\ Pipe' = Pipe
  <1>. USE DEF ServerAnswers, runvars, bufvars, srvvars
  <1>1. /\ inbuf \in Seq(Frames) /\ s2c \in Seq(Frames) /\ c2s \in Seq(Frames)
        /\ Head(c2s) \in Frames /\ Tail(c2s) \in Seq(Frames)
        /\ Append(s2c, Head(c2s)) \in Seq(Frames)
    BY HeadTailProperties, AppendProperties DEF ClientInv, Types, NetTypes
  <1>2. Pipe' = Pipe
    <2>1. inbuf \o Append(s2c, Head(c2s)) = Append(inbuf \o s2c, Head(c2s))
      BY <1>1, AppendLast
    <2>2. inbuf \o s2c \in Seq(Frames)
      BY <1>1, ConcatProperties
    <2>. QED
      BY <1>1, <2>1, <2>2, MoveHead DEF Pipe
  <1>3. Cut
    BY <1>2, UncutPipe DEF ClientInv
  <1>4. RunTypes' /\ NetTypes'
    BY <1>1 DEF ClientInv, Types, RunTypes, NetTypes
  <1>5. Control'
    BY DEF ClientInv, Control
  <1>6. ~ StopUndone' => ~ StopUndone /\ Unmixed'
    BY DEF ClientInv, StopUndone, Unmixed
  <1>. QED
    BY <1>2, <1>3, <1>4, <1>5, <1>6, QuietInv DEF tvars

\* What recv takes moves from the socket to the buffer.
LEMMA TakeFacts ==
    ASSUME Types, inbuf = <<>>, Take
    PROVE  /\ inbuf' \in Seq(Frames) /\ s2c' \in Seq(Frames)
           /\ part' \in {None, conn}
           /\ UNCHANGED <<conn, link, c2s>>
           /\ part \in {None, conn} => inbuf' \o s2c' = s2c
  <1>1. PICK n \in 0 .. Len(s2c) :
           /\ inbuf' \in Framed(SubSeq(s2c, 1, n))
           /\ s2c' = SubSeq(s2c, n + 1, Len(s2c))
           /\ part' \in {None, conn}
    BY DEF Take
  <1>. PICK taken : taken = SubSeq(s2c, 1, n)
    OBVIOUS
  <1>2. /\ taken \in Seq(Frames) /\ s2c' \in Seq(Frames)
        /\ taken \o s2c' = s2c
    BY <1>1, SplitPipe DEF Types, NetTypes
  <1>3. CASE part \in {None, conn}
    <2>1. inbuf' = taken
      BY <1>1, <1>3 DEF Framed
    <2>. QED
      BY <1>1, <1>2, <2>1 DEF Take
  <1>4. CASE part \notin {None, conn}
    <2>1. PICK id \in {0} \cup {entry.id : entry \in request} :
             inbuf' = [i \in DOMAIN taken |-> [taken[i] EXCEPT !.id = id]]
      BY <1>1, <1>4 DEF Framed
    <2>2. id \in Nat
      BY DEF Types, TableTypes, Frames
    <2>3. /\ Len(taken) \in Nat /\ DOMAIN taken = 1 .. Len(taken)
          /\ \A i \in 1 .. Len(taken) : taken[i] \in Frames
      BY <1>2, LenProperties, ElementOfSeq
    <2>4. \A i \in 1 .. Len(taken) : [taken[i] EXCEPT !.id = id] \in Frames
      BY <2>2, <2>3 DEF Frames
    <2>5. inbuf' \in [1 .. Len(taken) -> Frames]
      BY <2>1, <2>3, <2>4
    <2>6. inbuf' \in Seq(Frames)
      BY <2>3, <2>5, SeqDef
    <2>. QED
      BY <1>1, <1>2, <1>4, <2>6 DEF Take
  <1>. QED
    BY <1>3, <1>4

\* A step that receives.
LEMMA TakeInv ==
    ASSUME ClientInv, inbuf = <<>>, sock # None, Take,
           rpc' = "dispatch", spc # "done",
           UNCHANGED <<running, sock, request, nextId, tvars, tries, leaked, called,
                       notices, spc, srvvars, sent>>
    PROVE  ClientInv' /\ (~ StopUndone => Pipe' = Pipe)
  <1>. USE DEF srvvars, tvars
  <1>1. /\ inbuf' \in Seq(Frames) /\ s2c' \in Seq(Frames)
        /\ part' \in {None, conn}
        /\ UNCHANGED <<conn, link, c2s>>
        /\ part \in {None, conn} => inbuf' \o s2c' = s2c
    BY TakeFacts DEF ClientInv
  <1>2. RunTypes' /\ NetTypes'
    BY <1>1 DEF ClientInv, Types, RunTypes, NetTypes, None
  <1>3. Control'
    BY <1>1 DEF ClientInv, Control
  <1>4. CASE StopUndone
    <2>1. StopUndone' /\ ThreadTypes' /\ TableTypes' /\ Calling'
      BY <1>4 DEF StopUndone, ClientInv, Types, ThreadTypes, TableTypes, Calling, Current
    <2>. QED
      BY <1>2, <1>3, <1>4, <2>1 DEF ClientInv, Types
  <1>5. CASE ~ StopUndone
    <2>1. Pipe' = Pipe
      <3>1. inbuf' \o s2c' = s2c
        BY <1>1, <1>5 DEF ClientInv, Unmixed
      <3>2. Pipe = s2c \o c2s
        BY ConcatEmptySeq DEF Pipe, ClientInv, Types, NetTypes
      <3>. QED
        BY <1>1, <3>1, <3>2 DEF Pipe
    <2>2. Cut
      BY <2>1, UncutPipe DEF ClientInv
    <2>3. ~ StopUndone' => ~ StopUndone /\ Unmixed'
      BY <1>1, <1>5 DEF StopUndone, Unmixed
    <2>. QED
      BY <1>2, <1>3, <2>1, <2>2, <2>3, QuietInv
  <1>. QED
    BY <1>4, <1>5

LEMMA RecvStep ==
    ASSUME ClientInv, Recv
    PROVE  ClientInv' /\ (~ StopUndone => Pipe' = Pipe)
  <1>. USE DEF Recv, bufvars, netvars, srvvars
  <1>1. inbuf = <<>> /\ spc # "done"
    BY DEF ClientInv, Control
  <1>2. CASE sock = None
    <2>1. RunTypes' /\ Control' /\ (~ StopUndone' => ~ StopUndone /\ Unmixed')
      BY <1>2 DEF ClientInv, Types, RunTypes, Control, StopUndone, Unmixed
    <2>2. /\ UNCHANGED <<sock, conn, link, inbuf, part, c2s, s2c, server, crashes>>
          /\ server' \in {"up", "busy", "down"}
      BY <1>2 DEF ClientInv, Types, NetTypes
    <2>. QED
      BY <1>2, <2>1, <2>2, StillInv DEF Pipe
  <1>3. CASE sock # None
    BY <1>1, <1>3, TakeInv
  <1>. QED
    BY <1>2, <1>3

\* Dispatch consumes the head of the pipe.
LEMMA DispatchPipe ==
    ASSUME Types, Dispatch
    PROVE  /\ Pipe # <<>> /\ Head(Pipe) = Head(inbuf) /\ Pipe' = Tail(Pipe)
           /\ Head(Pipe) = Pipe[1] /\ Head(Pipe) \in Frames
           /\ Len(Pipe) \in Nat \ {0}
           /\ DOMAIN Pipe = 1 .. Len(Pipe) /\ DOMAIN Pipe' = 1 .. Len(Pipe) - 1
           /\ \A i \in 1 .. Len(Pipe) - 1 : Pipe'[i] = Pipe[i + 1]
           /\ inbuf' \in Seq(Frames)
  <1>1. /\ inbuf \in Seq(Frames) /\ s2c \in Seq(Frames) /\ c2s \in Seq(Frames)
        /\ inbuf # <<>> /\ Pipe \in Seq(Frames)
        /\ inbuf' = Tail(inbuf) /\ UNCHANGED <<s2c, c2s>>
    BY PipeType DEF Types, NetTypes, Dispatch, netvars
  <1>2. /\ inbuf \o s2c # <<>> /\ Head(inbuf \o s2c) = Head(inbuf)
        /\ Tail(inbuf \o s2c) = Tail(inbuf) \o s2c
        /\ inbuf \o s2c \in Seq(Frames)
    BY <1>1, TailFirst, PipeType
  <1>3. Pipe # <<>> /\ Head(Pipe) = Head(inbuf) /\ Pipe' = Tail(Pipe)
    <2>. PICK answers : answers = inbuf \o s2c
      OBVIOUS
    <2>1. /\ answers \o c2s # <<>> /\ Head(answers \o c2s) = Head(answers)
          /\ Tail(answers \o c2s) = Tail(answers) \o c2s
      BY <1>1, <1>2, TailFirst
    <2>2. Pipe = answers \o c2s /\ Pipe' = Tail(answers) \o c2s
      BY <1>1, <1>2 DEF Pipe
    <2>. QED
      BY <1>2, <2>1, <2>2
  <1>4. /\ Tail(Pipe) \in Seq(Frames) /\ Len(Tail(Pipe)) = Len(Pipe) - 1
        /\ \A i \in 1 .. Len(Tail(Pipe)) : Tail(Pipe)[i] = Pipe[i + 1]
        /\ Head(Pipe) \in Frames /\ Len(Pipe) \in Nat \ {0}
        /\ inbuf' \in Seq(Frames)
    BY <1>1, <1>3, HeadTailProperties, EmptySeq
  <1>5. DOMAIN Pipe = 1 .. Len(Pipe) /\ DOMAIN Tail(Pipe) = 1 .. Len(Pipe) - 1
    BY <1>1, <1>4, LenProperties
  <1>. QED
    BY <1>1, <1>3, <1>4, <1>5

\* The callback that runs is that of the request the response answers.
LEMMA DispatchOwn ==
    ASSUME ClientInv, Dispatch, ~ StopUndone
    PROVE  LET c == Head(Pipe).call
           IN  /\ \/ UNCHANGED called
                  \/ /\ called' = Append(called, [cbk |-> c, of |-> c])
                     /\ \A i \in DOMAIN called : called[i].cbk # c
               /\ \A e \in request' : e \in request /\ e.call # c
  <1>1. /\ Identified /\ Remembered
        /\ Head(Pipe) = Head(inbuf) /\ Head(Pipe) = Pipe[1] /\ 1 \in DOMAIN Pipe
    BY DispatchPipe DEF ClientInv, Matched
  <1>2. Head(Pipe) \in Known /\ request \subseteq Known
    BY <1>1 DEF Known
  <1>3. \A e \in request : e.id = Head(Pipe).id <=> e.call = Head(Pipe).call
    BY <1>1, <1>2 DEF Identified
  <1>4. request' = request \ {e \in request : e.id = Head(Pipe).id}
    BY <1>1 DEF Dispatch
  <1>5. \/ UNCHANGED called
        \/ \E e \in request :
              /\ e.id = Head(Pipe).id
              /\ called' = Append(called, [cbk |-> e.call, of |-> Head(Pipe).call])
    BY <1>1 DEF Dispatch
  <1>6. (\E e \in request : e.call = Head(Pipe).call)
           => \A i \in DOMAIN called : called[i].cbk # Head(Pipe).call
    BY <1>1 DEF Remembered
  <1>. QED
    BY <1>3, <1>4, <1>5, <1>6

LEMMA DispatchStep ==
    ASSUME ClientInv, Dispatch
    PROVE  ClientInv'
  <1>1. /\ Types /\ Control /\ Calling /\ rpc = "dispatch" /\ inbuf # <<>>
        /\ request' \subseteq request /\ rpc' = rpc
        /\ UNCHANGED <<running, sock, nextId, tpc, made, head, fd, ret, fresh, tries,
                       leaked, part, notices, spc, conn, link, c2s, s2c, server,
                       crashes, sent>>
    BY DEF ClientInv, Dispatch, tvars, netvars, srvvars
  <1>. PICK frame : frame = Head(Pipe)
    OBVIOUS
  <1>. PICK c : c = frame.call
    OBVIOUS
  <1>2. /\ frame = Head(inbuf) /\ frame = Pipe[1] /\ frame \in Frames
        /\ Len(Pipe) \in Nat \ {0}
        /\ DOMAIN Pipe = 1 .. Len(Pipe) /\ DOMAIN Pipe' = 1 .. Len(Pipe) - 1
        /\ \A i \in 1 .. Len(Pipe) - 1 : Pipe'[i] = Pipe[i + 1]
        /\ inbuf' \in Seq(Frames)
    BY <1>1, DispatchPipe
  <1>3. /\ c \in Calls /\ 1 \in DOMAIN Pipe
        /\ \A i \in DOMAIN Pipe' : i + 1 \in DOMAIN Pipe /\ Pipe'[i] = Pipe[i + 1] /\ 1 < i + 1
        /\ \A i, j \in DOMAIN Pipe' : i < j => i + 1 < j + 1
    BY <1>2 DEF Frames
  <1>4. TableTypes'
    <2>1. request \subseteq Frames /\ called \in Seq([cbk : Calls, of : Calls])
      BY <1>1 DEF Types, TableTypes
    <2>2. \/ called' = called
          \/ \E e \in request : called' = Append(called, [cbk |-> e.call, of |-> c])
      BY <1>2 DEF Dispatch
    <2>3. \A e \in request : [cbk |-> e.call, of |-> c] \in [cbk : Calls, of : Calls]
      BY <1>3, <2>1 DEF Frames
    <2>4. called' \in Seq([cbk : Calls, of : Calls])
      <3>. DEFINE Pair == [cbk : Calls, of : Calls]
      <3>1. /\ called \in Seq(Pair)
            /\ \A e \in request : [cbk |-> e.call, of |-> c] \in Pair
        BY <2>1, <2>3
      <3>. HIDE DEF Pair
      <3>2. called' \in Seq(Pair)
        BY <2>2, <3>1, AppendProperties
      <3>. QED
        BY <3>2 DEF Pair
    <2>. QED
      BY <1>1, <2>1, <2>4 DEF Types, TableTypes
  <1>5. ThreadTypes' /\ RunTypes' /\ NetTypes' /\ Control' /\ Calling'
    BY <1>1, <1>2 DEF Types, ThreadTypes, RunTypes, NetTypes, Control, Calling, Current
  <1>6. ASSUME ~ StopUndone
        PROVE  Matched' /\ Unmixed'
    <2>1. Matched /\ Unmixed'
      BY <1>1, <1>6 DEF ClientInv, Unmixed
    <2>2. Known' \subseteq Known
      <3>1. {Pipe[i] : i \in DOMAIN Pipe}' \subseteq {Pipe[i] : i \in DOMAIN Pipe}
        BY <1>2
      <3>2. Outgoing' = Outgoing
        BY <1>1 DEF Outgoing, Current
      <3>. QED
        BY <3>1, <3>2, <1>1 DEF Known
    <2>3. Identified'
      BY <1>1, <2>1, <2>2 DEF Matched, Identified, Begun
    <2>4. /\ \/ UNCHANGED called
             \/ /\ called' = Append(called, [cbk |-> c, of |-> c])
                /\ \A i \in DOMAIN called : called[i].cbk # c
          /\ \A e \in request' : e \in request /\ e.call # c
      BY <1>6, DispatchOwn
    <2>5. CASE UNCHANGED called
      <3>1. Remembered'
        BY <2>5, <1>1, <2>1 DEF Matched, Remembered, Begun
      <3>2. Ordered'
        BY <2>5, <1>1, <1>3, <2>1 DEF Matched, Ordered, Occurs, Precedes
      <3>. QED
        BY <2>1, <2>3, <3>1, <3>2 DEF Matched
    <2>6. CASE /\ called' = Append(called, [cbk |-> c, of |-> c])
               /\ \A i \in DOMAIN called : called[i].cbk # c
      <3>. PICK n : n = Len(called)
        OBVIOUS
      <3>1. /\ n \in Nat /\ DOMAIN called = 1 .. n /\ DOMAIN called' = 1 .. n + 1
            /\ \A i \in 1 .. n : called'[i] = called[i]
            /\ called'[n + 1].cbk = c /\ called'[n + 1].of = c
        BY <1>1, <1>3, <2>6, AppendProperties, LenProperties DEF Types, TableTypes
      <3>2. 1 \in DOMAIN Pipe /\ Pipe[1].call = c /\ frame \in Known
        BY <1>2 DEF Known
      <3>3. Remembered'
        <4>1. Begun(c)
          BY <2>1, <3>2 DEF Matched, Identified
        <4>. QED
          BY <1>1, <2>1, <2>4, <2>6, <3>1, <4>1 DEF Matched, Remembered, Begun
      <3>4. Ordered'
        <4>1. \A k \in DOMAIN sent : ret'[sent[k]] \in {"sent", "ok"}
          BY <1>1, <2>1 DEF Matched, Ordered
        <4>2. /\ \A i \in 1 .. n + 1 : Occurs(called'[i].cbk, sent)
              /\ \A i \in 1 .. n : Precedes(called'[i].cbk, c, sent)
          BY <2>1, <3>1, <3>2 DEF Matched, Ordered
        <4>3. \A i, j \in 1 .. n + 1 :
                 i < j => Precedes(called'[i].cbk, called'[j].cbk, sent)
          BY <2>1, <3>1, <4>2 DEF Matched, Ordered
        <4>4. \A i \in 1 .. n + 1 : \A j \in DOMAIN Pipe' :
                 Precedes(called'[i].cbk, Pipe'[j].call, sent)
          <5>1. \A j \in DOMAIN Pipe' : Precedes(c, Pipe'[j].call, sent)
            BY <1>3, <2>1, <3>2 DEF Matched, Ordered
          <5>2. \A i \in 1 .. n : \A j \in DOMAIN Pipe' :
                   Precedes(called'[i].cbk, Pipe'[j].call, sent)
            BY <1>3, <2>1, <3>1 DEF Matched, Ordered
          <5>. QED
            BY <3>1, <5>1, <5>2
        <4>5. /\ \A i \in DOMAIN Pipe' : Occurs(Pipe'[i].call, sent)
              /\ \A i, j \in DOMAIN Pipe' : i < j =>
                    Precedes(Pipe'[i].call, Pipe'[j].call, sent)
          BY <1>3, <2>1 DEF Matched, Ordered
        <4>. QED
          BY <1>1, <3>1, <4>1, <4>2, <4>3, <4>4, <4>5 DEF Ordered
      <3>. QED
        BY <2>1, <2>3, <3>3, <3>4 DEF Matched
    <2>. QED
      BY <2>4, <2>5, <2>6
  <1>7. StopUndone' = StopUndone
    BY <1>1 DEF StopUndone
  <1>. QED
    BY <1>4, <1>5, <1>6, <1>7 DEF ClientInv, Types

-----------------------------------------------------------------------------
(* The specification *)

LEMMA ClientInvInit ==
    ASSUME Init
    PROVE  ClientInv
  <1>. USE DEF Init
  <1>1. <<>> \in Seq(Frames) /\ <<>> \in Seq(Calls) /\ <<>> \in Seq([cbk : Calls, of : Calls])
    OBVIOUS
  <1>2. Types
    <2>1. ThreadTypes
      <3>1. 0 \in 0 .. MaxCalls
        BY CallsAssumption
      <3>. QED
        BY <3>1 DEF ThreadTypes, None
    <2>2. TableTypes
      BY <1>1 DEF TableTypes
    <2>3. RunTypes
      <3>1. 0 \in 0 .. Retries /\ 0 \in 0 .. MaxFds
        BY RetriesAssumption, FdsAssumption
      <3>2. running \in BOOLEAN
        BY Zenon
      <3>. QED
        BY <3>1, <3>2 DEF RunTypes
    <2>4. NetTypes
      BY <1>1, CrashAssumption DEF NetTypes, None
    <2>. QED
      BY <2>1, <2>2, <2>3, <2>4 DEF Types
  <1>3. Control
    BY DEF Control, None
  <1>4. Calling
    BY DEF Calling, Calls
  <1>5. Pipe = <<>>
    BY <1>1, ConcatEmptySeq DEF Pipe
  <1>6. Outgoing = {}
    BY DEF Outgoing
  <1>7. Known = {}
    BY <1>5, <1>6 DEF Known
  <1>8. Matched /\ Unmixed
    BY <1>5, <1>7 DEF Matched, Identified, Remembered, Ordered, Unmixed
  <1>. QED
    BY <1>2, <1>3, <1>4, <1>8 DEF ClientInv

LEMMA IInvInit ==
    ASSUME Init
    PROVE  IInv
  BY ClientInvInit DEF IInv, RpcTypes, Init

\* The actions of Run, Stop and the server keep rpc in its range.
LEMMA RpcTypesStep ==
    ASSUME RpcTypes, Next
    PROVE  RpcTypes'
  <1>1. CASE \E t \in Threads : SendRequest(t)
    BY <1>1, SendKeeps DEF RpcTypes
  <1>2. CASE Run
    BY <1>2 DEF RpcTypes, Run, Start, Loop, Disconnected, Connect, ConnectFails, AddNew,
                EpollWait, Hangup, Recv, Dispatch, Dispatched
  <1>3. CASE \/ StopFlag \/ StopClose \/ StopJoin
             \/ ServerAnswers \/ ServerExits \/ ServerStarts \/ Backlog
    BY <1>3 DEF RpcTypes, StopFlag, StopClose, StopJoin, ServerAnswers, ServerExits,
                ServerStarts, Backlog, runvars
  <1>4. CASE \E t \in Threads : WriteAborts(t)
    BY <1>4 DEF RpcTypes, WriteAborts
  <1>. QED
    BY <1>1, <1>2, <1>3, <1>4 DEF Next

LEMMA IInvStep ==
    ASSUME IInv, [Next]_vars
    PROVE  IInv'
  <1>1. CASE Next
    <2>1. RpcTypes'
      BY <1>1, RpcTypesStep DEF IInv
    <2>2. ClientInv'
      <3>. USE DEF IInv
      <3>1. CASE \E t \in Threads : SendRequest(t)
        BY <3>1, SendRequestStep
      <3>2. CASE Run
        BY <3>2, MoveOnStep, ConnectStep, ConnectFailsStep, HangupStep, RecvStep,
           DispatchStep DEF Run
      <3>3. CASE StopFlag \/ StopClose \/ StopJoin
        BY <3>3, MoveOnStep, StopCloseStep
      <3>4. CASE ServerAnswers \/ ServerExits \/ ServerStarts \/ Backlog
        BY <3>4, MoveOnStep, ServerAnswersStep, ServerExitsStep
      <3>5. CASE \E t \in Threads : WriteAborts(t)
        BY <3>5, WriteAbortsStep
      <3>. QED
        BY <1>1, <3>1, <3>2, <3>3, <3>4, <3>5 DEF Next
    <2>. QED
      BY <2>1, <2>2 DEF IInv
  <1>2. CASE UNCHANGED vars
    <2>1. ClientInv'
      BY <1>2, MoveOnStep DEF IInv
    <2>2. RpcTypes'
      BY <1>2 DEF IInv, RpcTypes, vars, runvars
    <2>. QED
      BY <2>1, <2>2 DEF IInv
  <1>. QED
    BY <1>1, <1>2

\* The inductive invariant holds in every reachable state.
THEOREM ClientInvariant == Spec => []IInv
  BY IInvInit, IInvStep, PTL DEF Spec

\* The client's state keeps its types, however many threads call it, however
\* often the server exits: no more than Retries connect attempts in a row, no
\* more descriptors left open than there are.
THEOREM TypeCorrect == Spec => []TypeOK
  BY ClientInvariant, InvTypeOK, PTL

LEMMA IInvProperties == IInv => OwnResponse /\ FailedNeverCalled /\ CalledInSendOrder
  BY InvProperties DEF IInv

\* Every callback is given the response to its own request, at most once.
THEOREM OwnResponses == Spec => []OwnResponse
  BY ClientInvariant, IInvProperties, PTL

\* A callback runs only for a request SendRequest has not reported as failed.
THEOREM NoneAfterFailure == Spec => []FailedNeverCalled
  BY ClientInvariant, IInvProperties, PTL

\* Callbacks run in the order in which their requests were written.
THEOREM SendOrder == Spec => []CalledInSendOrder
  BY ClientInvariant, IInvProperties, PTL

-----------------------------------------------------------------------------
(* RpcClient *)

\* The calls of frames.
LEMMA CallsOfType ==
    ASSUME NEW s \in Seq(Frames)
    PROVE  /\ CallsOf(s) \in Seq(Calls) /\ Len(CallsOf(s)) = Len(s) /\ Len(s) \in Nat
           /\ \A i \in 1 .. Len(s) : CallsOf(s)[i] = s[i].call /\ s[i].call \in Calls
  <1>1. Len(s) \in Nat /\ DOMAIN s = 1 .. Len(s) /\ \A i \in 1 .. Len(s) : s[i] \in Frames
    BY LenProperties, ElementOfSeq
  <1>2. \A i \in 1 .. Len(s) : s[i].call \in Calls
    BY <1>1 DEF Frames
  <1>3. CallsOf(s) \in [1 .. Len(s) -> Calls]
    BY <1>1, <1>2 DEF CallsOf
  <1>4. CallsOf(s) \in Seq(Calls)
    BY <1>1, <1>3, SeqDef
  <1>5. Len(CallsOf(s)) = Len(s)
    BY <1>1, <1>3, <1>4, LenProperties
  <1>. QED
    BY <1>1, <1>2, <1>4, <1>5 DEF CallsOf

LEMMA CallsOfConcat ==
    ASSUME NEW s \in Seq(Frames), NEW t \in Seq(Frames)
    PROVE  CallsOf(s \o t) = CallsOf(s) \o CallsOf(t)
  <1>1. /\ s \o t \in Seq(Frames) /\ Len(s \o t) = Len(s) + Len(t)
        /\ \A i \in 1 .. Len(s) + Len(t) :
              (s \o t)[i] = IF i <= Len(s) THEN s[i] ELSE t[i - Len(s)]
    BY ConcatProperties
  <1>2. /\ CallsOf(s) \in Seq(Calls) /\ Len(CallsOf(s)) = Len(s) /\ Len(s) \in Nat
        /\ \A i \in 1 .. Len(s) : CallsOf(s)[i] = s[i].call
    BY CallsOfType
  <1>3. /\ CallsOf(t) \in Seq(Calls) /\ Len(CallsOf(t)) = Len(t) /\ Len(t) \in Nat
        /\ \A i \in 1 .. Len(t) : CallsOf(t)[i] = t[i].call
    BY CallsOfType
  <1>4. /\ CallsOf(s \o t) \in Seq(Calls) /\ Len(CallsOf(s \o t)) = Len(s) + Len(t)
        /\ \A i \in 1 .. Len(s) + Len(t) : CallsOf(s \o t)[i] = (s \o t)[i].call
    BY <1>1, CallsOfType
  <1>5. /\ CallsOf(s) \o CallsOf(t) \in Seq(Calls)
        /\ Len(CallsOf(s) \o CallsOf(t)) = Len(s) + Len(t)
        /\ \A i \in 1 .. Len(s) + Len(t) :
              (CallsOf(s) \o CallsOf(t))[i] = IF i <= Len(s) THEN CallsOf(s)[i]
                                              ELSE CallsOf(t)[i - Len(s)]
    <2>1. /\ CallsOf(s) \o CallsOf(t) \in Seq(Calls)
          /\ Len(CallsOf(s) \o CallsOf(t)) = Len(CallsOf(s)) + Len(CallsOf(t))
          /\ \A i \in 1 .. Len(CallsOf(s)) + Len(CallsOf(t)) :
                (CallsOf(s) \o CallsOf(t))[i] =
                    IF i <= Len(CallsOf(s)) THEN CallsOf(s)[i]
                    ELSE CallsOf(t)[i - Len(CallsOf(s))]
      BY <1>2, <1>3, ConcatProperties
    <2>. QED
      BY <2>1, <1>2, <1>3
  <1>6. ASSUME NEW i \in 1 .. Len(s) + Len(t)
        PROVE  CallsOf(s \o t)[i] = (CallsOf(s) \o CallsOf(t))[i]
    <2>1. CASE i <= Len(s)
      BY <2>1, <1>1, <1>2, <1>4, <1>5
    <2>2. CASE i > Len(s)
      <3>1. i - Len(s) \in 1 .. Len(t)
        BY <2>2, <1>2, <1>3
      <3>2. CallsOf(s \o t)[i] = (s \o t)[i].call /\ (s \o t)[i] = t[i - Len(s)]
        BY <2>2, <1>1, <1>2, <1>3, <1>4
      <3>3. (CallsOf(s) \o CallsOf(t))[i] = CallsOf(t)[i - Len(s)]
        BY <2>2, <1>2, <1>3, <1>5
      <3>4. CallsOf(t)[i - Len(s)] = t[i - Len(s)].call
        BY <3>1, <1>3
      <3>. QED
        BY <3>2, <3>3, <3>4
    <2>. QED
      BY <2>1, <2>2, <1>2, <1>3
  <1>. QED
    BY <1>4, <1>5, <1>6, SeqEqual

LEMMA CallsOfAppend ==
    ASSUME NEW s \in Seq(Frames), NEW frame \in Frames
    PROVE  CallsOf(Append(s, frame)) = Append(CallsOf(s), frame.call)
  <1>1. /\ Append(s, frame) \in Seq(Frames) /\ Len(Append(s, frame)) = Len(s) + 1
        /\ \A i \in 1 .. Len(s) : Append(s, frame)[i] = s[i]
        /\ Append(s, frame)[Len(s) + 1] = frame
    BY AppendProperties
  <1>2. /\ CallsOf(s) \in Seq(Calls) /\ Len(CallsOf(s)) = Len(s) /\ Len(s) \in Nat
        /\ \A i \in 1 .. Len(s) : CallsOf(s)[i] = s[i].call
        /\ frame.call \in Calls
    BY CallsOfType DEF Frames
  <1>3. /\ CallsOf(Append(s, frame)) \in Seq(Calls)
        /\ Len(CallsOf(Append(s, frame))) = Len(s) + 1
        /\ \A i \in 1 .. Len(s) + 1 :
              CallsOf(Append(s, frame))[i] = Append(s, frame)[i].call
    BY <1>1, CallsOfType
  <1>4. /\ Append(CallsOf(s), frame.call) \in Seq(Calls)
        /\ Len(Append(CallsOf(s), frame.call)) = Len(s) + 1
        /\ \A i \in 1 .. Len(s) : Append(CallsOf(s), frame.call)[i] = CallsOf(s)[i]
        /\ Append(CallsOf(s), frame.call)[Len(s) + 1] = frame.call
    BY <1>2, AppendProperties
  <1>5. ASSUME NEW i \in 1 .. Len(s) + 1
        PROVE  CallsOf(Append(s, frame))[i] = Append(CallsOf(s), frame.call)[i]
    <2>1. i \in 1 .. Len(s) \/ i = Len(s) + 1
      BY <1>2
    <2>. QED
      BY <2>1, <1>1, <1>2, <1>3, <1>4
  <1>. QED
    BY <1>3, <1>4, <1>5, SeqEqual

LEMMA CallsOfTail ==
    ASSUME NEW s \in Seq(Frames), s # <<>>
    PROVE  /\ CallsOf(s) # <<>>
           /\ Head(CallsOf(s)) = Head(s).call
           /\ CallsOf(Tail(s)) = Tail(CallsOf(s))
  <1>1. /\ Tail(s) \in Seq(Frames) /\ Len(Tail(s)) = Len(s) - 1
        /\ \A i \in 1 .. Len(s) - 1 : Tail(s)[i] = s[i + 1]
        /\ Head(s) = s[1] /\ Len(s) \in Nat \ {0}
    BY HeadTailProperties, EmptySeq
  <1>2. /\ CallsOf(s) \in Seq(Calls) /\ Len(CallsOf(s)) = Len(s)
        /\ \A i \in 1 .. Len(s) : CallsOf(s)[i] = s[i].call
    BY CallsOfType
  <1>3. CallsOf(s) # <<>> /\ Head(CallsOf(s)) = Head(s).call
    BY <1>1, <1>2, EmptySeq
  <1>4. /\ CallsOf(Tail(s)) \in Seq(Calls) /\ Len(CallsOf(Tail(s))) = Len(s) - 1
        /\ \A i \in 1 .. Len(s) - 1 : CallsOf(Tail(s))[i] = Tail(s)[i].call
    BY <1>1, CallsOfType
  <1>5. /\ Tail(CallsOf(s)) \in Seq(Calls) /\ Len(Tail(CallsOf(s))) = Len(s) - 1
        /\ \A i \in 1 .. Len(s) - 1 : Tail(CallsOf(s))[i] = CallsOf(s)[i + 1]
    BY <1>2, <1>3, HeadTailProperties
  <1>6. \A i \in 1 .. Len(s) - 1 : CallsOf(Tail(s))[i] = Tail(CallsOf(s))[i]
    <2>1. \A i \in 1 .. Len(s) - 1 : i + 1 \in 1 .. Len(s)
      BY <1>1
    <2>. QED
      BY <2>1, <1>1, <1>2, <1>4, <1>5
  <1>. QED
    BY <1>3, <1>4, <1>5, <1>6, SeqEqual

LEMMA CallsOfFront ==
    ASSUME NEW s \in Seq(Frames), NEW n \in 0 .. Len(s)
    PROVE  /\ n \in 0 .. Len(CallsOf(s))
           /\ CallsOf(SubSeq(s, 1, n)) = SubSeq(CallsOf(s), 1, n)
  <1>1. /\ SubSeq(s, 1, n) \in Seq(Frames) /\ SubSeq(s, n + 1, Len(s)) \in Seq(Frames)
        /\ SubSeq(s, 1, n) \o SubSeq(s, n + 1, Len(s)) = s
        /\ CallsOf(s) \in Seq(Calls) /\ Len(CallsOf(s)) = Len(s) /\ Len(s) \in Nat
        /\ \A i \in 1 .. Len(s) : CallsOf(s)[i] = s[i].call /\ CallsOf(s)[i] \in Calls
        /\ \A i \in 1 .. n : s[i] \in Frames
    <2>1. /\ SubSeq(s, 1, n) \in Seq(Frames) /\ SubSeq(s, n + 1, Len(s)) \in Seq(Frames)
          /\ SubSeq(s, 1, n) \o SubSeq(s, n + 1, Len(s)) = s
      BY SplitPipe
    <2>2. /\ CallsOf(s) \in Seq(Calls) /\ Len(CallsOf(s)) = Len(s) /\ Len(s) \in Nat
          /\ \A i \in 1 .. Len(s) : CallsOf(s)[i] = s[i].call /\ CallsOf(s)[i] \in Calls
      BY CallsOfType
    <2>3. \A i \in 1 .. Len(s) : s[i] \in Frames
      BY ElementOfSeq
    <2>4. \A i \in 1 .. n : i \in 1 .. Len(s)
      BY <2>2
    <2>. QED
      BY <2>1, <2>2, <2>3, <2>4
  <1>2. /\ Len(SubSeq(s, 1, n)) = n
        /\ \A i \in 1 .. n : SubSeq(s, 1, n)[i] = s[i]
    <2>1. /\ Len(SubSeq(s, 1, n)) = IF 1 <= n THEN n - 1 + 1 ELSE 0
          /\ \A i \in 1 .. n - 1 + 1 : SubSeq(s, 1, n)[i] = s[1 + i - 1]
      BY <1>1, SubSeqProperties
    <2>. QED
      BY <2>1
  <1>3. /\ SubSeq(CallsOf(s), 1, n) \in Seq(Calls)
        /\ Len(SubSeq(CallsOf(s), 1, n)) = n
        /\ \A i \in 1 .. n : SubSeq(CallsOf(s), 1, n)[i] = CallsOf(s)[i]
    <2>1. \A i \in 1 .. n : CallsOf(s)[i] \in Calls
      BY <1>1
    <2>2. /\ SubSeq(CallsOf(s), 1, n) \in Seq(Calls)
          /\ Len(SubSeq(CallsOf(s), 1, n)) = IF 1 <= n THEN n - 1 + 1 ELSE 0
          /\ \A i \in 1 .. n - 1 + 1 : SubSeq(CallsOf(s), 1, n)[i] = CallsOf(s)[1 + i - 1]
      BY <2>1, SubSeqProperties
    <2>. QED
      BY <2>2
  <1>4. /\ CallsOf(SubSeq(s, 1, n)) \in Seq(Calls) /\ Len(CallsOf(SubSeq(s, 1, n))) = n
        /\ \A i \in 1 .. n : CallsOf(SubSeq(s, 1, n))[i] = SubSeq(s, 1, n)[i].call
    BY <1>1, <1>2, CallsOfType
  <1>5. \A i \in 1 .. n : CallsOf(SubSeq(s, 1, n))[i] = SubSeq(CallsOf(s), 1, n)[i]
    <2>1. \A i \in 1 .. n : i \in 1 .. Len(s)
      BY <1>1
    <2>2. \A i \in 1 .. n : CallsOf(s)[i] = s[i].call
      BY <1>1, <2>1
    <2>. QED
      BY <2>2, <1>2, <1>3, <1>4
  <1>. QED
    BY <1>1, <1>3, <1>4, <1>5, SeqEqual

LEMMA CallsOfThree ==
    ASSUME NEW s \in Seq(Frames), NEW t \in Seq(Frames), NEW u \in Seq(Frames)
    PROVE  CallsOf(s) \o CallsOf(t) \o CallsOf(u) = CallsOf(s \o t \o u)
  <1>. PICK front : front = s \o t
    OBVIOUS
  <1>1. front \in Seq(Frames) /\ CallsOf(front) = CallsOf(s) \o CallsOf(t)
    BY CallsOfConcat, ConcatProperties
  <1>2. CallsOf(front \o u) = CallsOf(front) \o CallsOf(u)
    BY <1>1, CallsOfConcat
  <1>. QED
    BY <1>1, <1>2

\* The queue of RpcClient is the calls of the pipe, before and after a step.
LEMMA QueueOfPipe ==
    ASSUME Types, Types'
    PROVE  /\ CallsOf(inbuf) \o CallsOf(s2c) \o CallsOf(c2s) = CallsOf(Pipe)
           /\ CallsOf(inbuf') \o CallsOf(s2c') \o CallsOf(c2s') = CallsOf(Pipe')
  <1>1. /\ inbuf \in Seq(Frames) /\ s2c \in Seq(Frames) /\ c2s \in Seq(Frames)
        /\ inbuf' \in Seq(Frames) /\ s2c' \in Seq(Frames) /\ c2s' \in Seq(Frames)
    BY DEF Types, NetTypes
  <1>2. CallsOf(inbuf) \o CallsOf(s2c) \o CallsOf(c2s) = CallsOf(Pipe)
    BY <1>1, CallsOfThree DEF Pipe
  <1>3. CallsOf(inbuf') \o CallsOf(s2c') \o CallsOf(c2s') = CallsOf(Pipe')
    BY <1>1, CallsOfThree DEF Pipe
  <1>. QED
    BY <1>2, <1>3

Answered == [i \in DOMAIN called |-> called[i].cbk]

\* A step that leaves the queue and the rest alone is a stutter of RpcClient.
LEMMA RpcStutter ==
    ASSUME Types, Types', Pipe' = Pipe, UNCHANGED <<ret, called, notices>>,
           (spc = "done")' <=> spc = "done"
    PROVE  UNCHANGED Abstract!rpcVars
  <1>1. CallsOf(inbuf') \o CallsOf(s2c') \o CallsOf(c2s')
            = CallsOf(inbuf) \o CallsOf(s2c) \o CallsOf(c2s)
    BY QueueOfPipe
  <1>. QED
    BY <1>1 DEF Abstract!rpcVars
\* A step that loses the end of the pipe.
LEMMA RpcLose ==
    ASSUME Types, Types', Cut, UNCHANGED <<ret, called, notices>>,
           (spc = "done")' <=> spc = "done"
    PROVE  Abstract!RpcNext
  <1>1. PICK n \in 0 .. Len(Pipe) : Pipe' = SubSeq(Pipe, 1, n)
    BY DEF Cut
  <1>2. n \in 0 .. Len(CallsOf(Pipe)) /\ CallsOf(Pipe') = SubSeq(CallsOf(Pipe), 1, n)
    BY <1>1, PipeType, CallsOfFront
  <1>3. Abstract!Lose
    BY <1>2, QueueOfPipe DEF Abstract!Lose
  <1>. QED
    BY <1>3 DEF Abstract!RpcNext

\* Register and LockSend are no steps of RpcClient; Write, WriteFails and Return
\* are Send, Fail and Accept.
LEMMA RpcSenders ==
    ASSUME ClientInv, ClientInv', NEW t \in Threads, SendRequest(t)
    PROVE  Abstract!RpcNext \/ UNCHANGED Abstract!rpcVars
  <1>1. /\ Types /\ Types' /\ Calling
        /\ UNCHANGED <<called, notices, spc, inbuf, s2c>>
        /\ ~ Write(t) => UNCHANGED c2s
    BY SendKeeps DEF ClientInv
  <1>2. ~ Write(t) => Pipe' = Pipe
    BY <1>1 DEF Pipe
  <1>. PICK c : c = Current(t)
    OBVIOUS
  <1>3. CASE Register(t) \/ LockSend(t)
    <2>1. ~ Write(t) /\ UNCHANGED ret
      BY <1>3 DEF Register, LockSend, Write
    <2>. QED
      BY <1>1, <1>2, <2>1, RpcStutter
  <1>4. CASE Write(t)
    <2>1. c \in Calls /\ ret[c] = "none"
      BY <1>1, <1>4, CurrentIsCall DEF Write, Calling
    <2>. PICK frame : frame = [id |-> head[t], call |-> c]
      OBVIOUS
    <2>2. frame \in Frames /\ frame.call = c
      BY <1>1, <2>1 DEF Frames, Types, ThreadTypes
    <2>3. Pipe' = Append(Pipe, frame)
      BY <1>1, <1>4, <2>2, WritePipe DEF Write
    <2>4. CallsOf(Pipe') = Append(CallsOf(Pipe), c)
      BY <1>1, <2>2, <2>3, PipeType, CallsOfAppend
    <2>5. ret' = [ret EXCEPT ![c] = "sent"]
      BY <1>4 DEF Write
    <2>6. Abstract!Send(c)
      BY <1>1, <2>1, <2>4, <2>5, QueueOfPipe DEF Abstract!Send
    <2>. QED
      BY <2>1, <2>6 DEF Abstract!RpcNext
  <1>5. CASE WriteFails(t)
    <2>1. c \in Calls /\ ret[c] = "none" /\ ret' = [ret EXCEPT ![c] = "err"] /\ ~ Write(t)
      BY <1>1, <1>5, CurrentIsCall DEF WriteFails, Calling, Lost, Write, Reaches
    <2>2. Abstract!Fail(c)
      BY <1>1, <1>2, <2>1, QueueOfPipe DEF Abstract!Fail
    <2>. QED
      BY <2>1, <2>2 DEF Abstract!RpcNext
  <1>6. CASE Return(t)
    <2>1. c \in Calls /\ ret[c] = "sent" /\ ret' = [ret EXCEPT ![c] = "ok"] /\ ~ Write(t)
      BY <1>1, <1>6, CurrentIsCall DEF Return, Calling, Write
    <2>2. Abstract!Accept(c)
      BY <1>1, <1>2, <2>1, QueueOfPipe DEF Abstract!Accept
    <2>. QED
      BY <2>1, <2>2 DEF Abstract!RpcNext
  <1>. QED
    BY <1>3, <1>4, <1>5, <1>6 DEF SendRequest

\* Disconnected is Notice: without a connection the queue is empty.
LEMMA RpcNotice ==
    ASSUME ClientInv, ClientInv', Disconnected
    PROVE  Abstract!RpcNext
  <1>1. /\ Types /\ Types' /\ spc # "done" /\ spc' = spc
        /\ inbuf = <<>> /\ s2c = <<>> /\ c2s = <<>>
        /\ UNCHANGED <<ret, called, inbuf, s2c, c2s>> /\ notices' = notices + 1
    BY EmptyPipe DEF ClientInv, Control, Disconnected, tvars, bufvars, netvars
  <1>2. Pipe = <<>> /\ Pipe' = Pipe
    BY <1>1 DEF Pipe
  <1>3. CallsOf(Pipe) = <<>> /\ CallsOf(Pipe') = <<>>
    BY <1>2 DEF CallsOf
  <1>4. Abstract!Notice
    BY <1>1, <1>3, QueueOfPipe DEF Abstract!Notice
  <1>. QED
    BY <1>4 DEF Abstract!RpcNext

\* Dispatch is Answer.
LEMMA RpcAnswer ==
    ASSUME ClientInv, ClientInv', Dispatch, ~ StopUndone
    PROVE  Abstract!RpcNext
  <1>. PICK c : c = Head(Pipe).call
    OBVIOUS
  <1>1. /\ Types /\ Types' /\ spc # "done" /\ spc' = spc
        /\ UNCHANGED <<ret, notices>>
    BY DEF ClientInv, Control, Dispatch, tvars
  <1>2. Pipe \in Seq(Frames) /\ Pipe # <<>> /\ Pipe' = Tail(Pipe)
    BY <1>1, PipeType, DispatchPipe
  <1>3. /\ CallsOf(Pipe) # <<>> /\ Head(CallsOf(Pipe)) = c
        /\ CallsOf(Pipe') = Tail(CallsOf(Pipe))
    BY <1>2, CallsOfTail
  <1>4. \/ UNCHANGED called
        \/ called' = Append(called, [cbk |-> c, of |-> c])
    BY DispatchOwn
  <1>5. \/ UNCHANGED Answered
        \/ Answered' = Append(Answered, c)
    <2>1. CASE called' = Append(called, [cbk |-> c, of |-> c])
      <3>1. c \in Calls
        BY <1>1, DispatchPipe DEF Frames
      <3>. PICK n : n = Len(called)
        OBVIOUS
      <3>2. /\ n \in Nat /\ DOMAIN called = 1 .. n /\ DOMAIN called' = 1 .. n + 1
            /\ \A i \in 1 .. n : called'[i] = called[i] /\ called[i].cbk \in Calls
            /\ called'[n + 1].cbk = c
        BY <1>1, <2>1, <3>1, AppendProperties, LenProperties, CalledType
           DEF Types, TableTypes
      <3>3. /\ Answered = [i \in 1 .. n |-> called[i].cbk]
            /\ Answered' = [i \in 1 .. n + 1 |-> called'[i].cbk]
        BY <3>2 DEF Answered
      <3>4. Answered \in Seq(Calls) /\ Len(Answered) = n
        <4>1. Answered \in [1 .. n -> Calls]
          BY <3>2, <3>3
        <4>2. Answered \in Seq(Calls)
          BY <3>2, <4>1, SeqDef
        <4>. QED
          BY <3>2, <4>1, <4>2, LenProperties
      <3>5. Answered' \in Seq(Calls) /\ Len(Answered') = n + 1
        <4>1. \A i \in 1 .. n + 1 : called'[i].cbk \in Calls
          BY <3>1, <3>2
        <4>2. Answered' \in [1 .. n + 1 -> Calls]
          BY <3>3, <4>1
        <4>3. Answered' \in Seq(Calls)
          BY <3>2, <4>2, SeqDef
        <4>. QED
          BY <3>2, <4>2, <4>3, LenProperties
      <3>6. /\ Append(Answered, c) \in Seq(Calls) /\ Len(Append(Answered, c)) = n + 1
            /\ \A i \in 1 .. n : Append(Answered, c)[i] = Answered[i]
            /\ Append(Answered, c)[n + 1] = c
        BY <3>1, <3>4, AppendProperties
      <3>7. \A i \in 1 .. n + 1 : Answered'[i] = Append(Answered, c)[i]
        BY <3>2, <3>3, <3>6
      <3>. QED
        BY <3>5, <3>6, <3>7, SeqEqual
    <2>2. CASE UNCHANGED called
      BY <2>2 DEF Answered
    <2>. QED
      BY <1>4, <2>1, <2>2
  <1>6. Abstract!Answer
    BY <1>1, <1>3, <1>5, QueueOfPipe DEF Abstract!Answer, Answered
  <1>. QED
    BY <1>6 DEF Abstract!RpcNext

\* What the steps of Stop and of the server, and an abort, are in RpcClient.
LEMMA RpcStopServer ==
    ASSUME ClientInv, ClientInv',
           \/ StopFlag \/ StopClose \/ StopJoin
           \/ ServerAnswers \/ ServerExits \/ ServerStarts \/ Backlog
           \/ \E t \in Threads : WriteAborts(t)
    PROVE  Abstract!RpcNext \/ UNCHANGED Abstract!rpcVars
  <1>1. Types /\ Types'
    BY DEF ClientInv
  <1>2. CASE StopJoin
    <2>1. Pipe' = Pipe /\ UNCHANGED <<ret, called, notices>> /\ spc' = "done"
      BY <1>2 DEF StopJoin, tvars, runvars, bufvars, netvars, Pipe
    <2>2. Abstract!Stopped
      BY <1>1, <2>1, QueueOfPipe DEF Abstract!Stopped
    <2>. QED
      BY <2>2 DEF Abstract!RpcNext
  <1>3. CASE StopClose \/ ServerExits \/ \E t \in Threads : WriteAborts(t)
    <2>1. /\ UNCHANGED <<ret, called, notices>>
          /\ (spc = "done")' <=> spc = "done"
      BY <1>3 DEF StopClose, ServerExits, WriteAborts, tvars, runvars
    <2>2. Cut
      BY <1>3, StopCloseStep, ServerExitsStep, WriteAbortsStep
    <2>. QED
      BY <1>1, <2>1, <2>2, RpcLose
  <1>4. CASE StopFlag \/ ServerAnswers \/ ServerStarts \/ Backlog
    <2>1. /\ UNCHANGED <<ret, called, notices>>
          /\ (spc = "done")' <=> spc = "done"
      BY <1>4 DEF StopFlag, ServerAnswers, ServerStarts, Backlog, tvars, runvars
    <2>2. Pipe' = Pipe
      BY <1>4, ServerAnswersStep
         DEF StopFlag, ServerStarts, Backlog, runvars, bufvars, netvars, Pipe
    <2>. QED
      BY <1>1, <2>1, <2>2, RpcStutter
  <1>. QED
    BY <1>2, <1>3, <1>4

LEMMA RpcRun ==
    ASSUME ClientInv, ClientInv', Run, ~ StopUndone
    PROVE  Abstract!RpcNext \/ UNCHANGED Abstract!rpcVars
  <1>1. Types /\ Types'
    BY DEF ClientInv
  <1>2. CASE Disconnected
    BY <1>2, RpcNotice
  <1>3. CASE Dispatch
    BY <1>3, RpcAnswer
  <1>4. CASE Hangup
    <2>1. UNCHANGED <<ret, called, notices, spc>>
      BY <1>4 DEF Hangup, tvars
    <2>. QED
      BY <1>1, <1>4, <2>1, HangupStep, RpcLose
  <1>5. CASE Start \/ Loop \/ Connect \/ ConnectFails \/ AddNew \/ EpollWait \/ Recv
             \/ Dispatched
    <2>1. UNCHANGED <<ret, called, notices, spc>>
      BY <1>5 DEF Start, Loop, Connect, ConnectFails, AddNew, EpollWait, Recv, Dispatched,
                  tvars
    <2>2. Pipe' = Pipe
      <3>1. CASE Connect \/ Recv
        BY <3>1, ConnectStep, RecvStep
      <3>2. CASE Start \/ Loop \/ ConnectFails \/ AddNew \/ EpollWait \/ Dispatched
        BY <3>2 DEF Start, Loop, ConnectFails, AddNew, EpollWait, Dispatched, bufvars,
                    netvars, Pipe
      <3>. QED
        BY <1>5, <3>1, <3>2
    <2>. QED
      BY <1>1, <2>1, <2>2, RpcStutter
  <1>. QED
    BY <1>2, <1>3, <1>4, <1>5 DEF Run

LEMMA RpcStart ==
    ASSUME Init
    PROVE  Abstract!RpcInit
  <1>1. CallsOf(<<>>) = <<>>
    BY DEF CallsOf
  <1>2. <<>> \o <<>> \o <<>> = <<>>
    BY ConcatEmptySeq, EmptySeq
  <1>. QED
    BY <1>1, <1>2 DEF Init, Abstract!RpcInit

LEMMA RpcStep ==
    ASSUME IInv, IInv', [Next]_vars
    PROVE  [Abstract!RpcNext \/ StopUndone]_(Abstract!rpcVars)
  <1>1. ClientInv /\ ClientInv'
    BY DEF IInv
  <1>2. CASE UNCHANGED vars
    BY <1>2 DEF vars, tvars, runvars, bufvars, netvars, Abstract!rpcVars
  <1>3. CASE Next
    BY <1>1, <1>3, RpcSenders, RpcRun, RpcStopServer DEF Next
  <1>. QED
    BY <1>2, <1>3

\* The client of epoll/ implements RpcClient until a Stop is undone: what its
\* users rely on does not depend on the threads, the sockets and the buffers.
THEOREM Refinement == Spec => KeepsPromise
  BY RpcStart, RpcStep, ClientInvariant, PTL DEF Spec, KeepsPromise

=============================================================================
