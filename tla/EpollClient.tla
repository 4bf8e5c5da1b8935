----------------------------- MODULE EpollClient ----------------------------
(***************************************************************************)
(* UDSockClient of epoll/poll_client.cpp: the threads that call            *)
(* SendRequest, the thread that executes Run, the thread that calls Stop,  *)
(* and the table of callbacks, the socket and the flag they share.         *)
(*                                                                         *)
(* The connections the client makes are numbered.  A descriptor is the     *)
(* number of the connection it stands for, None for the -1 of a closed     *)
(* sock_.  The pipes carry whole frames, of which the first one may have   *)
(* been received in part; positions and pieces are EpollFraming and        *)
(* EpollSend.  The server is any process that answers the requests of a    *)
(* connection in order, and may exit and come back; other clients may fill *)
(* its backlog.  The module starts where Init has connected and started    *)
(* the thread.  An assertion that fails ends all threads ("aborted").      *)
(* Callbacks do not call the client: they run under lock_req_.             *)
(***************************************************************************)
EXTENDS Integers, Sequences

CONSTANTS
    Threads,     \* the threads that call SendRequest
    MaxCalls,    \* bound: the calls of each of them
    MaxCrashes,  \* bound: how often the server exits
    Retries,     \* connect attempts of one ConnectServer, 10 in the code
    MaxFds       \* descriptors the process may have besides those it started with

ASSUME CallsAssumption == MaxCalls \in Nat
ASSUME CrashAssumption == MaxCrashes \in Nat
ASSUME RetriesAssumption == Retries \in Nat \ {0}
ASSUME FdsAssumption == MaxFds \in Nat

Calls == Threads \X (1 .. MaxCalls)

None == 0

VARIABLES
    running,   \* running_
    sock,      \* sock_
    request,   \* request_: a set of entries [id, call]
    nextId,    \* the static request_id
    tpc,       \* where each calling thread is in SendRequest
    made,      \* how many calls each thread has begun
    head,      \* the id in the header of each thread's frame
    fd,        \* the descriptor each thread passes to WriteVec
    rpc,       \* where the thread in Run is
    tries,     \* connect attempts made in this ConnectServer
    leaked,    \* sockets ConnectServer has given up without closing them
    inbuf,     \* the whole responses in the receive buffer
    part,      \* the connection whose response is there in part, or None
    spc,       \* where the thread in Stop is
    conn,      \* the number of the last connection made
    link,      \* its state: "up", "cut" by the server, "closed" by the client
    c2s, s2c,  \* the frames on their way on it
    server,    \* "up", "busy": up with a full backlog, or "down"
    crashes,   \* how often the server has exited
    ret,       \* history: how each call stands
    fresh,     \* history: the calls registered since the last connection was made
    sent,      \* history: the calls whose frame was written, in order
    called,    \* history: callbacks run, with the call the response belongs to
    notices    \* history: how often on_disconn_ has been called

tvars == <<tpc, made, head, fd, ret, fresh>>
bufvars == <<inbuf, part>>
runvars == <<rpc, tries, leaked, bufvars, called, notices>>
netvars == <<conn, link, c2s, s2c>>
srvvars == <<server, crashes>>
vars == <<running, sock, request, nextId, tvars, runvars, spc, netvars, srvvars, sent>>

Current(t) == <<t, made[t]>>

Init ==
    /\ running = FALSE
    /\ sock = 1
    /\ request = {}
    /\ nextId = 1
    /\ tpc = [t \in Threads |-> "idle"]
    /\ made = [t \in Threads |-> 0]
    /\ head = [t \in Threads |-> 0]
    /\ fd = [t \in Threads |-> None]
    /\ rpc = "start"
    /\ tries = 0
    /\ leaked = 0
    /\ inbuf = <<>>
    /\ part = None
    /\ spc = "idle"
    /\ conn = 1
    /\ link = "up"
    /\ c2s = <<>>
    /\ s2c = <<>>
    /\ server = "up"
    /\ crashes = 0
    /\ ret = [c \in Calls |-> "none"]
    /\ fresh = {}
    /\ sent = <<>>
    /\ called = <<>>
    /\ notices = 0

-----------------------------------------------------------------------------
(* SendRequest *)

\* std::map::insert keeps an entry that is there.
Insert(table, id, c) ==
    IF \E entry \in table : entry.id = id
    THEN table
    ELSE table \cup {[id |-> id, call |-> c]}

\* Faulty Register: the id is not taken under lock_req_, so that two threads
\* that register at once take the same.
RegisterUnlocked(t) ==
    /\ tpc[t] = "idle"
    /\ made[t] < MaxCalls
    /\ made' = [made EXCEPT ![t] = @ + 1]
    /\ head' = [head EXCEPT ![t] = nextId]
    /\ nextId' \in {nextId} \cup {nextId + 1}
    /\ request' = Insert(request, nextId, <<t, made[t] + 1>>)
    /\ fresh' = fresh \cup {<<t, made[t] + 1>>}
    /\ tpc' = [tpc EXCEPT ![t] = "send"]
    /\ UNCHANGED <<running, sock, fd, ret, runvars, spc, netvars, srvvars, sent>>

\* Under lock_req_: the request gets its id and its callback is filed.
Register(t) ==
    /\ tpc[t] = "idle"
    /\ made[t] < MaxCalls
    /\ made' = [made EXCEPT ![t] = @ + 1]
    /\ head' = [head EXCEPT ![t] = nextId]
    /\ nextId' = nextId + 1
    /\ request' = Insert(request, nextId, <<t, made[t] + 1>>)
    /\ fresh' = fresh \cup {<<t, made[t] + 1>>}
    /\ tpc' = [tpc EXCEPT ![t] = "send"]
    /\ UNCHANGED <<running, sock, fd, ret, runvars, spc, netvars, srvvars, sent>>

\* The frame and the descriptor are locals of SendRequest.
ForgetLocals(t) ==
    /\ head' = [head EXCEPT ![t] = 0]
    /\ fd' = [fd EXCEPT ![t] = None]

\* lock_send_ is taken and sock_ is read for the call of WriteVec.
LockSend(t) ==
    /\ tpc[t] = "send"
    /\ \A u \in Threads : tpc[u] \notin {"write", "short"}
    /\ fd' = [fd EXCEPT ![t] = sock]
    /\ tpc' = [tpc EXCEPT ![t] = "write"]
    /\ UNCHANGED <<running, sock, request, nextId, made, head, ret, fresh,
                   runvars, spc, netvars, srvvars, sent>>

\* Whether the write can reach the server.  A descriptor closed meanwhile may
\* have been given to the socket of the next connection.
Reaches(d) == d # None /\ link = "up" /\ (d = conn \/ sock = conn)

Lost(d) == ~ (d = conn /\ link = "up")

\* Faulty Write: an error is returned when sock_ has changed meanwhile.
WriteThenRecheck(t) ==
    /\ tpc[t] = "write"
    /\ Reaches(fd[t])
    /\ c2s' = Append(c2s, [id |-> head[t], call |-> Current(t)])
    /\ sent' = Append(sent, Current(t))
    /\ ret' = [ret EXCEPT ![Current(t)] = IF sock = fd[t] THEN "sent" ELSE "err"]
    /\ tpc' = [tpc EXCEPT ![t] = IF sock = fd[t] THEN "return" ELSE "idle"]
    /\ ForgetLocals(t)
    /\ UNCHANGED <<running, sock, request, nextId, made, fresh,
                   runvars, spc, conn, link, s2c, srvvars>>

\* WriteVec succeeds and lock_send_ is released.
Write(t) ==
    /\ tpc[t] = "write"
    /\ Reaches(fd[t])
    /\ c2s' = Append(c2s, [id |-> head[t], call |-> Current(t)])
    /\ sent' = Append(sent, Current(t))
    /\ ret' = [ret EXCEPT ![Current(t)] = "sent"]
    /\ tpc' = [tpc EXCEPT ![t] = "return"]
    /\ ForgetLocals(t)
    /\ UNCHANGED <<running, sock, request, nextId, made, fresh,
                   runvars, spc, conn, link, s2c, srvvars>>

\* WriteVec fails; the callback stays filed.
WriteFails(t) ==
    /\ tpc[t] = "write"
    /\ Lost(fd[t])
    /\ ret' = [ret EXCEPT ![Current(t)] = "err"]
    /\ tpc' = [tpc EXCEPT ![t] = "idle"]
    /\ ForgetLocals(t)
    /\ UNCHANGED <<running, sock, request, nextId, made, fresh,
                   runvars, spc, netvars, srvvars, sent>>

Return(t) ==
    /\ tpc[t] = "return"
    /\ ret' = [ret EXCEPT ![Current(t)] = "ok"]
    /\ tpc' = [tpc EXCEPT ![t] = "idle"]
    /\ ForgetLocals(t)
    /\ UNCHANGED <<running, sock, request, nextId, made, fresh,
                   runvars, spc, netvars, srvvars, sent>>

SendRequest(t) ==
    Register(t) \/ LockSend(t) \/ Write(t) \/ WriteFails(t) \/ Return(t)

\* The server has exited with a part of the frame written: writev returns the
\* length of the part, and the assertion of WriteVec ends the process.
WriteAborts(t) ==
    /\ tpc[t] = "short"
    /\ tpc' = [u \in Threads |-> "aborted"]
    /\ rpc' = "aborted"
    /\ spc' = IF spc = "done" THEN spc ELSE "aborted"
    /\ sock' = None
    /\ link' = "closed"
    /\ c2s' = <<>>
    /\ s2c' = <<>>
    /\ UNCHANGED <<running, request, nextId, made, head, fd, ret, fresh, tries,
                   leaked, bufvars, called, notices, conn, srvvars, sent>>

-----------------------------------------------------------------------------
(* Run *)

\* CLOSE_FD(sock_): what is on its way on the connection is gone.
CloseSock ==
    /\ sock' = None
    /\ IF sock = None
       THEN UNCHANGED <<link, c2s, s2c>>
       ELSE link' = "closed" /\ c2s' = <<>> /\ s2c' = <<>>
    /\ UNCHANGED conn

\* Up to the loop: sock_ is looked at, added to the epoll instance and
\* running_ set, whatever Stop has done to them by then.
Start ==
    /\ \/ /\ rpc = "start"
          /\ rpc' = IF sock = None THEN "flag" ELSE "add"
          /\ UNCHANGED running
       \/ /\ rpc = "add"
          /\ rpc' = IF sock = None THEN "exit" ELSE "flag"
          /\ UNCHANGED running
       \/ /\ rpc = "flag"
          /\ running' = TRUE
          /\ rpc' = "top"
    /\ UNCHANGED <<sock, request, nextId, tvars, tries, leaked, bufvars, called,
                   notices, spc, netvars, srvvars, sent>>

\* The loop's condition, and on to epoll_wait if there is a socket.
Loop ==
    /\ rpc = "top"
    /\ \/ ~ running /\ rpc' = "exit"
       \/ running /\ sock # None /\ rpc' = "wait"
    /\ UNCHANGED <<running, sock, request, nextId, tvars, tries, leaked, bufvars,
                   called, notices, spc, netvars, srvvars, sent>>

\* Faulty Disconnected: the user is not told.
DisconnectedSilently ==
    /\ rpc = "top"
    /\ running
    /\ sock = None
    /\ leaked < MaxFds
    /\ tries' = 0
    /\ rpc' = "connect"
    /\ UNCHANGED <<running, sock, request, nextId, tvars, leaked, bufvars, called,
                   notices, spc, netvars, srvvars, sent>>

\* ConnectServer begins: a socket is made and on_disconn_ called.
Disconnected ==
    /\ rpc = "top"
    /\ running
    /\ sock = None
    /\ leaked < MaxFds
    /\ notices' = notices + 1
    /\ tries' = 0
    /\ rpc' = "connect"
    /\ UNCHANGED <<running, sock, request, nextId, tvars, leaked, bufvars, called,
                   spc, netvars, srvvars, sent>>

\* connect succeeds.
Connect ==
    /\ rpc = "connect"
    /\ server = "up"
    /\ conn' = conn + 1
    /\ sock' = conn + 1
    /\ link' = "up"
    /\ c2s' = <<>>
    /\ s2c' = <<>>
    /\ fresh' = {}
    /\ rpc' = "addnew"
    /\ UNCHANGED <<running, request, nextId, tpc, made, head, fd, ret, tries,
                   leaked, bufvars, called, notices, spc, srvvars, sent>>

\* Faulty ConnectFails: one attempt too many.
ConnectFailsOnceMore ==
    /\ rpc = "connect"
    /\ server # "up"
    /\ request' = {}
    /\ tries' = tries + 1
    /\ \/ tries' <= Retries /\ UNCHANGED <<rpc, leaked>>
       \/ tries' > Retries /\ rpc' = "top" /\ leaked' = leaked + 1
    /\ UNCHANGED <<running, sock, nextId, tvars, bufvars, called, notices, spc,
                   netvars, srvvars, sent>>

\* Faulty ConnectFails: the thread ends after the last attempt.
ConnectFailsForGood ==
    /\ rpc = "connect"
    /\ server # "up"
    /\ request' = {}
    /\ tries' = tries + 1
    /\ rpc' = IF tries' < Retries THEN "connect" ELSE "exit"
    /\ UNCHANGED <<running, sock, nextId, tvars, leaked, bufvars, called, notices,
                   spc, netvars, srvvars, sent>>

\* Faulty ConnectFails: the attempts are not counted.
ConnectRetriesForEver ==
    /\ rpc = "connect"
    /\ server # "up"
    /\ request' = {}
    /\ UNCHANGED <<running, sock, nextId, tvars, runvars, spc, netvars, srvvars,
                   sent>>

\* connect fails, for want of a server or of room in its backlog (the socket is
\* non-blocking): every filed callback is dropped (CleanRequest).  After the last
\* attempt the socket is given up, still open.
ConnectFails ==
    /\ rpc = "connect"
    /\ server # "up"
    /\ request' = {}
    /\ tries' = tries + 1
    /\ \/ tries' < Retries /\ UNCHANGED <<rpc, leaked>>
       \/ tries' = Retries /\ rpc' = "top" /\ leaked' = leaked + 1
    /\ UNCHANGED <<running, sock, nextId, tvars, bufvars, called, notices, spc,
                   netvars, srvvars, sent>>

\* The new socket is added to the epoll instance, unless Stop has closed it.
AddNew ==
    /\ rpc = "addnew"
    /\ rpc' = IF sock = None THEN "exit" ELSE "wait"
    /\ UNCHANGED <<running, sock, request, nextId, tvars, tries, leaked, bufvars,
                   called, notices, spc, netvars, srvvars, sent>>

\* epoll_wait: EPOLLHUP once the server has closed, whatever there is to read;
\* EPOLLIN; or nothing within 10 ms.
EpollWait ==
    /\ rpc = "wait"
    /\ \/ link = "cut" /\ rpc' = "hup"
       \/ link = "up" /\ s2c # <<>> /\ rpc' = "recv"
       \/ link # "cut" /\ s2c = <<>> /\ rpc' = "top"
    /\ UNCHANGED <<running, sock, request, nextId, tvars, tries, leaked, bufvars,
                   called, notices, spc, netvars, srvvars, sent>>

\* Faulty Hangup: the buffer is not emptied.
HangupKeepsPart ==
    /\ rpc = "hup"
    /\ CloseSock
    /\ rpc' = "top"
    /\ UNCHANGED <<running, request, nextId, tvars, tries, leaked, bufvars, called,
                   notices, spc, srvvars, sent>>

\* EPOLLHUP: the Buffer is emptied and the socket closed.
Hangup ==
    /\ rpc = "hup"
    /\ inbuf' = <<>>
    /\ part' = None
    /\ CloseSock
    /\ rpc' = "top"
    /\ UNCHANGED <<running, request, nextId, tvars, tries, leaked, called,
                   notices, spc, srvvars, sent>>

\* Bytes of another connection's response in front of the first one: what is
\* taken for headers then shows any id.
Framed(frames) ==
    IF part \in {None, conn}
    THEN {frames}
    ELSE {[i \in DOMAIN frames |-> [frames[i] EXCEPT !.id = id]] :
             id \in {0} \cup {entry.id : entry \in request}}

\* Whole responses, and a piece of the next one maybe.  (A recv that only adds
\* to such a piece changes nothing here.)
Take ==
    /\ \E n \in 0 .. Len(s2c) :
          /\ inbuf' \in Framed(SubSeq(s2c, 1, n))
          /\ s2c' = SubSeq(s2c, n + 1, Len(s2c))
          /\ \/ n > 0 /\ part' = None
             \/ n < Len(s2c) /\ part' = conn
          /\ n > 0 \/ part # conn
    /\ UNCHANGED <<conn, link, c2s>>

\* RecvData, which fails if Stop has closed the socket.
Recv ==
    /\ rpc = "recv"
    /\ IF sock = None
       THEN rpc' = "top" /\ UNCHANGED <<bufvars, netvars>>
       ELSE Take /\ rpc' = "dispatch"
    /\ UNCHANGED <<running, sock, request, nextId, tvars, tries, leaked, called,
                   notices, spc, srvvars, sent>>

\* Faulty Dispatch: the last response in the buffer comes first.
DispatchLast ==
    /\ rpc = "dispatch"
    /\ inbuf # <<>>
    /\ LET frame == inbuf[Len(inbuf)]
           found == {entry \in request : entry.id = frame.id}
       IN  /\ \/ found = {} /\ UNCHANGED called
              \/ \E entry \in found :
                    called' = Append(called, [cbk |-> entry.call, of |-> frame.call])
           /\ request' = request \ found
    /\ inbuf' = SubSeq(inbuf, 1, Len(inbuf) - 1)
    /\ UNCHANGED <<running, sock, nextId, tvars, rpc, tries, leaked, part, notices,
                   spc, netvars, srvvars, sent>>

\* Under lock_req_: the callback filed under the response's id, if there is
\* one, runs and is removed.
Dispatch ==
    /\ rpc = "dispatch"
    /\ inbuf # <<>>
    /\ LET frame == Head(inbuf)
           found == {entry \in request : entry.id = frame.id}
       IN  /\ \/ found = {} /\ UNCHANGED called
              \/ \E entry \in found :
                    called' = Append(called, [cbk |-> entry.call, of |-> frame.call])
           /\ request' = request \ found
    /\ inbuf' = Tail(inbuf)
    /\ UNCHANGED <<running, sock, nextId, tvars, rpc, tries, leaked, part, notices,
                   spc, netvars, srvvars, sent>>

\* Faulty Dispatched: an `if` for the `while` over the buffer.
DispatchedAfterOne ==
    /\ rpc = "dispatch"
    /\ rpc' = "top"
    /\ UNCHANGED <<running, sock, request, nextId, tvars, tries, leaked, bufvars,
                   called, notices, spc, netvars, srvvars, sent>>

\* All responses in the buffer are done with.
Dispatched ==
    /\ rpc = "dispatch"
    /\ inbuf = <<>>
    /\ rpc' = "top"
    /\ UNCHANGED <<running, sock, request, nextId, tvars, tries, leaked, bufvars,
                   called, notices, spc, netvars, srvvars, sent>>

Run == \/ Start \/ Loop \/ Disconnected \/ Connect \/ ConnectFails \/ AddNew
       \/ EpollWait \/ Hangup \/ Recv \/ Dispatch \/ Dispatched

-----------------------------------------------------------------------------
(* Stop *)

StopFlag ==
    /\ spc = "idle"
    /\ running' = FALSE
    /\ spc' = "close"
    /\ UNCHANGED <<sock, request, nextId, tvars, runvars, netvars, srvvars, sent>>

\* Faulty StopJoin: the thread is not waited for.
StopDetached ==
    /\ spc = "join"
    /\ spc' = "done"
    /\ UNCHANGED <<running, sock, request, nextId, tvars, runvars, netvars,
                   srvvars, sent>>

StopClose ==
    /\ spc = "close"
    /\ CloseSock
    /\ spc' = "join"
    /\ UNCHANGED <<running, request, nextId, tvars, runvars, srvvars, sent>>

StopJoin ==
    /\ spc = "join"
    /\ rpc = "exit"
    /\ spc' = "done"
    /\ UNCHANGED <<running, sock, request, nextId, tvars, runvars, netvars,
                   srvvars, sent>>

-----------------------------------------------------------------------------
(* The server *)

ServerAnswers ==
    /\ link = "up"
    /\ c2s # <<>>
    /\ c2s' = Tail(c2s)
    /\ s2c' = Append(s2c, Head(c2s))
    /\ UNCHANGED <<running, sock, request, nextId, tvars, runvars, spc, conn,
                   link, srvvars, sent>>

\* The server exits: what it has not answered is lost, what it has answered
\* can still be read.  A frame too large for the socket may be written in part.
ServerExits ==
    /\ server # "down"
    /\ crashes < MaxCrashes
    /\ server' = "down"
    /\ crashes' = crashes + 1
    /\ link' = IF link = "up" THEN "cut" ELSE link
    /\ c2s' = <<>>
    /\ \/ UNCHANGED tpc
       \/ \E t \in Threads :
             /\ tpc[t] = "write" /\ fd[t] = conn /\ link = "up"
             /\ tpc' = [tpc EXCEPT ![t] = "short"]
    /\ UNCHANGED <<running, sock, request, nextId, made, head, fd, ret, fresh,
                   runvars, spc, conn, s2c, sent>>

ServerStarts ==
    /\ server = "down"
    /\ server' = "up"
    /\ UNCHANGED <<running, sock, request, nextId, tvars, runvars, spc, netvars,
                   crashes, sent>>

\* Other clients fill the backlog of the listening socket, and the server empties
\* it.  Only a client without a connection can tell.
Backlog ==
    /\ sock = None
    /\ \/ server = "up" /\ server' = "busy"
       \/ server = "busy" /\ server' = "up"
    /\ UNCHANGED <<running, sock, request, nextId, tvars, runvars, spc, netvars,
                   crashes, sent>>

-----------------------------------------------------------------------------

Next ==
    \/ \E t \in Threads : SendRequest(t) \/ WriteAborts(t)
    \/ Run
    \/ StopFlag \/ StopClose \/ StopJoin
    \/ ServerAnswers \/ ServerExits \/ ServerStarts \/ Backlog

Spec == Init /\ [][Next]_vars

\* Every thread of the process runs, a call of SendRequest and of Stop that has
\* begun goes on, and a server that is up answers.  Nobody has to call, and the
\* server need not come back.
Fairness ==
    /\ \A t \in Threads :
          WF_vars(LockSend(t) \/ Write(t) \/ WriteFails(t) \/ WriteAborts(t)
                  \/ Return(t))
    /\ WF_vars(Run)
    /\ WF_vars(StopClose \/ StopJoin)
    /\ WF_vars(ServerAnswers)

FairSpec == Spec /\ Fairness

-----------------------------------------------------------------------------

Frames == [id : Nat, call : Calls]

\* The types of the client's state; a ConnectServer makes no more than Retries
\* attempts, and leaks at most the descriptors there are.
TypeOK ==
    /\ running \in BOOLEAN
    /\ sock \in Nat
    /\ request \subseteq Frames
    /\ nextId \in Nat
    /\ tpc \in [Threads -> {"idle", "send", "write", "short", "return", "aborted"}]
    /\ made \in [Threads -> 0 .. MaxCalls]
    /\ head \in [Threads -> Nat]
    /\ fd \in [Threads -> Nat]
    /\ rpc \in {"start", "add", "flag", "top", "connect", "addnew", "wait",
                "hup", "recv", "dispatch", "exit", "aborted"}
    /\ tries \in 0 .. Retries
    /\ leaked \in 0 .. MaxFds
    /\ inbuf \in Seq(Frames)
    /\ part \in 0 .. conn
    /\ spc \in {"idle", "close", "join", "done", "aborted"}
    /\ conn \in Nat
    /\ link \in {"up", "cut", "closed"}
    /\ c2s \in Seq(Frames)
    /\ s2c \in Seq(Frames)
    /\ server \in {"up", "busy", "down"}
    /\ crashes \in 0 .. MaxCrashes
    /\ ret \in [Calls -> {"none", "sent", "ok", "err"}]
    /\ fresh \subseteq Calls
    /\ sent \in Seq(Calls)
    /\ called \in Seq([cbk : Calls, of : Calls])
    /\ notices \in Nat

\* Stop was called before Run set the flag, and the thread goes on: it takes
\* the socket Stop has closed for a lost one and connects again, with a piece of
\* the old connection's response still in the buffer.  From then on a response
\* may go to the wrong callback; the properties below end here.  (An abort sets
\* spc as well: nothing happens after it.)
StopUndone == spc # "idle" /\ running

\* A callback is given the response to the very request it came with, and to
\* no request does it come twice.
OwnResponse ==
    ~ StopUndone =>
        /\ \A i \in DOMAIN called : called[i].cbk = called[i].of
        /\ \A i, j \in DOMAIN called : called[i].cbk = called[j].cbk => i = j

\* A callback runs only for a request SendRequest has not reported as failed.
FailedNeverCalled ==
    ~ StopUndone => \A i \in DOMAIN called : ret[called[i].cbk] \in {"sent", "ok"}

\* Callbacks run in the order in which the requests were written, over all
\* threads and all connections; some may be left out.
CalledInSendOrder ==
    ~ StopUndone =>
        \A i, j \in DOMAIN called : i < j =>
            \E k, m \in DOMAIN sent :
                k < m /\ sent[k] = called[i].cbk /\ sent[m] = called[j].cbk

\* A request that was sent on the connection that was there when its callback
\* was filed is answered, as long as the connection lives and nobody stops the
\* client.  (Here and below an abort counts as a Stop: spc # "idle".)
AnsweredWhileConnected ==
    \A c \in Calls :
        (ret[c] = "ok" /\ c \in fresh /\ link = "up")
            ~> \/ \E i \in DOMAIN called : called[i].cbk = c
               \/ link # "up" \/ spc # "idle"

\* A connection the server has closed is reported.
LossNoticed ==
    \A n \in 0 .. MaxCrashes + MaxFds :
        (link = "cut" /\ notices = n)
            ~> (notices > n \/ spc # "idle" \/ leaked = MaxFds)

\* Without a connection the client connects as soon as the server is back, with
\* room in its backlog.
Reconnects ==
    (sock = None /\ server = "up")
        ~> (sock # None \/ server # "up" \/ spc # "idle" \/ leaked = MaxFds)

\* Stop returns, once the thread in Run has come as far as its loop.
StopReturns ==
    (spc = "join" /\ rpc \notin {"start", "add", "flag"} /\ ~ running)
        ~> spc \in {"done", "aborted"}

\* The callback of a request for which SendRequest has returned 0 is called or
\* dropped in the end, as kCleanTimeoutRequest (epoll/poll_common.h) and the
\* client of single/ have it.  Here it is not: when the server exits without
\* having answered and a reconnect succeeds at once, it stays filed for ever.
UnansweredDropped ==
    \A c \in Calls :
        (ret[c] = "ok" /\ \E entry \in request : entry.call = c)
            ~> ((\A entry \in request : entry.call # c) \/ spc # "idle")

\* RpcClient's view of this state.
CallsOf(frames) == [i \in DOMAIN frames |-> frames[i].call]

Abstract == INSTANCE RpcClient WITH
    queue <- CallsOf(inbuf) \o CallsOf(s2c) \o CallsOf(c2s),
    answered <- [i \in DOMAIN called |-> called[i].cbk],
    stopped <- (spc = "done")

\* The client keeps the promise of RpcClient, at least until a Stop is undone.
KeepsPromise ==
    /\ Abstract!RpcInit
    /\ [][Abstract!RpcNext \/ StopUndone]_(Abstract!rpcVars)
=============================================================================
