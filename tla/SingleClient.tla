---------------------------- MODULE SingleClient ----------------------------
(***************************************************************************)
(* UDSockClient of single/domain_client.cpp against SingleServer: the      *)
(* threads that call SendRequest, the thread in Run, whose receives time   *)
(* out, and the thread in Stop.                                            *)
(*                                                                         *)
(* A recv that has begun keeps its connection, and so does a send that     *)
(* waits for room, also when Stop closes the descriptor meanwhile.  Ids    *)
(* are taken under lock_req_ and never twice: a call stands for its id,    *)
(* and for a thread of its own.  Time is the set of calls filed            *)
(* kCleanTimeoutRequest ago.  The module starts where Init has connected   *)
(* and started the thread.                                                 *)
(***************************************************************************)
EXTENDS SingleServer

CONSTANTS
    Retries,   \* kReConnectCount
    MaxFds     \* descriptors the process may have besides those it started with

ASSUME RetriesAssumption == Retries \in Nat \ {0}
ASSUME FdsAssumption == MaxFds \in Nat

VARIABLES
    running,   \* running_
    sock,      \* sock_
    request,   \* request_: the calls filed
    aged,      \* the calls filed at least kCleanTimeoutRequest ago
    tpc,       \* where each calling thread is in SendRequest
    sfd,       \* the connection on which its send waits for room, or None
    rpc,       \* where the thread in Run is
    rfd,       \* the connection of the recv it is in, or None
    got,       \* the header it has read, and what the body begins with
    tries,     \* connect attempts made in this ConnectServer
    leaked,    \* sockets ConnectServer has given up without closing them
    spc,       \* where the thread in Stop is
    begunOn,   \* history: the connection each request's header began on
    torn,      \* history: whether a frame has been cut by its own reader or writer
    called     \* history: the callbacks run, and the content each was given

tvars == <<tpc, sfd, begunOn>>
runvars == <<rpc, rfd, got, tries, leaked, called>>
vars == <<netvars, srvvars, running, sock, request, aged, tvars, runvars, spc, torn>>

Init ==
    /\ ServerInit
    /\ running = FALSE
    /\ sock = 1
    /\ request = {}
    /\ aged = {}
    /\ tpc = [t \in Calls |-> "idle"]
    /\ sfd = [t \in Calls |-> None]
    /\ rpc = "start"
    /\ rfd = None
    /\ got = NoFrame
    /\ tries = 0
    /\ leaked = 0
    /\ spc = "idle"
    /\ begunOn = [t \in Calls |-> None]
    /\ torn = FALSE
    /\ called = {}

-----------------------------------------------------------------------------
(* Connections *)

\* What sock_, the recv Run is in and the sends that wait will refer to: the
\* other connections are closed, with what is on its way on them.
NetBecomes(links, requests, responses) ==
    LET held == {sock', rfd'} \cup {sfd'[t] : t \in Calls}
    IN  /\ link' = [k \in Conns |-> IF k \in held THEN links[k] ELSE "closed"]
        /\ c2s' = [k \in Conns |-> IF k \in held THEN requests[k] ELSE <<>>]
        /\ s2c' = [k \in Conns |-> IF k \in held THEN responses[k] ELSE <<>>]

-----------------------------------------------------------------------------
(* SendRequest *)

\* The time is taken and, under lock_req_, the callback filed.
Register(t) ==
    /\ tpc[t] = "idle"
    /\ request' = request \cup {t}
    /\ tpc' = [tpc EXCEPT ![t] = "send"]
    /\ UNCHANGED <<netvars, srvvars, running, sock, aged, sfd, begunOn, runvars, spc,
                   torn>>

\* Faulty LockSend: the lock is not taken.
LockNothing(t) ==
    /\ tpc[t] = "send"
    /\ tpc' = [tpc EXCEPT ![t] = "head"]
    /\ UNCHANGED <<netvars, srvvars, running, sock, request, aged, sfd, begunOn, runvars,
                   spc, torn>>

Sending(t) == tpc[t] \in {"head", "rest", "body"}

LockSend(t) ==
    /\ tpc[t] = "send"
    /\ \A u \in Calls : ~ Sending(u)
    /\ tpc' = [tpc EXCEPT ![t] = "head"]
    /\ UNCHANGED <<netvars, srvvars, running, sock, request, aged, sfd, begunOn, runvars,
                   spc, torn>>

Open(k) == k # None /\ link[k] = "up"

\* The connection a send is on: sock_ as it is read, or as it was.
Target(t) == IF sfd[t] = None THEN sock ELSE sfd[t]

\* send finds no room and waits.
Block(t) ==
    /\ Sending(t)
    /\ sfd[t] = None
    /\ Open(sock)
    /\ Len(c2s[sock]) = Room
    /\ sfd' = [sfd EXCEPT ![t] = sock]
    /\ UNCHANGED <<netvars, srvvars, running, sock, request, aged, tpc, begunOn, runvars,
                   spc, torn>>

Puts(k, unit) == NetBecomes(link, [c2s EXCEPT ![k] = Append(@, unit)], s2c)

\* SendBytes reads sock_ for each byte, here for the first byte of the header, for
\* its rest, and for the body.  A rest without its beginning is no header.
SendUnit(t) ==
    LET k == Target(t)
    IN  /\ Open(k)
        /\ Len(c2s[k]) < Room
        /\ sfd' = [sfd EXCEPT ![t] = None]
        /\ UNCHANGED <<conn, srvvars, running, sock, request, aged, runvars, spc>>
        /\ \/ /\ tpc[t] = "head"
              /\ NetBecomes(link, c2s, s2c)
              /\ begunOn' = [begunOn EXCEPT ![t] = k]
              /\ tpc' = [tpc EXCEPT ![t] = "rest"]
              /\ UNCHANGED torn
           \/ /\ tpc[t] = "rest"
              /\ Puts(k, IF begunOn[t] = k THEN HeadUnit(t, 1) ELSE BodyUnit(NoCall))
              /\ begunOn' = [begunOn EXCEPT ![t] = k]
              /\ torn' = (torn \/ begunOn[t] # k)
              /\ tpc' = [tpc EXCEPT ![t] = "body"]
           \/ /\ tpc[t] = "body"
              /\ Puts(k, BodyUnit(t))
              /\ torn' = (torn \/ begunOn[t] # k)
              /\ tpc' = [tpc EXCEPT ![t] = "done"]
              /\ UNCHANGED begunOn

\* The descriptor is closed when send is called, or the server has gone: an error
\* is returned.
SendFails(t) ==
    /\ Sending(t)
    /\ ~ Open(Target(t))
    /\ sfd' = [sfd EXCEPT ![t] = None]
    /\ tpc' = [tpc EXCEPT ![t] = "done"]
    /\ UNCHANGED <<conn, srvvars, running, sock, request, aged, begunOn, runvars, spc,
                   torn>>
    /\ NetBecomes(link, c2s, s2c)

\* Time passes.
Age(t) ==
    /\ tpc[t] # "idle"
    /\ t \notin aged
    /\ t \in request
    /\ aged' = aged \cup {t}
    /\ UNCHANGED <<netvars, srvvars, running, sock, request, tvars, runvars, spc, torn>>

-----------------------------------------------------------------------------
(* Run *)

Start ==
    /\ rpc = "start"
    /\ running' = TRUE
    /\ rpc' = "top"
    /\ UNCHANGED <<netvars, srvvars, sock, request, aged, tvars, rfd, got, tries, leaked,
                   called, spc, torn>>

\* The head of the loop.
Loop ==
    /\ rpc = "top"
    /\ \/ /\ ~ running
          /\ rpc' = "exit"
          /\ UNCHANGED <<rfd, tries>>
       \/ /\ running /\ sock # None
          /\ rpc' = "head"
          /\ rfd' = sock
          /\ UNCHANGED tries
       \/ /\ running /\ sock = None
          /\ leaked < MaxFds
          /\ rpc' = "connect"
          /\ tries' = 0
          /\ UNCHANGED rfd
    /\ UNCHANGED <<netvars, srvvars, running, sock, request, aged, tvars, got, leaked,
                   called, spc, torn>>

Connect ==
    /\ rpc = "connect"
    /\ server = "up"
    /\ conn < MaxConns
    /\ conn' = conn + 1
    /\ sock' = conn + 1
    /\ rfd' = conn + 1
    /\ link' = [link EXCEPT ![conn + 1] = "up"]
    /\ rpc' = "head"
    /\ UNCHANGED <<c2s, s2c, srvvars, running, request, aged, tvars, got, tries, leaked, called,
                   spc, torn>>

\* connect fails; after the sleep of kReconnectInterval what was filed before
\* it is kCleanTimeoutRequest old.
ConnectFails ==
    /\ rpc = "connect"
    /\ server = "down"
    /\ tries' = tries + 1
    /\ aged' = aged \cup request
    /\ rpc' = "retry"
    /\ UNCHANGED <<netvars, srvvars, running, sock, request, tvars, rfd, got, leaked,
                   called, spc, torn>>

\* Faulty Retry: one attempt too many.
RetryOnceMore ==
    /\ rpc = "retry"
    /\ request' = request \ aged
    /\ \/ tries <= Retries /\ rpc' = "connect" /\ UNCHANGED leaked
       \/ tries > Retries /\ rpc' = "top" /\ leaked' = leaked + 1
    /\ UNCHANGED <<netvars, srvvars, running, sock, aged, tvars, rfd, got, tries,
                   called, spc, torn>>

\* CleanTimeoutRequest, and the next attempt; after the last on_disconnect is
\* called, and the socket is left open.
Retry ==
    /\ rpc = "retry"
    /\ request' = request \ aged
    /\ \/ tries < Retries /\ rpc' = "connect" /\ UNCHANGED leaked
       \/ tries = Retries /\ rpc' = "top" /\ leaked' = leaked + 1
    /\ UNCHANGED <<netvars, srvvars, running, sock, aged, tvars, rfd, got, tries,
                   called, spc, torn>>

\* recv has returned a unit: the next one reads sock_ again.
Takes == NetBecomes(link, c2s, [s2c EXCEPT ![rfd] = Tail(@)])

RecvHead ==
    /\ rpc = "head"
    /\ rfd # None
    /\ s2c[rfd] # <<>>
    /\ \E f \in Header(Head(s2c[rfd])) :
          \/ f.size = 0 /\ rpc' = "top" /\ rfd' = None /\ UNCHANGED got
          \/ f.size > 0 /\ got' = f /\ rpc' = "body" /\ rfd' = sock
    /\ UNCHANGED <<conn, srvvars, running, sock, request, aged, tvars, tries, leaked,
                   called, spc, torn>>
    /\ Takes

RecvBody ==
    /\ rpc = "body"
    /\ rfd # None
    /\ s2c[rfd] # <<>>
    /\ got' = Extend(got, Head(s2c[rfd]))
    /\ IF got'.left = 0
       THEN rpc' = "callback" /\ rfd' = None
       ELSE rpc' = "body" /\ rfd' = sock
    /\ UNCHANGED <<conn, srvvars, running, sock, request, aged, tvars, tries, leaked,
                   called, spc, torn>>
    /\ Takes

\* Under lock_req_: the callback filed under the id, if there is one.
Callback ==
    /\ rpc = "callback"
    /\ request' = request \ {got.id}
    /\ called' = IF got.id \in request
                 THEN called \cup {[cbk |-> got.id, of |-> got.data]}
                 ELSE called
    /\ got' = NoFrame
    /\ rpc' = "top"
    /\ UNCHANGED <<netvars, srvvars, running, sock, aged, tvars, rfd, tries, leaked,
                   spc, torn>>

InRecv == rpc \in {"head", "body"}

Silent == InRecv /\ rfd # None /\ s2c[rfd] = <<>> /\ link[rfd] = "up"

\* Faulty RecvTimesOut: SO_RCVTIMEO is not set.
RecvWaits ==
    /\ Silent
    /\ UNCHANGED vars

\* Nothing comes within SO_RCVTIMEO.  What was read of the frame is dropped,
\* and the socket stays.
RecvTimesOut ==
    /\ Silent
    /\ rpc' = "clean"
    /\ rfd' = None
    /\ got' = NoFrame
    /\ torn' = (torn \/ rpc = "body")
    /\ UNCHANGED <<conn, srvvars, running, sock, request, aged, tvars, tries, leaked,
                   called, spc>>
    /\ NetBecomes(link, c2s, s2c)

\* The end of the stream, or a closed descriptor: CleanSocket.
RecvFails ==
    /\ InRecv
    /\ \/ rfd = None
       \/ rfd # None /\ s2c[rfd] = <<>> /\ link[rfd] = "cut"
    /\ rpc' = "clean"
    /\ rfd' = None
    /\ sock' = None
    /\ got' = NoFrame
    /\ UNCHANGED <<conn, srvvars, running, request, aged, tvars, tries, leaked, called,
                   spc, torn>>
    /\ NetBecomes(link, c2s, s2c)

\* Faulty Clean: nothing is removed after a failed receive.
CleanNothing ==
    /\ rpc = "clean"
    /\ rpc' = "top"
    /\ UNCHANGED <<netvars, srvvars, running, sock, request, aged, tvars, rfd, got,
                   tries, leaked, called, spc, torn>>

\* CleanTimeoutRequest, under lock_req_.
Clean ==
    /\ rpc = "clean"
    /\ request' = request \ aged
    /\ rpc' = "top"
    /\ UNCHANGED <<netvars, srvvars, running, sock, aged, tvars, rfd, got, tries, leaked,
                   called, spc, torn>>

Run == \/ Start \/ Loop \/ Connect \/ ConnectFails \/ Retry \/ RecvHead \/ RecvBody
       \/ Callback \/ RecvTimesOut \/ RecvFails \/ Clean

-----------------------------------------------------------------------------
(* Stop *)

Stop ==
    /\ \/ /\ spc = "idle"
          /\ running' = FALSE
          /\ spc' = "close"
          /\ UNCHANGED <<conn, sock>>
       \/ /\ spc = "close"
          /\ sock' = None
          /\ spc' = "join"
          /\ UNCHANGED <<conn, running>>
       \/ /\ spc = "join"
          /\ rpc = "exit"
          /\ spc' = "done"
          /\ UNCHANGED <<conn, sock, running>>
    /\ UNCHANGED <<srvvars, request, aged, tvars, runvars, torn>>
    /\ NetBecomes(link, c2s, s2c)

-----------------------------------------------------------------------------

clientvars == <<running, sock, request, aged, tvars, runvars, spc, torn>>

SendRequest(t) == LockSend(t) \/ Block(t) \/ SendUnit(t) \/ SendFails(t)

Next ==
    \/ \E t \in Calls : Register(t) \/ SendRequest(t) \/ Age(t)
    \/ Run
    \/ Stop
    \/ (ServerRun \/ ServerExits \/ ServerStarts) /\ UNCHANGED clientvars

Spec == Init /\ [][Next]_vars

\* Every thread runs, a call that has begun goes on, time passes, and a server
\* that is up goes on.  Nobody has to call, and the server need not come back.
FairSpec ==
    /\ Spec
    /\ \A t \in Calls : WF_vars(SendRequest(t)) /\ WF_vars(Age(t))
    /\ WF_vars(Run)
    /\ WF_vars(spc # "idle" /\ Stop)
    /\ WF_vars(ServerRun /\ UNCHANGED clientvars)

-----------------------------------------------------------------------------

Units == [at : {"head", "body"}, id : Calls \cup {NoCall}, size : Nat,
          call : Calls \cup {NoCall}]
Partial == [id : Calls \cup {NoCall}, size : Nat, left : Nat, data : Calls \cup {NoCall}]

\* The types of client, connection and server; the sockets hold no more than
\* their room, and a ConnectServer makes no more than Retries attempts.
TypeOK ==
    /\ conn \in Conns
    /\ link \in [Conns -> {"up", "cut", "closed"}]
    /\ c2s \in [Conns -> Seq(Units)]
    /\ s2c \in [Conns -> Seq(Units)]
    /\ \A k \in Conns : Len(c2s[k]) <= Room /\ Len(s2c[k]) <= Room
    /\ server \in {"up", "down"}
    /\ crashes \in 0 .. MaxCrashes
    /\ cli \in 0 .. conn
    /\ srv \in {"head", "body", "reply", "replybody"}
    /\ frame \in Partial
    /\ running \in BOOLEAN
    /\ sock \in 0 .. conn
    /\ request \subseteq Calls
    /\ aged \subseteq Calls
    /\ tpc \in [Calls -> {"idle", "send", "head", "rest", "body", "done"}]
    /\ sfd \in [Calls -> 0 .. conn]
    /\ rpc \in {"start", "top", "connect", "retry", "head", "body", "callback",
                "clean", "exit"}
    /\ rfd \in 0 .. conn
    /\ got \in Partial
    /\ tries \in 0 .. Retries
    /\ leaked \in 0 .. MaxFds
    /\ spc \in {"idle", "close", "join", "done"}
    /\ begunOn \in [Calls -> 0 .. conn]
    /\ torn \in BOOLEAN
    /\ called \subseteq [cbk : Calls, of : Calls \cup {NoCall}]

\* A callback is given the response to its own request, across lost
\* connections, reconnects and timeouts, until a receive has timed out inside
\* a response or a request has been sent in part on each of two connections.
OwnResponse == ~ torn => \A call \in called : call.cbk = call.of

\* Whatever becomes of the connection and of the frames on it, no callback stays
\* filed for ever: it is called, or removed after kCleanTimeoutRequest.  (The
\* calls come to an end here.  Under steady traffic no receive fails, and
\* nothing is removed.)
NothingLingers ==
    \A c \in Calls :
        c \in request ~> c \notin request \/ spc # "idle" \/ leaked = MaxFds

\* A send waits on a connection Stop has closed, and Run, which has set the flag
\* after Stop, goes on: neither reads what the server answers there.
Stranded(t) == running /\ sfd[t] \notin {None, sock}

\* A call of SendRequest returns while the receiving thread is there, whoever
\* has to wait for room, unless a send is stranded; and Stop returns once Run has
\* set the flag, because the receive it may find Run in times out.
CallsReturn ==
    /\ \A t \in Calls :
          tpc[t] # "idle"
              ~> tpc[t] = "done" \/ rpc = "exit" \/ \E u \in Calls : Stranded(u)
    /\ (spc = "join" /\ ~ running /\ rpc # "start") ~> spc = "done"
=============================================================================
