----------------------------- MODULE PollClient -----------------------------
(***************************************************************************)
(* UDSockClient of poll/poll_client.cpp.  SendRequest, Stop, ConnectServer *)
(* and the loop's head are, word for word, those of the epoll client, and  *)
(* are taken from EpollClient.  What differs is how Run waits and reads:   *)
(* one pollfd with a copy of the descriptor, a receive buffer that never   *)
(* grows, reading before the hangup is looked at, and CleanRequest when    *)
(* the connection is lost.                                                 *)
(***************************************************************************)
EXTENDS EpollClient

CONSTANT BigThreads   \* the threads whose responses are larger than the buffer

ASSUME BigAssumption == BigThreads \subseteq Threads

VARIABLES
    pfd,      \* pfd.fd
    revents,  \* pfd.revents
    full      \* whether the piece of a response in the buffer fills it

pollvars == <<pfd, revents, full>>

PollInit ==
    /\ Init
    /\ pfd = None
    /\ revents = {}
    /\ full = FALSE

\* Up to the loop: sock_ is copied and running_ set.
PollStart ==
    /\ \/ rpc = "start" /\ pfd' = sock /\ rpc' = "flag" /\ UNCHANGED running
       \/ rpc = "flag" /\ running' = TRUE /\ rpc' = "top" /\ UNCHANGED pfd
    /\ UNCHANGED <<sock, request, nextId, tvars, tries, leaked, bufvars, called,
                   notices, spc, netvars, srvvars, sent, revents, full>>

\* After ConnectServer sock_ is read again: Stop may have closed it.
PollNewSock ==
    /\ rpc = "addnew"
    /\ pfd' = sock
    /\ rpc' = "wait"
    /\ UNCHANGED <<running, sock, request, nextId, tvars, tries, leaked, bufvars,
                   called, notices, spc, netvars, srvvars, sent, revents, full>>

\* What poll reports of the connection: nothing of a descriptor that is -1 or
\* closed; POLLIN and POLLHUP together when the server has closed.
Reported ==
    IF pfd # conn \/ link = "closed" THEN {}
    ELSE IF link = "cut" THEN {"in", "hup"}
    ELSE IF s2c # <<>> THEN {"in"} ELSE {}

Poll ==
    /\ rpc = "wait"
    /\ revents' = Reported
    /\ rpc' = IF revents' = {} THEN "top" ELSE "in"
    /\ UNCHANGED <<running, sock, request, nextId, tvars, tries, leaked, bufvars,
                   called, notices, spc, netvars, srvvars, sent, pfd, full>>

Big(frame) == frame.call[1] \in BigThreads

\* As much as there is and fits: the responses up to the first that is larger
\* than the buffer, whose piece fills it sooner or later.
FillBuffer ==
    \/ /\ Take
       /\ \A i \in DOMAIN inbuf' : ~ Big(inbuf'[i])
       /\ full' \in {FALSE, part' # None /\ Big(Head(s2c'))}
    \/ /\ part = conn
       /\ s2c # <<>>
       /\ Big(Head(s2c))
       /\ full' = TRUE
       /\ UNCHANGED <<bufvars, netvars>>

AfterReading == IF "hup" \in revents THEN "hup" ELSE "top"

\* POLLIN: there is no room, which ends this round of the loop; RecvData and
\* the loop over the frames; or RecvData fails, because the connection is at
\* its end or Stop has closed sock_, and the callbacks are dropped.
PollRecv ==
    /\ rpc = "in"
    /\ \/ /\ full
          /\ rpc' = "top"
          /\ UNCHANGED <<request, bufvars, netvars, full>>
       \/ /\ ~ full /\ sock # None /\ s2c # <<>>
          /\ FillBuffer
          /\ rpc' = "dispatch"
          /\ UNCHANGED request
       \/ /\ ~ full /\ (sock = None \/ s2c = <<>>)
          /\ request' = {}
          /\ rpc' = AfterReading
          /\ UNCHANGED <<bufvars, netvars, full>>
    /\ UNCHANGED <<running, sock, nextId, tvars, tries, leaked, called, notices,
                   spc, srvvars, sent, pfd, revents>>

PollDispatched ==
    /\ rpc = "dispatch"
    /\ inbuf = <<>>
    /\ rpc' = AfterReading
    /\ UNCHANGED <<running, sock, request, nextId, tvars, tries, leaked, bufvars,
                   called, notices, spc, netvars, srvvars, sent, pollvars>>

\* Faulty PollHangup: the callbacks stay filed, as in the epoll client.
PollHangupKeepsRequests ==
    /\ rpc = "hup"
    /\ rpc' = "close"
    /\ UNCHANGED <<running, sock, request, nextId, tvars, tries, leaked, bufvars,
                   called, notices, spc, netvars, srvvars, sent, pollvars>>

\* Faulty PollHangup: the user is told before the connection is closed.
PollHangupNotifies ==
    /\ rpc = "hup"
    /\ request' = {}
    /\ notices' = notices + 1
    /\ rpc' = "close"
    /\ UNCHANGED <<running, sock, nextId, tvars, tries, leaked, bufvars, called,
                   spc, netvars, srvvars, sent, pollvars>>

\* POLLHUP: CleanRequest, under lock_req_.
PollHangup ==
    /\ rpc = "hup"
    /\ request' = {}
    /\ rpc' = "close"
    /\ UNCHANGED <<running, sock, nextId, tvars, tries, leaked, bufvars, called,
                   notices, spc, netvars, srvvars, sent, pollvars>>

\* Faulty PollClose: the buffer is emptied but counted as full.
PollCloseStaysFull ==
    /\ rpc = "close"
    /\ CloseSock
    /\ inbuf' = <<>>
    /\ part' = None
    /\ rpc' = "top"
    /\ UNCHANGED <<running, request, nextId, tvars, tries, leaked, called,
                   notices, spc, srvvars, sent, pollvars>>

\* Then the buffer is emptied and the socket closed.
PollClose ==
    /\ rpc = "close"
    /\ CloseSock
    /\ inbuf' = <<>>
    /\ part' = None
    /\ full' = FALSE
    /\ rpc' = "top"
    /\ UNCHANGED <<running, request, nextId, tvars, tries, leaked, called,
                   notices, spc, srvvars, sent, pfd, revents>>

PollRun ==
    \/ PollStart \/ PollNewSock \/ Poll \/ PollRecv \/ PollDispatched
    \/ PollHangup \/ PollClose
    \/ /\ Loop \/ Disconnected \/ Connect \/ ConnectFails \/ Dispatch
       /\ UNCHANGED pollvars

PollNext ==
    \/ PollRun
    \/ /\ \/ \E t \in Threads : SendRequest(t) \/ WriteAborts(t)
          \/ StopFlag \/ StopClose \/ StopJoin
          \/ ServerAnswers \/ ServerExits \/ ServerStarts \/ Backlog
       /\ UNCHANGED pollvars

pollAll == <<vars, pollvars>>

PollSpec == PollInit /\ [][PollNext]_pollAll

\* As in EpollClient.
PollFairSpec ==
    /\ PollSpec
    /\ \A t \in Threads :
          WF_pollAll((LockSend(t) \/ Write(t) \/ WriteFails(t) \/ WriteAborts(t)
                      \/ Return(t)) /\ UNCHANGED pollvars)
    /\ WF_pollAll(PollRun)
    /\ WF_pollAll((StopClose \/ StopJoin) /\ UNCHANGED pollvars)
    /\ WF_pollAll(ServerAnswers /\ UNCHANGED pollvars)

-----------------------------------------------------------------------------

\* The types of what the poll client adds or uses otherwise; the buffer is full
\* only with a piece of a response in it.
PollTypeOK ==
    /\ rpc \in {"start", "flag", "top", "connect", "addnew", "wait", "in",
                "dispatch", "hup", "close", "exit", "aborted"}
    /\ pfd \in 0 .. conn
    /\ revents \in SUBSET {"in", "hup"}
    /\ full \in BOOLEAN
    /\ part \in 0 .. conn
    /\ full => part # None
    /\ inbuf \in Seq(Frames)
    /\ request \subseteq Frames

\* The callback of a request for which SendRequest has returned 0 is called or
\* dropped in the end, however often the connection is lost: nothing stays
\* filed, unless a response does not fit the buffer.
AnsweredOrDropped ==
    \A c \in Calls :
        (ret[c] = "ok" /\ \E entry \in request : entry.call = c)
            ~> (\A entry \in request : entry.call # c) \/ full \/ spc # "idle"
=============================================================================
