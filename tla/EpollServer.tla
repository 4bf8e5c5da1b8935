----------------------------- MODULE EpollServer ----------------------------
(***************************************************************************)
(* UDSockServer of epoll/poll_server.cpp: the thread that executes Run,    *)
(* with its batch of epoll events, the Buffers the events point to, the    *)
(* map conn and the descriptors of the process, and the thread that calls  *)
(* Stop.  Buffers live on the heap: an event or an entry of conn is an     *)
(* address, valid as long as its Buffer has not been deleted.              *)
(*                                                                         *)
(* The clients that connect are numbered; the Buffer made for a client has *)
(* its number.  Requests and responses are whole frames (EpollFraming) and *)
(* are counted.  A client's socket takes Room responses it has not read;   *)
(* the server's next write to it waits, perhaps with a part of the         *)
(* response already written.  Once an assertion has ended the process      *)
(* (pc = "aborted") nothing happens any more.                              *)
(***************************************************************************)
EXTENDS Integers, Sequences, FiniteSets

CONSTANTS
    MaxClients,   \* bound: the clients that connect
    MaxRequests,  \* bound: the requests of each of them
    MaxFds,       \* bound: the descriptors of the process, 1 .. MaxFds
    Room          \* responses a client's socket holds

ASSUME ClientsAssumption == MaxClients \in Nat
ASSUME RequestsAssumption == MaxRequests \in Nat
ASSUME FdsAssumption == MaxFds \in Nat \ {0}
ASSUME RoomAssumption == Room \in Nat \ {0}

Clients == 1 .. MaxClients
Fds == 1 .. MaxFds

\* The listening socket, its descriptor, and the number of its Buffer.
Listener == 0
ListenFd == 1
Buffers == Clients \cup {Listener}

None == -1

\* A descriptor the process uses for something else.
Taken == -2

VARIABLES
    running,   \* running_
    lisSock,   \* lis_sock_
    file,      \* what each descriptor is open on: a client, Listener, Taken or None
    alive,     \* the Buffers not yet deleted
    bfd,       \* the descriptor in each Buffer
    inbuf,     \* the requests in each Buffer
    watched,   \* the Buffers the epoll instance holds, for sockets still open
    conn,      \* the map conn, None where a descriptor has no entry
    events,    \* the events of the batch not yet served
    pc,        \* where the thread in Run is
    spc,       \* where the thread in Stop is
    peer,      \* each client: "new", "open" or "closed"
    backlog,   \* the clients waiting to be accepted
    unread,    \* the requests in each client's connection
    inbox,     \* the responses in each client's connection
    asked,     \* the requests each client has sent
    answered   \* history: the responses written to each client

loopvars == <<alive, bfd, inbuf, watched, conn, events>>
clientvars == <<peer, unread, inbox, asked, answered>>
vars == <<running, lisSock, file, loopvars, pc, spc, clientvars, backlog>>

Init ==
    /\ running = FALSE
    /\ lisSock = ListenFd
    /\ \E limit \in Fds \ {ListenFd} :
          file = [d \in Fds |-> IF d = ListenFd THEN Listener
                                ELSE IF d > limit THEN Taken ELSE None]
    /\ alive = {}
    /\ bfd = [b \in Buffers |-> None]
    /\ inbuf = [b \in Buffers |-> 0]
    /\ watched = {}
    /\ conn = [d \in Fds |-> None]
    /\ events = <<>>
    /\ pc = "start"
    /\ spc = "idle"
    /\ peer = [c \in Clients |-> "new"]
    /\ backlog = <<>>
    /\ unread = [c \in Clients |-> 0]
    /\ inbox = [c \in Clients |-> 0]
    /\ asked = [c \in Clients |-> 0]
    /\ answered = [c \in Clients |-> 0]

-----------------------------------------------------------------------------
(* The clients *)

\* connect: the client may write at once and be accepted later.
ClientConnects(c) ==
    /\ peer[c] = "new"
    /\ pc # "aborted"
    /\ file[ListenFd] = Listener
    /\ \A b \in 1 .. c - 1 : peer[b] # "new"
    /\ peer' = [peer EXCEPT ![c] = "open"]
    /\ backlog' = Append(backlog, c)
    /\ UNCHANGED <<running, lisSock, file, loopvars, pc, spc, unread, inbox,
                   asked, answered>>

ClientAsks(c) ==
    /\ peer[c] = "open"
    /\ pc # "aborted"
    /\ asked[c] < MaxRequests
    /\ asked' = [asked EXCEPT ![c] = @ + 1]
    /\ unread' = [unread EXCEPT ![c] = @ + 1]
    /\ UNCHANGED <<running, lisSock, file, loopvars, pc, spc, peer, backlog,
                   inbox, answered>>

ClientReads(c) ==
    /\ peer[c] = "open"
    /\ inbox[c] > 0
    /\ inbox' = [inbox EXCEPT ![c] = @ - 1]
    /\ UNCHANGED <<running, lisSock, file, loopvars, pc, spc, peer, backlog,
                   unread, asked, answered>>

ClientCloses(c) ==
    /\ peer[c] = "open"
    /\ peer' = [peer EXCEPT ![c] = "closed"]
    /\ UNCHANGED <<running, lisSock, file, loopvars, pc, spc, backlog, unread,
                   inbox, asked, answered>>

-----------------------------------------------------------------------------
(* Run *)

\* The Buffer of the listening socket is made, watched and entered in conn.
\* If Stop has closed the socket, adding it fails and Run returns.
Start ==
    /\ pc = "start"
    /\ IF lisSock = None
       THEN /\ pc' = "exit"
            /\ UNCHANGED <<alive, bfd, watched, conn>>
       ELSE /\ alive' = {Listener}
            /\ bfd' = [bfd EXCEPT ![Listener] = lisSock]
            /\ watched' = {Listener}
            /\ conn' = [conn EXCEPT ![lisSock] = Listener]
            /\ pc' = "flag"
    /\ UNCHANGED <<running, lisSock, file, inbuf, events, spc, clientvars, backlog>>

SetRunning ==
    /\ pc = "flag"
    /\ running' = TRUE
    /\ pc' = "wait"
    /\ UNCHANGED <<lisSock, file, loopvars, spc, clientvars, backlog>>

Hup(b) == b # Listener /\ peer[b] = "closed"

In(b) == IF b = Listener THEN backlog # <<>> ELSE unread[b] > 0

Ready == {b \in watched : Hup(b) \/ In(b)}

\* The orders in which epoll_wait may report a set of Buffers.
Orders(S) == {q \in [1 .. Cardinality(S) -> S] : \A i, j \in DOMAIN q : q[i] = q[j] => i = j}

\* The loop's condition, and epoll_wait: everything that is ready, each with
\* what was true of it then.
EpollWait ==
    /\ pc = "wait"
    /\ running
    /\ \E q \in Orders(Ready) :
          events' = [i \in DOMAIN q |->
                        [buf |-> q[i], is |-> IF Hup(q[i]) THEN "hup" ELSE "in"]]
    /\ pc' = IF events' = <<>> THEN "wait" ELSE "events"
    /\ UNCHANGED <<running, lisSock, file, alive, bfd, inbuf, watched, conn, spc,
                   clientvars, backlog>>

\* The Buffer of the event being served.
Buf == Head(events).buf

Serving == pc = "events" /\ events # <<>>

\* delete calls Buffer::Clean, which closes the Buffer's descriptor and with it
\* the socket, which leaves the epoll instance.
Delete(b) ==
    /\ alive' = alive \ {b}
    /\ file' = [d \in Fds |-> IF d = bfd[b] THEN None ELSE file[d]]
    /\ watched' = watched \ {b}

\* Faulty Hangup: the Buffer goes, its descriptor stays open.
HangupKeepsFd ==
    /\ Serving
    /\ Head(events).is = "hup"
    /\ alive' = alive \ {Buf}
    /\ watched' = watched \ {Buf}
    /\ events' = Tail(events)
    /\ UNCHANGED <<running, lisSock, file, bfd, inbuf, conn, pc, spc, clientvars,
                   backlog>>

\* EPOLLHUP: the Buffer is deleted, with the connection.  conn keeps its entry.
Hangup ==
    /\ Serving
    /\ Head(events).is = "hup"
    /\ Delete(Buf)
    /\ events' = Tail(events)
    /\ UNCHANGED <<running, lisSock, bfd, inbuf, conn, pc, spc, clientvars, backlog>>

FreeFds == {d \in Fds : file[d] = None}

LowestFree == CHOOSE d \in FreeFds : \A e \in FreeFds : d <= e

\* Accept: the oldest client waiting gets the lowest free descriptor, a Buffer
\* and an entry in conn, over the one a former connection has left there.
Accept ==
    /\ Serving
    /\ Head(events).is = "in"
    /\ bfd[Buf] = lisSock
    /\ FreeFds # {}
    /\ backlog # <<>>
    /\ LET c == Head(backlog)
           cfd == LowestFree
       IN  /\ file' = [file EXCEPT ![cfd] = c]
           /\ alive' = alive \cup {c}
           /\ bfd' = [bfd EXCEPT ![c] = cfd]
           /\ watched' = watched \cup {c}
           /\ conn' = [conn EXCEPT ![cfd] = c]
    /\ backlog' = Tail(backlog)
    /\ events' = Tail(events)
    /\ UNCHANGED <<running, lisSock, inbuf, pc, spc, clientvars>>

\* accept fails: no descriptor is left, or Stop has closed the socket.  (If
\* Stop did so before the descriptors are compared, it is recv that fails.)
AcceptFails ==
    /\ Serving
    /\ Head(events).is = "in"
    /\ Buf = Listener
    /\ FreeFds = {} \/ lisSock = None
    /\ events' = Tail(events)
    /\ UNCHANGED <<running, lisSock, file, alive, bfd, inbuf, watched, conn, pc,
                   spc, clientvars, backlog>>

\* Faulty Recv: the requests read stay in the socket.
RecvPeeks ==
    /\ Serving
    /\ Head(events).is = "in"
    /\ Buf # Listener
    /\ \E n \in 1 .. unread[Buf] : inbuf' = [inbuf EXCEPT ![Buf] = @ + n]
    /\ pc' = "serve"
    /\ UNCHANGED <<running, lisSock, file, alive, bfd, watched, conn, events,
                   spc, clientvars, backlog>>

\* RecvData, once for the event: some of the requests.
Recv ==
    /\ Serving
    /\ Head(events).is = "in"
    /\ Buf # Listener
    /\ \E n \in 1 .. unread[Buf] :
          /\ unread' = [unread EXCEPT ![Buf] = @ - n]
          /\ inbuf' = [inbuf EXCEPT ![Buf] = @ + n]
    /\ pc' = "serve"
    /\ UNCHANGED <<running, lisSock, file, alive, bfd, watched, conn, events,
                   spc, peer, backlog, inbox, asked, answered>>

\* The client whose connection the Buffer's descriptor is open on.
Answered == file[bfd[Buf]]

\* WriteVec, in serving a request: nothing of the response written, or a part.
Writing == pc \in {"serve", "partial"} /\ inbuf[Buf] > 0

\* Faulty Respond: the request answered is not dug out of the Buffer.
RespondWithoutDig ==
    /\ Writing
    /\ peer[Answered] = "open"
    /\ inbox[Answered] < Room
    /\ inbox' = [inbox EXCEPT ![Answered] = @ + 1]
    /\ answered' = [answered EXCEPT ![Answered] = @ + 1]
    /\ pc' = "serve"
    /\ UNCHANGED <<running, lisSock, file, loopvars, spc, peer, backlog, unread,
                   asked>>

\* Faulty Respond: the Buffer is emptied after the first answer.
RespondOnce ==
    /\ Writing
    /\ peer[Answered] = "open"
    /\ inbox[Answered] < Room
    /\ inbox' = [inbox EXCEPT ![Answered] = @ + 1]
    /\ answered' = [answered EXCEPT ![Answered] = @ + 1]
    /\ inbuf' = [inbuf EXCEPT ![Buf] = 0]
    /\ pc' = "serve"
    /\ UNCHANGED <<running, lisSock, file, alive, bfd, watched, conn, events, spc,
                   peer, backlog, unread, asked>>

\* on_request_ and the response, written to the Buffer's descriptor as soon as
\* there is room.
Respond ==
    /\ Writing
    /\ peer[Answered] = "open"
    /\ inbox[Answered] < Room
    /\ inbox' = [inbox EXCEPT ![Answered] = @ + 1]
    /\ answered' = [answered EXCEPT ![Answered] = @ + 1]
    /\ inbuf' = [inbuf EXCEPT ![Buf] = @ - 1]
    /\ pc' = "serve"
    /\ UNCHANGED <<running, lisSock, file, alive, bfd, watched, conn, events, spc,
                   peer, backlog, unread, asked>>

\* A response too large for what room is left: writev has written a part, and
\* waits with the rest until the client has read.
RespondPart ==
    /\ pc = "serve"
    /\ Writing
    /\ peer[Answered] = "open"
    /\ pc' = "partial"
    /\ UNCHANGED <<running, lisSock, file, loopvars, spc, clientvars, backlog>>

\* The client closes while writev waits so: writev returns the length of the
\* part, and the assertion of WriteVec ends the process.
RespondAborts ==
    /\ pc = "partial"
    /\ peer[Answered] = "closed"
    /\ pc' = "aborted"
    /\ UNCHANGED <<running, lisSock, file, loopvars, spc, clientvars, backlog>>

\* Faulty RespondFails: the Buffer is deleted on the spot.
RespondFailsDeletes ==
    /\ pc = "serve"
    /\ Writing
    /\ peer[Answered] = "closed"
    /\ Delete(Buf)
    /\ inbuf' = [inbuf EXCEPT ![Buf] = 0]
    /\ UNCHANGED <<running, lisSock, bfd, conn, events, pc, spc, clientvars,
                   backlog>>

\* The client has closed and nothing was written: the write fails, and the
\* Buffer is emptied.
RespondFails ==
    /\ pc = "serve"
    /\ Writing
    /\ peer[Answered] = "closed"
    /\ inbuf' = [inbuf EXCEPT ![Buf] = 0]
    /\ UNCHANGED <<running, lisSock, file, alive, bfd, watched, conn, events, pc,
                   spc, clientvars, backlog>>

\* The Buffer has been served.
Served ==
    /\ pc = "serve"
    /\ inbuf[Buf] = 0
    /\ events' = Tail(events)
    /\ pc' = "events"
    /\ UNCHANGED <<running, lisSock, file, alive, bfd, inbuf, watched, conn, spc,
                   clientvars, backlog>>

BatchDone ==
    /\ pc = "events"
    /\ events = <<>>
    /\ pc' = "wait"
    /\ UNCHANGED <<running, lisSock, file, loopvars, spc, clientvars, backlog>>

\* Closing the listening socket closes the connections not yet accepted.
RefuseBacklog ==
    /\ peer' = [c \in Clients |->
                   IF \E i \in DOMAIN backlog : backlog[i] = c
                   THEN "closed" ELSE peer[c]]
    /\ backlog' = <<>>
    /\ UNCHANGED <<unread, inbox, asked, answered>>

\* Faulty LeaveLoop: epoll_wait has no timeout.
LeaveLoopOnEvent ==
    /\ pc = "wait"
    /\ ~ running
    /\ Ready # {}
    /\ pc' = "cleanup"
    /\ UNCHANGED <<running, lisSock, file, loopvars, spc, clientvars, backlog>>

\* After the loop: every Buffer in conn is deleted, in the order of the map.
LeaveLoop ==
    /\ pc = "wait"
    /\ ~ running
    /\ pc' = "cleanup"
    /\ UNCHANGED <<running, lisSock, file, loopvars, spc, clientvars, backlog>>

Cleanup ==
    /\ pc = "cleanup"
    /\ \E d \in Fds :
          /\ conn[d] # None
          /\ conn' = [conn EXCEPT ![d] = None]
          /\ IF conn[d] \in alive
             THEN Delete(conn[d]) /\ UNCHANGED pc
             ELSE pc' = "deleted twice" /\ UNCHANGED <<alive, file, watched>>
          /\ IF conn[d] = Listener
             THEN RefuseBacklog
             ELSE UNCHANGED <<clientvars, backlog>>
    /\ UNCHANGED <<running, lisSock, bfd, inbuf, events, spc>>

Exit ==
    /\ pc = "cleanup"
    /\ \A d \in Fds : conn[d] = None
    /\ pc' = "exit"
    /\ UNCHANGED <<running, lisSock, file, loopvars, spc, clientvars, backlog>>

Run == \/ Start \/ SetRunning \/ EpollWait \/ Hangup \/ Accept \/ AcceptFails
       \/ Recv \/ Respond \/ RespondPart \/ RespondAborts \/ RespondFails
       \/ Served \/ BatchDone \/ LeaveLoop \/ Cleanup \/ Exit

-----------------------------------------------------------------------------
(* Stop *)

StopFlag ==
    /\ spc = "idle"
    /\ pc # "aborted"
    /\ running' = FALSE
    /\ spc' = "close"
    /\ UNCHANGED <<lisSock, file, loopvars, pc, clientvars, backlog>>

\* CLOSE_FD(lis_sock_): the clients in the backlog lose their connection.
StopClose ==
    /\ spc = "close"
    /\ pc # "aborted"
    /\ file' = [file EXCEPT ![lisSock] = None]
    /\ lisSock' = None
    /\ watched' = watched \ {Listener}
    /\ RefuseBacklog
    /\ spc' = "done"
    /\ UNCHANGED <<running, alive, bfd, inbuf, conn, events, pc>>

-----------------------------------------------------------------------------

Client(c) ==
    ClientConnects(c) \/ ClientAsks(c) \/ ClientReads(c) \/ ClientCloses(c)

Next ==
    \/ \E c \in Clients : Client(c)
    \/ Run
    \/ StopFlag \/ StopClose

Spec == Init /\ [][Next]_vars

\* The thread in Run goes on, Stop goes on once called, and a client reads its
\* responses, as UDSockClient does in a thread of its own.
FairSpec ==
    /\ Spec
    /\ WF_vars(Run)
    /\ WF_vars(StopClose)
    /\ \A c \in Clients : WF_vars(ClientReads(c))

-----------------------------------------------------------------------------

\* The types; a Buffer never holds more requests than its client has sent, and
\* a client's socket no more responses than it has room for.
TypeOK ==
    /\ running \in BOOLEAN
    /\ lisSock \in {ListenFd, None}
    /\ file \in [Fds -> Buffers \cup {None, Taken}]
    /\ alive \subseteq Buffers
    /\ bfd \in [Buffers -> Fds \cup {None}]
    /\ inbuf \in [Buffers -> 0 .. MaxRequests]
    /\ watched \subseteq Buffers
    /\ conn \in [Fds -> Buffers \cup {None}]
    /\ events \in Seq([buf : Buffers, is : {"in", "hup"}])
    /\ pc \in {"start", "flag", "wait", "events", "serve", "partial", "aborted",
               "cleanup", "deleted twice", "exit"}
    /\ spc \in {"idle", "close", "done"}
    /\ peer \in [Clients -> {"new", "open", "closed"}]
    /\ backlog \in Seq(Clients)
    /\ unread \in [Clients -> 0 .. MaxRequests]
    /\ inbox \in [Clients -> 0 .. Room]
    /\ asked \in [Clients -> 0 .. MaxRequests]
    /\ answered \in [Clients -> 0 .. MaxRequests]

\* No event of the batch points to a Buffer an earlier event has deleted.
EventsValid == \A i \in DOMAIN events : events[i].buf \in alive

\* A Buffer's descriptor is its own client's connection as long as the Buffer
\* lives, and every accepted connection has its Buffer, watched and in conn.
OwnConnection ==
    /\ \A b \in alive \ {Listener} : file[bfd[b]] = b /\ b \in watched
    /\ \A d \in Fds : file[d] \in Clients =>
          /\ file[d] \in alive
          /\ bfd[file[d]] = d
          /\ conn[d] = file[d]

\* No client is answered more often than it has asked, and nothing it has sent
\* is lost while it stays.
RequestsAccounted ==
    \A c \in Clients :
        /\ answered[c] + inbuf[c] + unread[c] <= asked[c]
        /\ peer[c] = "open" => answered[c] + inbuf[c] + unread[c] = asked[c]

\* A client that stays gets its answers, however the others behave, unless the
\* server is stopped, has no descriptor left to accept it, or has been ended by
\* a client that closed in the middle of a response (WritesWhole).
EventuallyAnswered ==
    \A c \in Clients : \A n \in 1 .. MaxRequests :
        asked[c] = n
            ~> \/ answered[c] >= n \/ peer[c] = "closed" \/ spc # "idle"
               \/ FreeFds = {} /\ \E i \in DOMAIN backlog : backlog[i] = c
               \/ pc = "aborted"

\* The connection of a client that has gone is closed, if not with the process.
HangupCloses ==
    \A c \in Clients :
        peer[c] = "closed"
            ~> (\A d \in Fds : file[d] # c) \/ spc # "idle" \/ pc = "aborted"

\* Run returns once Stop has been called, if it was in its loop by then, or
\* the process has ended.
RunReturns ==
    (~ running /\ pc \notin {"start", "flag"})
        ~> pc \in {"exit", "deleted twice", "aborted"}

\* The loop after the loop deletes what is in conn and takes every entry for a
\* Buffer that is still there.
DeletedOnce == pc # "deleted twice"

\* The assertion of WriteVec: what writev was given it has written.
WritesWhole == pc # "aborted"
=============================================================================
