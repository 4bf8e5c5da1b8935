------------------------- MODULE EpollServer_proofs -------------------------
(***************************************************************************)
(* Theorems about EpollServer for any number of clients, requests and      *)
(* descriptors: the addresses in a batch of events stay valid, a Buffer    *)
(* and its connection belong together however descriptors are reused, and  *)
(* no request is lost or answered twice.                                   *)
(***************************************************************************)
EXTENDS EpollServer, FiniteSetTheorems, SequenceTheorems,
        WellFoundedInduction, TLAPS

\* The batch: only the loop over it sees it, a Buffer has one event in it, the
\* listening Buffer no hangup, and what is being served is a client's.
Batch ==
    /\ EventsValid
    /\ \A i, j \in DOMAIN events : events[i].buf = events[j].buf => i = j
    /\ \A i \in DOMAIN events : events[i].is = "hup" => events[i].buf # Listener
    /\ pc \notin {"events", "serve", "partial", "aborted"} => events = <<>>
    /\ pc \in {"serve", "partial", "aborted"} => events # <<>> /\ Buf # Listener

\* Descriptors: those of the living Buffers are open, the first one is the
\* listening socket's as long as there is one, and an entry of conn has the
\* descriptor of the Buffer it names.
Descriptors ==
    /\ OwnConnection
    /\ watched \subseteq alive
    /\ \A b \in alive : bfd[b] \in Fds
    /\ Listener \in alive => bfd[Listener] = ListenFd
    /\ file[ListenFd] \notin Clients
    /\ lisSock # None /\ pc \notin {"cleanup", "deleted twice", "exit"}
          => file[ListenFd] = Listener
    /\ pc = "start" => alive = {}
    /\ \A d \in Fds : conn[d] \in Clients => bfd[conn[d]] = d

\* A client that waits to be accepted, or has not come, has no Buffer yet.
Waiting ==
    /\ \A i \in DOMAIN backlog : bfd[backlog[i]] = None
    /\ \A i, j \in DOMAIN backlog : backlog[i] = backlog[j] => i = j
    /\ \A c \in Clients : peer[c] = "new" =>
          bfd[c] = None /\ \A i \in DOMAIN backlog : backlog[i] # c

\* Every request is in the socket, in the Buffer or answered, until the client
\* goes.
Accounts ==
    \A c \in Clients :
        /\ answered[c] + inbuf[c] + unread[c] <= asked[c]
        /\ peer[c] # "closed" => answered[c] + inbuf[c] + unread[c] = asked[c]

\* TypeOK in parts, as the steps change it.
LoopTypes ==
    /\ running \in BOOLEAN
    /\ lisSock \in {ListenFd, None}
    /\ pc \in {"start", "flag", "wait", "events", "serve", "partial", "aborted",
               "cleanup", "deleted twice", "exit"}
    /\ spc \in {"idle", "close", "done"}

EventTypes == events \in Seq([buf : Buffers, is : {"in", "hup"}])

TableTypes ==
    /\ file \in [Fds -> Buffers \cup {None, Taken}]
    /\ alive \subseteq Buffers
    /\ bfd \in [Buffers -> Fds \cup {None}]
    /\ watched \subseteq Buffers
    /\ conn \in [Fds -> Buffers \cup {None}]

PeerTypes ==
    /\ peer \in [Clients -> {"new", "open", "closed"}]
    /\ backlog \in Seq(Clients)

CountTypes ==
    /\ inbuf \in [Buffers -> 0 .. MaxRequests]
    /\ unread \in [Clients -> 0 .. MaxRequests]
    /\ inbox \in [Clients -> 0 .. Room]
    /\ asked \in [Clients -> 0 .. MaxRequests]
    /\ answered \in [Clients -> 0 .. MaxRequests]

Types == LoopTypes /\ EventTypes /\ TableTypes /\ PeerTypes /\ CountTypes

IInv == Types /\ Batch /\ Descriptors /\ Waiting /\ Accounts

-----------------------------------------------------------------------------

LEMMA ConstantFacts ==
    /\ Clients \subseteq Nat /\ Listener \notin Clients /\ None \notin Clients
    /\ None \notin Buffers /\ Taken \notin Buffers /\ None # Taken
    /\ ListenFd \in Fds /\ Fds \subseteq Nat /\ None \notin Fds
    /\ Clients \subseteq Buffers /\ Listener \in Buffers
  BY ClientsAssumption, FdsAssumption
     DEF Clients, Fds, Buffers, Listener, ListenFd, None, Taken

\* accept returns a descriptor that was free.
LEMMA LowestFreeIsFree ==
    ASSUME FreeFds # {}
    PROVE  LowestFree \in FreeFds
  <1>. DEFINE Less == {p \in Nat \X Nat : p[1] < p[2]}
  <1>1. FreeFds \subseteq Nat
    BY ConstantFacts DEF FreeFds
  <1>2. IsWellFoundedOn(Less, Nat)
    BY NatLessThanWellFounded DEF OpToRel
  <1>3. PICK x \in FreeFds : \A y \in FreeFds : ~ (<<y, x>> \in Less)
    <2>. HIDE DEF Less
    <2>. QED
      BY <1>1, <1>2, WFMin
  <1>4. ASSUME NEW y \in FreeFds
        PROVE  x <= y
    <2>1. x \in Nat /\ y \in Nat /\ <<y, x>> \notin Less
      BY <1>1, <1>3
    <2>2. <<y, x>> \in Nat \X Nat /\ ~ (<<y, x>>[1] < <<y, x>>[2])
      BY <2>1
    <2>. QED
      BY <2>1, <2>2
  <1>. QED
    BY <1>4 DEF LowestFree

\* A batch is a sequence: finitely many Buffers are ready.
LEMMA BatchIsSequence ==
    ASSUME TableTypes
    PROVE  Cardinality(Ready) \in Nat
  <1>1. IsFiniteSet(Buffers)
    <2>1. IsFiniteSet(Clients)
      BY ClientsAssumption, FS_Interval DEF Clients
    <2>. QED
      BY <2>1, FS_AddElement DEF Buffers
  <1>2. Ready \subseteq Buffers
    BY DEF Ready, TableTypes
  <1>. QED
    BY <1>1, <1>2, FS_Subset, FS_CardinalityType

-----------------------------------------------------------------------------
(* One step at a time *)

LEMMA TypesAreTypeOK == Types => TypeOK
  BY DEF Types, LoopTypes, EventTypes, TableTypes, PeerTypes, CountTypes, TypeOK

LEMMA InitInv == Init => IInv
  <1>. SUFFICES ASSUME Init
                PROVE  IInv
    OBVIOUS
  <1>1. PICK limit \in Fds :
           file = [d \in Fds |-> IF d = ListenFd THEN Listener
                                 ELSE IF d > limit THEN Taken ELSE None]
    BY DEF Init
  <1>2. \A d \in Fds : file[d] \in {Listener, Taken, None}
    BY <1>1
  <1>3. file \in [Fds -> {Listener, Taken, None}] /\ file[ListenFd] = Listener
    BY <1>1, ConstantFacts
  <1>4. LoopTypes
    BY DEF Init, LoopTypes
  <1>5. EventTypes /\ TableTypes /\ PeerTypes
    BY <1>3, ConstantFacts DEF Init, EventTypes, TableTypes, PeerTypes
  <1>6. CountTypes
    <2>1. 0 \in 0 .. MaxRequests /\ 0 \in 0 .. Room
      BY RequestsAssumption, RoomAssumption
    <2>. QED
      BY <2>1 DEF Init, CountTypes
  <1>7. Batch
    BY DEF Init, Batch, EventsValid
  <1>8. Descriptors
    <2>1. \A d \in Fds : file[d] \notin Clients
      BY <1>2, ConstantFacts
    <2>2. alive = {} /\ watched = {} /\ pc = "start" /\ conn = [d \in Fds |-> None]
      BY DEF Init
    <2>. QED
      BY <1>3, <2>1, <2>2, ConstantFacts DEF Descriptors, OwnConnection
  <1>9. Waiting
    BY ConstantFacts DEF Init, Waiting
  <1>10. Accounts
    BY ConstantFacts DEF Init, Accounts
  <1>. QED
    BY <1>4, <1>5, <1>6, <1>7, <1>8, <1>9, <1>10 DEF IInv, Types

\* The clients' steps leave the Buffers and the descriptors alone.
LEMMA ClientStep ==
    ASSUME IInv, NEW c \in Clients, Client(c)
    PROVE  IInv'
  <1>1. UNCHANGED <<running, lisSock, file, alive, bfd, inbuf, watched, conn,
                    events, pc, spc>>
    BY DEF Client, ClientConnects, ClientAsks, ClientReads, ClientCloses, loopvars
  <1>2. LoopTypes' /\ EventTypes' /\ TableTypes' /\ Batch'
    BY <1>1 DEF IInv, Types, LoopTypes, EventTypes, TableTypes, Batch, EventsValid,
                Buf
  <1>3. Descriptors'
    BY <1>1 DEF IInv, Descriptors, OwnConnection
  <1>4. CASE ClientConnects(c)
    <2>1. PeerTypes' /\ CountTypes'
      BY <1>1, <1>4 DEF IInv, Types, PeerTypes, CountTypes, ClientConnects
    <2>2. Waiting'
      <3>1. \A i \in DOMAIN backlog' :
               \/ i \in DOMAIN backlog /\ backlog'[i] = backlog[i]
               \/ i = Len(backlog) + 1 /\ backlog'[i] = c
        BY <1>4 DEF ClientConnects, IInv, Types, PeerTypes
      <3>. QED
        BY <1>1, <1>4, <3>1 DEF IInv, Types, PeerTypes, Waiting, ClientConnects
    <2>3. Accounts'
      BY <1>1, <1>4 DEF IInv, Types, PeerTypes, CountTypes, Accounts, ClientConnects
    <2>. QED
      BY <1>2, <1>3, <2>1, <2>2, <2>3 DEF IInv, Types
  <1>5. CASE ClientAsks(c)
    <2>1. PeerTypes' /\ Waiting'
      BY <1>1, <1>5 DEF IInv, Types, PeerTypes, Waiting, ClientAsks
    <2>2. CountTypes' /\ Accounts'
      BY <1>1, <1>5, ConstantFacts, RequestsAssumption
         DEF IInv, Types, CountTypes, Accounts, ClientAsks
    <2>. QED
      BY <1>2, <1>3, <2>1, <2>2 DEF IInv, Types
  <1>6. CASE ClientReads(c)
    <2>1. PeerTypes' /\ Waiting' /\ Accounts'
      BY <1>1, <1>6 DEF IInv, Types, PeerTypes, Waiting, Accounts, ClientReads
    <2>2. CountTypes'
      BY <1>1, <1>6, RoomAssumption DEF IInv, Types, CountTypes, ClientReads
    <2>. QED
      BY <1>2, <1>3, <2>1, <2>2 DEF IInv, Types
  <1>7. CASE ClientCloses(c)
    <2>1. PeerTypes' /\ Waiting'
      BY <1>1, <1>7 DEF IInv, Types, PeerTypes, Waiting, ClientCloses
    <2>2. CountTypes' /\ Accounts'
      BY <1>1, <1>7 DEF IInv, Types, PeerTypes, CountTypes, Accounts, ClientCloses
    <2>. QED
      BY <1>2, <1>3, <2>1, <2>2 DEF IInv, Types
  <1>. QED
    BY <1>4, <1>5, <1>6, <1>7 DEF Client

\* Steps that only move Run or Stop on.
LEMMA QuietStep ==
    ASSUME IInv,
           SetRunning \/ BatchDone \/ LeaveLoop \/ Exit \/ StopFlag \/ UNCHANGED vars
    PROVE  IInv'
  <1>. USE DEF SetRunning, BatchDone, LeaveLoop, Exit, StopFlag, vars, loopvars,
               clientvars
  <1>1. LoopTypes'
    BY DEF IInv, Types, LoopTypes
  <1>2. EventTypes' /\ TableTypes' /\ PeerTypes' /\ CountTypes'
    BY DEF IInv, Types, EventTypes, TableTypes, PeerTypes, CountTypes
  <1>3. Batch'
    BY DEF IInv, Batch, EventsValid, Buf
  <1>4. Descriptors'
    BY DEF IInv, Descriptors, OwnConnection
  <1>5. Waiting' /\ Accounts'
    BY DEF IInv, Waiting, Accounts
  <1>. QED
    BY <1>1, <1>2, <1>3, <1>4, <1>5 DEF IInv, Types

LEMMA StartStep == IInv /\ Start => IInv'
  <1>. SUFFICES ASSUME IInv, Start
                PROVE  IInv'
    OBVIOUS
  <1>1. LoopTypes' /\ EventTypes' /\ PeerTypes' /\ CountTypes'
    BY DEF IInv, Types, LoopTypes, EventTypes, PeerTypes, CountTypes, Start, clientvars
  <1>2. Batch'
    <2>1. pc = "start" /\ pc' \in {"flag", "exit"} /\ events' = events
      BY DEF Start
    <2>. QED
      BY <2>1 DEF IInv, Batch, EventsValid
  <1>3. CASE lisSock = None
    <2>1. UNCHANGED <<file, alive, bfd, watched, conn>> /\ pc' = "exit"
      BY <1>3 DEF Start
    <2>2. TableTypes' /\ Descriptors'
      BY <2>1 DEF IInv, Types, TableTypes, Descriptors, OwnConnection
    <2>3. Waiting' /\ Accounts'
      BY <2>1 DEF IInv, Waiting, Accounts, Start, clientvars
    <2>. QED
      BY <1>1, <1>2, <2>2, <2>3 DEF IInv, Types
  <1>4. CASE lisSock # None
    <2>1. /\ pc = "start" /\ pc' = "flag" /\ lisSock = ListenFd
          /\ UNCHANGED <<lisSock, file>>
          /\ alive' = {Listener} /\ watched' = {Listener}
          /\ bfd' = [bfd EXCEPT ![Listener] = ListenFd]
          /\ conn' = [conn EXCEPT ![ListenFd] = Listener]
      BY <1>4 DEF Start, IInv, Types, LoopTypes
    <2>2. TableTypes'
      BY <2>1, ConstantFacts DEF IInv, Types, TableTypes
    <2>3. \A d \in Fds : file[d] \notin Clients
      BY <2>1, ConstantFacts DEF IInv, Descriptors, OwnConnection
    <2>4. Descriptors'
      BY <2>1, <2>3, <1>4, ConstantFacts
         DEF IInv, Types, TableTypes, Descriptors, OwnConnection
    <2>5. \A c \in Clients : bfd'[c] = bfd[c]
      BY <2>1, ConstantFacts DEF IInv, Types, TableTypes
    <2>6. Waiting' /\ Accounts'
      BY <2>5 DEF IInv, Types, PeerTypes, Waiting, Accounts, Start, clientvars
    <2>. QED
      BY <1>1, <1>2, <2>2, <2>4, <2>6 DEF IInv, Types
  <1>. QED
    BY <1>3, <1>4

\* epoll_wait reports living Buffers, each once.
LEMMA EpollWaitStep == IInv /\ EpollWait => IInv'
  <1>. SUFFICES ASSUME IInv, EpollWait
                PROVE  IInv'
    OBVIOUS
  <1>1. LoopTypes' /\ TableTypes' /\ PeerTypes' /\ CountTypes'
    BY DEF IInv, Types, LoopTypes, TableTypes, PeerTypes, CountTypes, EpollWait,
           clientvars
  <1>2. Cardinality(Ready) \in Nat
    BY BatchIsSequence DEF IInv, Types
  <1>3. PICK q \in Orders(Ready) :
           events' = [i \in DOMAIN q |->
                         [buf |-> q[i], is |-> IF Hup(q[i]) THEN "hup" ELSE "in"]]
    BY DEF EpollWait
  <1>4. /\ q \in [1 .. Cardinality(Ready) -> Ready]
        /\ \A i, j \in DOMAIN q : q[i] = q[j] => i = j
    BY DEF Orders
  <1>5. Ready \subseteq alive /\ Ready \subseteq Buffers
    BY DEF IInv, Types, TableTypes, Descriptors, Ready
  <1>6. /\ DOMAIN events' = 1 .. Cardinality(Ready)
        /\ \A i \in DOMAIN events' :
              /\ events'[i] \in [buf : Buffers, is : {"in", "hup"}]
              /\ events'[i].buf = q[i] /\ q[i] \in Ready
              /\ events'[i].is = "hup" => events'[i].buf # Listener
    BY <1>3, <1>4, <1>5 DEF Hup
  <1>7. EventTypes'
    <2>. DEFINE Event == [buf : Buffers, is : {"in", "hup"}]
    <2>1. events' \in [1 .. Cardinality(Ready) -> Event]
      BY <1>3, <1>4, <1>6
    <2>2. events' \in Seq(Event)
      <3>. HIDE DEF Event
      <3>. QED
        BY <1>2, <2>1, SeqDef
    <2>. QED
      BY <2>2 DEF EventTypes
  <1>8. Batch'
    BY <1>4, <1>5, <1>6 DEF IInv, Batch, EventsValid, EpollWait
  <1>9. Descriptors'
    BY DEF IInv, Descriptors, OwnConnection, EpollWait
  <1>10. Waiting' /\ Accounts'
    BY DEF IInv, Waiting, Accounts, EpollWait, clientvars
  <1>. QED
    BY <1>1, <1>7, <1>8, <1>9, <1>10 DEF IInv, Types

\* Done with an event, the loop goes on to the next: it is still valid when no
\* Buffer has gone but the one served.
LEMMA NextEvent ==
    ASSUME IInv, events # <<>>, events' = Tail(events), pc' = "events",
           alive \ {Buf} \subseteq alive'
    PROVE  EventTypes' /\ Batch'
  <1>1. events \in Seq([buf : Buffers, is : {"in", "hup"}])
    BY DEF IInv, Types, EventTypes
  <1>2. /\ EventTypes'
        /\ \A i \in DOMAIN events' :
              i + 1 \in DOMAIN events /\ events'[i] = events[i + 1] /\ i \in Nat \ {0}
        /\ 1 \in DOMAIN events /\ Buf = events[1].buf
    BY <1>1 DEF EventTypes, Buf
  <1>3. \A i \in DOMAIN events' : events'[i].buf \in alive \ {Buf}
    BY <1>2 DEF IInv, Batch, EventsValid
  <1>. QED
    BY <1>2, <1>3 DEF IInv, Batch, EventsValid

\* Deleting a Buffer closes its own connection and no other.
LEMMA DeleteBuffer ==
    ASSUME IInv, NEW b \in alive, Delete(b)
    PROVE  /\ file' \in [Fds -> Buffers \cup {None, Taken}]
           /\ alive' \subseteq Buffers /\ watched' \subseteq alive'
           /\ alive' = alive \ {b}
           /\ \A a \in alive' \ {Listener} : file'[bfd[a]] = a /\ a \in watched'
           /\ \A d \in Fds : file'[d] \in Clients =>
                 file'[d] = file[d] /\ file'[d] \in alive' /\ d # bfd[b]
           /\ file'[ListenFd] \notin Clients
           /\ b # Listener => bfd[b] # ListenFd /\ file'[ListenFd] = file[ListenFd]
  <1>1. /\ file \in [Fds -> Buffers \cup {None, Taken}]
        /\ alive \subseteq Buffers /\ watched \subseteq alive
        /\ bfd[b] \in Fds
    BY DEF IInv, Types, TableTypes, Descriptors
  <1>2. /\ file' = [d \in Fds |-> IF d = bfd[b] THEN None ELSE file[d]]
        /\ alive' = alive \ {b} /\ watched' = watched \ {b}
    BY DEF Delete
  <1>3. b # Listener => bfd[b] # ListenFd
    BY <1>1, ConstantFacts DEF IInv, Descriptors, OwnConnection, Buffers
  <1>4. \A a \in alive' \ {Listener} : file'[bfd[a]] = a /\ a \in watched'
    <2>. TAKE a \in alive' \ {Listener}
    <2>1. a # b /\ a \in alive /\ file[bfd[a]] = a /\ a \in watched /\ bfd[a] \in Fds
      BY <1>2 DEF IInv, Descriptors, OwnConnection
    <2>2. bfd[a] # bfd[b]
      <3>1. CASE b = Listener
        <4>1. bfd[b] = ListenFd /\ a \in Clients
          BY <3>1, <2>1, <1>1 DEF IInv, Descriptors, Buffers
        <4>. QED
          BY <4>1, <2>1 DEF IInv, Descriptors
      <3>2. CASE b # Listener
        BY <3>2, <2>1 DEF IInv, Descriptors, OwnConnection
      <3>. QED
        BY <3>1, <3>2
    <2>. QED
      BY <1>2, <2>1, <2>2
  <1>5. \A d \in Fds : file'[d] \in Clients =>
           file'[d] = file[d] /\ file'[d] \in alive' /\ d # bfd[b]
    BY <1>1, <1>2, ConstantFacts DEF IInv, Descriptors, OwnConnection
  <1>. QED
    BY <1>1, <1>2, <1>3, <1>4, <1>5, ConstantFacts DEF IInv, Descriptors

LEMMA HangupStep == IInv /\ Hangup => IInv'
  <1>. SUFFICES ASSUME IInv, Hangup
                PROVE  IInv'
    OBVIOUS
  <1>1. /\ events # <<>> /\ events' = Tail(events) /\ pc = "events" /\ pc' = pc
        /\ Delete(Buf)
        /\ UNCHANGED <<running, lisSock, bfd, inbuf, conn, pc, spc, peer, unread,
                       inbox, asked, answered, backlog>>
    BY DEF Hangup, Serving, clientvars
  <1>2. Buf \in alive /\ Buf # Listener
    BY <1>1 DEF IInv, Types, EventTypes, Batch, EventsValid, Hangup, Buf
  <1>3. EventTypes' /\ Batch'
    BY <1>1, NextEvent DEF Delete
  <1>4. LoopTypes' /\ PeerTypes' /\ CountTypes' /\ Waiting' /\ Accounts'
    BY <1>1 DEF IInv, Types, LoopTypes, PeerTypes, CountTypes, Waiting, Accounts
  <1>5. TableTypes'
    BY <1>1, <1>2, DeleteBuffer DEF IInv, Types, TableTypes
  <1>6. Descriptors'
    BY <1>1, <1>2, DeleteBuffer DEF IInv, Descriptors, OwnConnection
  <1>. QED
    BY <1>3, <1>4, <1>5, <1>6 DEF IInv, Types

\* An accepted client gets a descriptor nobody has and its first Buffer.
LEMMA AcceptStep == IInv /\ Accept => IInv'
  <1>. SUFFICES ASSUME IInv, Accept
                PROVE  IInv'
    OBVIOUS
  <1>. DEFINE c == Head(backlog)
              cfd == LowestFree
  <1>1. /\ events # <<>> /\ events' = Tail(events) /\ pc = "events"
        /\ bfd[Buf] = lisSock /\ backlog # <<>> /\ backlog' = Tail(backlog)
        /\ file' = [file EXCEPT ![cfd] = c]
        /\ alive' = alive \cup {c}
        /\ bfd' = [bfd EXCEPT ![c] = cfd]
        /\ watched' = watched \cup {c}
        /\ conn' = [conn EXCEPT ![cfd] = c]
        /\ UNCHANGED <<running, lisSock, inbuf, pc, spc, peer, unread, inbox, asked,
                       answered>>
    BY DEF Accept, Serving, clientvars
  <1>2. cfd \in Fds /\ file[cfd] = None
    BY LowestFreeIsFree DEF Accept, FreeFds
  <1>3. /\ c \in Clients /\ bfd[c] = None /\ c \notin alive
        /\ \A i \in DOMAIN backlog' : backlog'[i] # c
        /\ \A i \in DOMAIN backlog' :
              i + 1 \in DOMAIN backlog /\ backlog'[i] = backlog[i + 1] /\ i \in Nat
    <2>1. /\ backlog \in Seq(Clients) /\ 1 \in DOMAIN backlog /\ c = backlog[1]
          /\ \A i \in DOMAIN backlog' :
                i + 1 \in DOMAIN backlog /\ backlog'[i] = backlog[i + 1]
                /\ i \in Nat \ {0}
      BY <1>1 DEF IInv, Types, PeerTypes
    <2>2. c \in Clients /\ bfd[c] = None
      BY <2>1 DEF IInv, Waiting
    <2>3. c \notin alive
      BY <2>2, ConstantFacts DEF IInv, Descriptors
    <2>4. \A i \in DOMAIN backlog' : backlog'[i] # c
      BY <2>1 DEF IInv, Waiting
    <2>. QED
      BY <2>1, <2>2, <2>3, <2>4
  <1>4. cfd # ListenFd
    <2>1. Buf \in alive
      BY <1>1 DEF IInv, Types, EventTypes, Batch, EventsValid, Buf
    <2>2. lisSock # None
      BY <1>1, <2>1, ConstantFacts DEF IInv, Descriptors
    <2>3. file[ListenFd] = Listener
      BY <1>1, <2>2 DEF IInv, Descriptors
    <2>. QED
      BY <1>2, <2>3, ConstantFacts
  <1>5. EventTypes' /\ Batch'
    BY <1>1, NextEvent
  <1>6. LoopTypes' /\ CountTypes' /\ Accounts'
    BY <1>1 DEF IInv, Types, LoopTypes, CountTypes, Accounts
  <1>7. PeerTypes'
    BY <1>1 DEF IInv, Types, PeerTypes
  <1>8. TableTypes'
    BY <1>1, <1>2, <1>3, ConstantFacts DEF IInv, Types, TableTypes
  <1>. HIDE DEF c, cfd
  <1>9. Waiting'
    <2>1. \A x \in Buffers : x # c => bfd'[x] = bfd[x]
      BY <1>1 DEF IInv, Types, TableTypes
    <2>2. \A x \in Clients : peer'[x] = "new" => x # c
      <3>1. \E i \in DOMAIN backlog : backlog[i] = c
        BY <1>1 DEF IInv, Types, PeerTypes, c
      <3>. QED
        BY <1>1, <3>1 DEF IInv, Waiting
    <2>3. \A i \in DOMAIN backlog' : backlog'[i] \in Clients
      BY <1>7 DEF PeerTypes
    <2>. QED
      BY <1>1, <1>3, <2>1, <2>2, <2>3, ConstantFacts DEF IInv, Waiting
  <1>10. Descriptors'
    <2>1. /\ \A d \in Fds : d # cfd => file'[d] = file[d] /\ conn'[d] = conn[d]
          /\ file'[cfd] = c /\ conn'[cfd] = c
          /\ \A x \in Buffers : x # c => bfd'[x] = bfd[x]
          /\ bfd'[c] = cfd
      BY <1>1, <1>2, <1>3, ConstantFacts DEF IInv, Types, TableTypes
    <2>2. alive \subseteq Buffers /\ c # Listener
      BY <1>3, ConstantFacts DEF IInv, Types, TableTypes
    <2>3. \A b \in alive \ {Listener} : bfd[b] # cfd
      BY <1>2, <2>2, ConstantFacts DEF IInv, Descriptors, OwnConnection
    <2>4. OwnConnection'
      <3>1. \A b \in alive' \ {Listener} : file'[bfd'[b]] = b /\ b \in watched'
        <4>. TAKE b \in alive' \ {Listener}
        <4>1. CASE b = c
          BY <4>1, <1>1, <2>1
        <4>2. CASE b # c
          BY <4>2, <1>1, <2>1, <2>2, <2>3 DEF IInv, Descriptors, OwnConnection
        <4>. QED
          BY <4>1, <4>2
      <3>2. \A d \in Fds : file'[d] \in Clients =>
               file'[d] \in alive' /\ bfd'[file'[d]] = d /\ conn'[d] = file'[d]
        <4>. TAKE d \in Fds
        <4>1. CASE d = cfd
          BY <4>1, <1>1, <2>1
        <4>2. CASE d # cfd
          BY <4>2, <1>1, <1>3, <2>1, <2>2 DEF IInv, Descriptors, OwnConnection
        <4>. QED
          BY <4>1, <4>2
      <3>. QED
        BY <3>1, <3>2 DEF OwnConnection
    <2>5. \A d \in Fds : conn'[d] \in Clients => bfd'[conn'[d]] = d
      <3>. TAKE d \in Fds
      <3>1. CASE d = cfd
        BY <3>1, <2>1
      <3>2. CASE d # cfd
        BY <3>2, <1>3, <2>1, ConstantFacts DEF IInv, Descriptors
      <3>. QED
        BY <3>1, <3>2
    <2>6. \A b \in alive' : bfd'[b] \in Fds
      BY <1>1, <1>2, <2>1, <2>2 DEF IInv, Descriptors
    <2>. QED
      BY <1>1, <1>4, <2>1, <2>2, <2>4, <2>5, <2>6, ConstantFacts DEF IInv, Descriptors
  <1>. QED
    BY <1>5, <1>6, <1>7, <1>8, <1>9, <1>10 DEF IInv, Types

LEMMA AcceptFailsOrServedStep == IInv /\ (AcceptFails \/ Served) => IInv'
  <1>. SUFFICES ASSUME IInv, AcceptFails \/ Served
                PROVE  IInv'
    OBVIOUS
  <1>1. /\ events # <<>> /\ events' = Tail(events) /\ pc \in {"events", "serve"}
        /\ pc' = "events"
        /\ UNCHANGED <<running, lisSock, file, alive, bfd, inbuf, watched, conn, spc,
                       peer, unread, inbox, asked, answered, backlog>>
    BY DEF AcceptFails, Served, Serving, clientvars, IInv, Batch
  <1>2. EventTypes' /\ Batch'
    BY <1>1, NextEvent
  <1>3. LoopTypes' /\ TableTypes' /\ PeerTypes' /\ CountTypes'
    BY <1>1 DEF IInv, Types, LoopTypes, TableTypes, PeerTypes, CountTypes
  <1>4. Descriptors'
    BY <1>1 DEF IInv, Descriptors, OwnConnection
  <1>5. Waiting' /\ Accounts'
    BY <1>1 DEF IInv, Waiting, Accounts
  <1>. QED
    BY <1>2, <1>3, <1>4, <1>5 DEF IInv, Types

\* While an event is served only the counts change.
LEMMA ServingKeeps ==
    ASSUME IInv, pc \in {"events", "serve", "partial"},
           pc' \in {"serve", "partial", "aborted"}, Buf # Listener, events # <<>>,
           UNCHANGED <<running, lisSock, file, alive, bfd, watched, conn, events, spc,
                       peer, backlog>>
    PROVE  LoopTypes' /\ EventTypes' /\ TableTypes' /\ PeerTypes' /\ Batch'
           /\ Descriptors' /\ Waiting'
  <1>1. LoopTypes' /\ EventTypes' /\ TableTypes' /\ PeerTypes'
    BY DEF IInv, Types, LoopTypes, EventTypes, TableTypes, PeerTypes
  <1>2. Batch'
    BY DEF IInv, Batch, EventsValid, Buf
  <1>3. Descriptors'
    BY DEF IInv, Descriptors, OwnConnection
  <1>4. Waiting'
    BY DEF IInv, Waiting
  <1>. QED
    BY <1>1, <1>2, <1>3, <1>4

\* The response is written to the client whose Buffer is served.
LEMMA OwnPeer ==
    ASSUME IInv, events # <<>>, Buf # Listener
    PROVE  Buf \in Clients /\ Answered = Buf
  <1>1. Buf \in alive
    BY DEF IInv, Types, EventTypes, Batch, EventsValid, Buf
  <1>. QED
    BY <1>1 DEF IInv, Types, TableTypes, Descriptors, OwnConnection, Buffers, Answered

LEMMA RecvStep == IInv /\ Recv => IInv'
  <1>. SUFFICES ASSUME IInv, Recv
                PROVE  IInv'
    OBVIOUS
  <1>1. LoopTypes' /\ EventTypes' /\ TableTypes' /\ PeerTypes' /\ Batch'
        /\ Descriptors' /\ Waiting'
    BY ServingKeeps DEF Recv, Serving
  <1>2. Buf \in Clients
    BY OwnPeer DEF Recv, Serving
  <1>3. PICK n \in 1 .. unread[Buf] :
           /\ unread' = [unread EXCEPT ![Buf] = @ - n]
           /\ inbuf' = [inbuf EXCEPT ![Buf] = @ + n]
    BY DEF Recv
  <1>. DEFINE b == Buf
  <1>4. /\ b \in Clients /\ b \in Buffers /\ n \in 1 .. unread[b]
        /\ unread' = [unread EXCEPT ![b] = @ - n]
        /\ inbuf' = [inbuf EXCEPT ![b] = @ + n]
        /\ UNCHANGED <<peer, inbox, asked, answered>>
    BY <1>2, <1>3, ConstantFacts DEF Recv
  <1>. HIDE DEF b
  <1>5. CountTypes'
    BY <1>4, RequestsAssumption DEF IInv, Types, CountTypes, Accounts
  <1>6. Accounts'
    BY <1>4, ConstantFacts DEF IInv, Types, CountTypes, Accounts
  <1>. QED
    BY <1>1, <1>5, <1>6 DEF IInv, Types

LEMMA RespondStep == IInv /\ Respond => IInv'
  <1>. SUFFICES ASSUME IInv, Respond
                PROVE  IInv'
    OBVIOUS
  <1>1. pc \in {"serve", "partial"} /\ events # <<>> /\ Buf # Listener
    BY DEF IInv, Batch, Respond, Writing
  <1>2. LoopTypes' /\ EventTypes' /\ TableTypes' /\ PeerTypes' /\ Batch'
        /\ Descriptors' /\ Waiting'
    BY <1>1, ServingKeeps DEF Respond
  <1>3. Buf \in Clients /\ Answered = Buf
    BY <1>1, OwnPeer
  <1>. DEFINE b == Buf
  <1>4. /\ b \in Clients /\ b \in Buffers
        /\ inbuf[b] > 0 /\ inbox[b] < Room
        /\ inbuf' = [inbuf EXCEPT ![b] = @ - 1]
        /\ inbox' = [inbox EXCEPT ![b] = @ + 1]
        /\ answered' = [answered EXCEPT ![b] = @ + 1]
        /\ UNCHANGED <<peer, unread, asked>>
    BY <1>3, ConstantFacts DEF Respond, Writing
  <1>. HIDE DEF b
  <1>5. CountTypes'
    BY <1>4, RequestsAssumption, RoomAssumption DEF IInv, Types, CountTypes, Accounts
  <1>6. Accounts'
    BY <1>4, ConstantFacts DEF IInv, Types, CountTypes, Accounts
  <1>. QED
    BY <1>2, <1>5, <1>6 DEF IInv, Types

\* Writing a part, and the assertion that fails then, change nothing but where
\* Run is.
LEMMA RespondPartStep == IInv /\ (RespondPart \/ RespondAborts) => IInv'
  <1>. SUFFICES ASSUME IInv, RespondPart \/ RespondAborts
                PROVE  IInv'
    OBVIOUS
  <1>1. /\ pc \in {"serve", "partial"} /\ pc' \in {"partial", "aborted"}
        /\ events # <<>> /\ Buf # Listener
        /\ UNCHANGED <<running, lisSock, file, loopvars, spc, clientvars, backlog>>
    BY DEF IInv, Batch, RespondPart, RespondAborts
  <1>2. LoopTypes' /\ EventTypes' /\ TableTypes' /\ PeerTypes' /\ Batch'
        /\ Descriptors' /\ Waiting'
    BY <1>1, ServingKeeps DEF loopvars, clientvars
  <1>3. CountTypes' /\ Accounts'
    BY <1>1 DEF IInv, Types, CountTypes, Accounts, loopvars, clientvars
  <1>. QED
    BY <1>2, <1>3 DEF IInv, Types

LEMMA RespondFailsStep == IInv /\ RespondFails => IInv'
  <1>. SUFFICES ASSUME IInv, RespondFails
                PROVE  IInv'
    OBVIOUS
  <1>1. pc = "serve" /\ events # <<>> /\ Buf # Listener
    BY DEF IInv, Batch, RespondFails
  <1>2. LoopTypes' /\ EventTypes' /\ TableTypes' /\ PeerTypes' /\ Batch'
        /\ Descriptors' /\ Waiting'
    BY <1>1, ServingKeeps DEF RespondFails, clientvars
  <1>3. Buf \in Clients /\ Answered = Buf
    BY <1>1, OwnPeer
  <1>. DEFINE b == Buf
  <1>4. /\ b \in Clients /\ b \in Buffers /\ peer[b] = "closed"
        /\ inbuf' = [inbuf EXCEPT ![b] = 0]
        /\ UNCHANGED <<peer, unread, inbox, asked, answered>>
    BY <1>3, ConstantFacts DEF RespondFails, Writing, clientvars
  <1>. HIDE DEF b
  <1>5. CountTypes'
    BY <1>4, RequestsAssumption DEF IInv, Types, CountTypes
  <1>6. Accounts'
    BY <1>4, ConstantFacts DEF IInv, Types, CountTypes, Accounts
  <1>. QED
    BY <1>2, <1>5, <1>6 DEF IInv, Types

LEMMA RefuseKeeps ==
    ASSUME IInv, UNCHANGED <<bfd, inbuf>>,
           RefuseBacklog \/ UNCHANGED <<clientvars, backlog>>
    PROVE  PeerTypes' /\ CountTypes' /\ Waiting' /\ Accounts'
  <1>1. CASE RefuseBacklog
    <2>1. /\ backlog' = <<>>
          /\ \A c \in Clients : peer'[c] \in {"closed", peer[c]}
          /\ peer' = [c \in Clients |-> peer'[c]]
          /\ UNCHANGED <<unread, inbox, asked, answered>>
      BY <1>1 DEF RefuseBacklog
    <2>2. PeerTypes'
      BY <2>1 DEF IInv, Types, PeerTypes
    <2>3. Waiting'
      BY <2>1 DEF IInv, Waiting
    <2>4. CountTypes' /\ Accounts'
      BY <2>1 DEF IInv, Types, CountTypes, Accounts
    <2>. QED
      BY <2>2, <2>3, <2>4
  <1>2. CASE UNCHANGED <<clientvars, backlog>>
    BY <1>2 DEF IInv, Types, PeerTypes, CountTypes, Waiting, Accounts, clientvars
  <1>. QED
    BY <1>1, <1>2

\* At the end: an entry's Buffer is deleted if it is still there; either way its
\* descriptor has no client afterwards.
LEMMA CleanupStep == IInv /\ Cleanup => IInv'
  <1>. SUFFICES ASSUME IInv, Cleanup
                PROVE  IInv'
    OBVIOUS
  <1>1. PICK e \in Fds :
           /\ conn[e] # None
           /\ conn' = [conn EXCEPT ![e] = None]
           /\ IF conn[e] \in alive
              THEN Delete(conn[e]) /\ UNCHANGED pc
              ELSE pc' = "deleted twice" /\ UNCHANGED <<alive, file, watched>>
    BY DEF Cleanup
  <1>2. /\ pc = "cleanup" /\ pc' \in {"cleanup", "deleted twice"}
        /\ UNCHANGED <<running, lisSock, bfd, inbuf, events, spc>>
    BY <1>1 DEF Cleanup
  <1>3. LoopTypes' /\ EventTypes' /\ Batch'
    <2>1. LoopTypes' /\ EventTypes'
      BY <1>2 DEF IInv, Types, LoopTypes, EventTypes
    <2>2. events = <<>>
      BY <1>2 DEF IInv, Batch
    <2>3. /\ events' = <<>>
          /\ pc' \notin {"events", "serve", "partial", "aborted"}
      BY <1>2, <2>2
    <2>4. DOMAIN events' = {}
      BY <2>3
    <2>. QED
      BY <2>1, <2>3, <2>4 DEF Batch, EventsValid
  <1>4. PeerTypes' /\ CountTypes' /\ Waiting' /\ Accounts'
    BY <1>2, RefuseKeeps DEF Cleanup
  <1>5. /\ conn' \in [Fds -> Buffers \cup {None}]
        /\ conn'[e] = None /\ \A d \in Fds : d # e => conn'[d] = conn[d]
    BY <1>1 DEF IInv, Types, TableTypes
  <1>6. CASE conn[e] \in alive
    <2>1. Delete(conn[e])
      BY <1>1, <1>6
    <2>2. TableTypes'
      BY <1>2, <1>5, <1>6, <2>1, DeleteBuffer DEF IInv, Types, TableTypes
    <2>3. \A d \in Fds : file'[d] \in Clients =>
             file'[d] \in alive' /\ bfd'[file'[d]] = d /\ conn'[d] = file'[d]
      <3>. SUFFICES ASSUME NEW d \in Fds, file'[d] \in Clients
                    PROVE  /\ file'[d] \in alive' /\ bfd'[file'[d]] = d
                           /\ conn'[d] = file'[d]
        OBVIOUS
      <3>1. file'[d] = file[d] /\ file'[d] \in alive' /\ d # bfd[conn[e]]
        BY <1>6, <2>1, DeleteBuffer
      <3>2. bfd[file[d]] = d /\ conn[d] = file[d]
        BY <3>1 DEF IInv, Descriptors, OwnConnection
      <3>3. d # e
        BY <3>1, <3>2
      <3>. QED
        BY <1>2, <1>5, <3>1, <3>2, <3>3
    <2>4. OwnConnection'
      BY <1>2, <1>6, <2>1, <2>3, DeleteBuffer DEF OwnConnection
    <2>5. /\ watched' \subseteq alive' /\ alive' \subseteq alive
          /\ file'[ListenFd] \notin Clients
      BY <1>6, <2>1, DeleteBuffer
    <2>6. \A d \in Fds : conn'[d] \in Clients => bfd'[conn'[d]] = d
      BY <1>2, <1>5, ConstantFacts DEF IInv, Descriptors
    <2>7. Descriptors'
      BY <1>2, <2>4, <2>5, <2>6 DEF IInv, Descriptors
    <2>. QED
      BY <1>3, <1>4, <2>2, <2>7 DEF IInv, Types
  <1>7. CASE conn[e] \notin alive
    <2>1. pc' = "deleted twice" /\ UNCHANGED <<alive, file, watched>>
      BY <1>1, <1>7
    <2>2. TableTypes'
      BY <1>2, <1>5, <2>1 DEF IInv, Types, TableTypes
    <2>3. \A d \in Fds : file'[d] \in Clients => d # e
      BY <1>7, <2>1 DEF IInv, Descriptors, OwnConnection
    <2>4. Descriptors'
      BY <1>2, <1>5, <2>1, <2>3, ConstantFacts DEF IInv, Descriptors, OwnConnection
    <2>. QED
      BY <1>3, <1>4, <2>2, <2>4 DEF IInv, Types
  <1>. QED
    BY <1>6, <1>7

LEMMA StopCloseStep == IInv /\ StopClose => IInv'
  <1>. SUFFICES ASSUME IInv, StopClose
                PROVE  IInv'
    OBVIOUS
  <1>1. /\ spc' = "done" /\ lisSock' = None /\ watched' = watched \ {Listener}
        /\ file' = [file EXCEPT ![lisSock] = None] /\ RefuseBacklog
        /\ UNCHANGED <<running, alive, bfd, inbuf, conn, events, pc>>
    BY DEF StopClose
  <1>2. LoopTypes' /\ EventTypes' /\ Batch'
    BY <1>1 DEF IInv, Types, LoopTypes, EventTypes, Batch, EventsValid, Buf
  <1>3. PeerTypes' /\ CountTypes' /\ Waiting' /\ Accounts'
    BY <1>1, RefuseKeeps
  <1>4. /\ \A d \in Fds : file'[d] = file[d] \/ (d = ListenFd /\ file'[d] = None)
        /\ file' \in [Fds -> Buffers \cup {None, Taken}]
    <2>1. lisSock \in {ListenFd, None}
      BY DEF IInv, Types, LoopTypes
    <2>2. /\ file \in [Fds -> Buffers \cup {None, Taken}]
          /\ file' = [file EXCEPT ![lisSock] = None]
      BY <1>1 DEF IInv, Types, TableTypes
    <2>3. file' \in [Fds -> Buffers \cup {None, Taken}]
      BY <2>2
    <2>4. ASSUME NEW d \in Fds
          PROVE  file'[d] = file[d] \/ (d = ListenFd /\ file'[d] = None)
      <3>1. file'[d] = IF d = lisSock THEN None ELSE file[d]
        BY <2>2
      <3>. QED
        BY <2>1, <3>1, ConstantFacts
    <2>. QED
      BY <2>3, <2>4
  <1>5. TableTypes'
    BY <1>1, <1>4 DEF IInv, Types, TableTypes
  <1>6. OwnConnection'
    <2>1. \A b \in alive \ {Listener} : b \in Clients /\ bfd[b] \in Fds \ {ListenFd}
      BY ConstantFacts DEF IInv, Types, TableTypes, Descriptors, OwnConnection, Buffers
    <2>2. \A b \in alive' \ {Listener} : file'[bfd'[b]] = b /\ b \in watched'
      BY <1>1, <1>4, <2>1 DEF IInv, Descriptors, OwnConnection
    <2>3. \A d \in Fds : file'[d] \in Clients =>
             file'[d] \in alive /\ bfd[file'[d]] = d /\ conn[d] = file'[d]
      BY <1>4, ConstantFacts DEF IInv, Descriptors, OwnConnection
    <2>. QED
      BY <1>1, <2>2, <2>3 DEF OwnConnection
  <1>7. Descriptors'
    BY <1>1, <1>4, <1>6, ConstantFacts DEF IInv, Descriptors
  <1>. QED
    BY <1>2, <1>3, <1>5, <1>7 DEF IInv, Types

-----------------------------------------------------------------------------

\* The invariant is kept by every step of clients, Run and Stop.
LEMMA NextInv == IInv /\ [Next]_vars => IInv'
  <1>. SUFFICES ASSUME IInv, [Next]_vars
                PROVE  IInv'
    OBVIOUS
  <1>1. ASSUME NEW c \in Clients, Client(c)
        PROVE  IInv'
    BY <1>1, ClientStep
  <1>2. CASE Run
    BY <1>2, QuietStep, StartStep, EpollWaitStep, HangupStep, AcceptStep,
       AcceptFailsOrServedStep, RecvStep, RespondStep, RespondPartStep,
       RespondFailsStep, CleanupStep
       DEF Run
  <1>3. CASE StopFlag \/ StopClose \/ UNCHANGED vars
    BY <1>3, QuietStep, StopCloseStep
  <1>. QED
    BY <1>1, <1>2, <1>3 DEF Next

\* The invariant holds in every reachable state.
THEOREM Invariant == Spec => []IInv
  <1>. QED
    BY InitInv, NextInv, PTL DEF Spec

\* The state of UDSockServer::Run and Stop keeps its types; in particular no
\* count of requests or responses passes its bound.
THEOREM TypeCorrect == Spec => []TypeOK
  <1>1. IInv => TypeOK
    BY TypesAreTypeOK DEF IInv
  <1>. QED
    BY <1>1, Invariant, PTL

\* The loop of Run over a batch of events never follows the pointer of an event
\* to a Buffer that was deleted, however hangups, accepts and Stop come.
THEOREM NoDeadEvent == Spec => []EventsValid
  <1>1. IInv => EventsValid
    BY DEF IInv, Batch
  <1>. QED
    BY <1>1, Invariant, PTL

\* Accept and the deletion of Buffers keep Buffers and connections together: no
\* Buffer reads from, writes to or closes the connection of another client that
\* got its descriptor, and no accepted connection is forgotten.
THEOREM BuffersOwnConnections == Spec => []OwnConnection
  <1>1. IInv => OwnConnection
    BY DEF IInv, Descriptors
  <1>. QED
    BY <1>1, Invariant, PTL

\* Run answers no request twice and loses none of a client that stays.
THEOREM NothingLost == Spec => []RequestsAccounted
  <1>1. IInv => RequestsAccounted
    BY DEF IInv, Accounts, RequestsAccounted
  <1>. QED
    BY <1>1, Invariant, PTL
=============================================================================
