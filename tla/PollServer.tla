----------------------------- MODULE PollServer -----------------------------
(***************************************************************************)
(* UDSockServer of poll/poll_server.cpp: the thread that executes Run over *)
(* its table of pollfds and Buffers, and the thread that calls Stop.       *)
(*                                                                         *)
(* A connection is the client at its other end.  Its byte stream is what   *)
(* it is in EpollFraming: the offsets at which the client's frames begin.  *)
(* Buffers have a fixed size and hold their bytes from the front when no   *)
(* event is being served, so that one is a number of bytes.  A client that *)
(* has closed its end is reported as POLLIN and POLLHUP.                   *)
(*                                                                         *)
(* The accepted sockets are non-blocking.  A response is written whole or  *)
(* not at all: the kernel takes 32 KB at once, and a server that echoes    *)
(* answers with no more than its buffer.  While there is no room WriteVec  *)
(* calls writev again and again.                                           *)
(***************************************************************************)
EXTENDS Integers, Sequences, FiniteSets, FiniteSetsExt

CONSTANTS
    Clients,     \* the clients that may connect
    FileLimits,  \* the values of kMaxFiles
    kHeadSize,   \* sizeof(RpcRequestHdr)
    BufferSize,  \* buffer_size_
    BodySizes,   \* the request sizes clients use
    MaxFrames,   \* bound: the frames of all clients together
    Room,        \* responses a client's socket holds
    None, Unset  \* no client; a revents poll has not written

ASSUME HeadAssumption == kHeadSize \in Nat \ {0}
ASSUME BufferAssumption == BufferSize \in Nat \ {0}
ASSUME BodyAssumption == BodySizes \subseteq Nat
ASSUME LimitsAssumption == FileLimits \subseteq Nat \ {0}
ASSUME RoomAssumption == Room \in Nat \ {0}
ASSUME FramesAssumption == MaxFrames \in Nat
ASSUME NoneAssumption == None \notin Clients /\ Unset \notin Clients /\ None # Unset

VARIABLES
    kMaxFiles, \* the length of the table
    running,   \* running_
    lisSock,   \* whether lis_sock_ is open
    slot,      \* fds[i].fd for i > 0: the client connected there, or None
    have,      \* e - s of buffs[i]
    revents,   \* fds[i].revents: of whom, and what
    nready,    \* the events of the round still to serve
    maxi,      \* the highest slot ever used
    at,        \* the slot the loop over the table is at
    pc,        \* where the thread in Run is
    spc,       \* where the thread in Stop is
    peer,      \* how each client stands
    backlog,   \* the clients waiting to be accepted
    bounds,    \* offsets in each client's stream of its frames, and of the end
    rcvd,      \* the bytes of the stream handed over by recv
    inbox,     \* the responses each client has not read yet
    handled    \* the bytes passed to on_request_, per client: from where, how many

loopvars == <<slot, have, revents, nready, maxi, at>>
clientvars == <<peer, bounds, inbox>>
vars == <<kMaxFiles, running, lisSock, loopvars, pc, spc, clientvars, backlog,
          rcvd, handled>>

Slots == 1 .. kMaxFiles - 1

NotPolled == [of |-> Unset, is |-> {}]

Init ==
    /\ kMaxFiles \in FileLimits
    /\ running = FALSE
    /\ lisSock = TRUE
    /\ slot = [i \in Slots |-> None]
    /\ have = [i \in Slots |-> 0]
    /\ revents = [i \in Slots |-> NotPolled]
    /\ nready = 0
    /\ maxi = 0
    /\ at = 1
    /\ pc = "start"
    /\ spc = "idle"
    /\ peer = [c \in Clients |-> "new"]
    /\ backlog = <<>>
    /\ bounds = [c \in Clients |-> <<0>>]
    /\ rcvd = [c \in Clients |-> 0]
    /\ inbox = [c \in Clients |-> 0]
    /\ handled = [c \in Clients |-> <<>>]

-----------------------------------------------------------------------------
(* The clients *)

Written(c) == bounds[c][Len(bounds[c])]

\* The frames c has written.
Frames(c) == 1 .. Len(bounds[c]) - 1

BodySize(c, k) == bounds[c][k + 1] - bounds[c][k] - kHeadSize

\* The data_size a header read at offset p of c's stream can show.
HeaderAt(c, p) ==
    IF \E k \in Frames(c) : bounds[c][k] = p
    THEN {BodySize(c, k) : k \in {j \in Frames(c) : bounds[c][j] = p}}
    ELSE BodySizes

ClientConnects(c) ==
    /\ peer[c] = "new"
    /\ lisSock
    /\ peer' = [peer EXCEPT ![c] = "open"]
    /\ backlog' = Append(backlog, c)
    /\ UNCHANGED <<kMaxFiles, running, lisSock, loopvars, pc, spc, bounds, rcvd,
                   inbox, handled>>

ClientWrites(c) ==
    /\ peer[c] = "open"
    /\ MapThenSumSet(LAMBDA d : Len(bounds[d]) - 1, Clients) < MaxFrames
    /\ \E body \in BodySizes :
          bounds' = [bounds EXCEPT ![c] = Append(@, Written(c) + kHeadSize + body)]
    /\ UNCHANGED <<kMaxFiles, running, lisSock, loopvars, pc, spc, peer, backlog,
                   rcvd, inbox, handled>>

ClientReads(c) ==
    /\ inbox[c] > 0
    /\ inbox' = [inbox EXCEPT ![c] = 0]
    /\ UNCHANGED <<kMaxFiles, running, lisSock, loopvars, pc, spc, peer, backlog,
                   bounds, rcvd, handled>>

ClientCloses(c) ==
    /\ peer[c] = "open"
    /\ peer' = [peer EXCEPT ![c] = "closed"]
    /\ inbox' = [inbox EXCEPT ![c] = 0]
    /\ UNCHANGED <<kMaxFiles, running, lisSock, loopvars, pc, spc, backlog,
                   bounds, rcvd, handled>>

\* The thread Init has started and main's call of Run (poll/loop_ser.cpp) both
\* poll the listening socket: the other one has a table of its own, and may be
\* first to accept.
OtherRunAccepts ==
    /\ backlog # <<>>
    /\ lisSock
    /\ peer[Head(backlog)] = "open"
    /\ peer' = [peer EXCEPT ![Head(backlog)] = "elsewhere"]
    /\ backlog' = Tail(backlog)
    /\ UNCHANGED <<kMaxFiles, running, lisSock, loopvars, pc, spc, bounds, rcvd,
                   inbox, handled>>

-----------------------------------------------------------------------------
(* Run *)

Start ==
    /\ \/ pc = "start" /\ pc' = "flag" /\ UNCHANGED running
       \/ pc = "flag" /\ pc' = "poll" /\ running' = TRUE
    /\ UNCHANGED <<kMaxFiles, lisSock, loopvars, spc, clientvars, backlog, rcvd,
                   handled>>

\* What poll reports of the connection in a slot.
Ready(c) ==
    IF c = None THEN {}
    ELSE (IF rcvd[c] < Written(c) \/ peer[c] = "closed" THEN {"in"} ELSE {})
         \cup (IF peer[c] = "closed" THEN {"hup"} ELSE {})

\* poll writes the revents of the slots up to maxi and returns how many are
\* not 0, the listening socket's included: it is readable with a client in the
\* backlog, and POLLNVAL once Stop has closed it, which nobody counts down.  A
\* poll that reports nothing changes nothing that is read.
Poll ==
    /\ pc = "poll"
    /\ running
    /\ LET listener == ~ lisSock \/ backlog # <<>>
           busy == {i \in Slots : i <= maxi /\ Ready(slot[i]) # {}}
       IN  /\ listener \/ busy # {}
           /\ nready' = Cardinality(busy) + (IF listener THEN 1 ELSE 0)
    /\ revents' = [i \in Slots |-> IF i <= maxi
                                   THEN [of |-> slot[i], is |-> Ready(slot[i])]
                                   ELSE revents[i]]
    /\ at' = 1
    /\ pc' = IF lisSock /\ backlog # <<>> THEN "accept" ELSE "table"
    /\ UNCHANGED <<kMaxFiles, running, lisSock, slot, have, maxi, spc, clientvars,
                   backlog, rcvd, handled>>

FreeSlots == {i \in Slots : slot[i] = None}

First(S) == CHOOSE i \in S : \A j \in S : i <= j

\* Accept: the first free slot gets the client and a new buffer.
Seat(i, c) ==
    /\ slot' = [slot EXCEPT ![i] = c]
    /\ have' = [have EXCEPT ![i] = 0]
    /\ maxi' = IF i > maxi THEN i ELSE maxi

\* Faulty Accept: the accepted connection is not counted.
AcceptUncounted ==
    /\ pc = "accept"
    /\ lisSock
    /\ backlog # <<>>
    /\ backlog' = Tail(backlog)
    /\ \/ /\ FreeSlots # {}
          /\ Seat(First(FreeSlots), Head(backlog))
          /\ UNCHANGED peer
       \/ /\ FreeSlots = {}
          /\ peer' = [peer EXCEPT ![Head(backlog)] = "refused"]
          /\ UNCHANGED <<slot, have, maxi>>
    /\ pc' = "table"
    /\ UNCHANGED <<kMaxFiles, running, lisSock, revents, nready, at, spc, bounds,
                   rcvd, inbox, handled>>

\* Faulty Accept: the search for a slot goes one too far.
AcceptBeyondTable ==
    /\ pc = "accept"
    /\ nready' = nready - 1
    /\ lisSock
    /\ backlog # <<>>
    /\ backlog' = Tail(backlog)
    /\ Seat(First(FreeSlots \cup {kMaxFiles}), Head(backlog))
    /\ pc' = "table"
    /\ UNCHANGED <<kMaxFiles, running, lisSock, revents, at, spc, clientvars,
                   rcvd, handled>>

\* The listening socket is readable: accept one client, or close it at once if
\* the table is full.  accept fails if the other Run was first, Stop has closed
\* the socket, or the process has no descriptor left: then the client waits on.
Accept ==
    /\ pc = "accept"
    /\ nready' = nready - 1
    /\ \/ /\ lisSock /\ backlog # <<>> /\ FreeSlots # {}
          /\ Seat(First(FreeSlots), Head(backlog))
          /\ backlog' = Tail(backlog)
          /\ UNCHANGED peer
       \/ /\ lisSock /\ backlog # <<>> /\ FreeSlots = {}
          /\ peer' = [peer EXCEPT ![Head(backlog)] = "refused"]
          /\ backlog' = Tail(backlog)
          /\ UNCHANGED <<slot, have, maxi>>
       \/ UNCHANGED <<slot, have, maxi, peer, backlog>>
    /\ pc' = "table"
    /\ UNCHANGED <<kMaxFiles, running, lisSock, revents, at, spc, bounds, rcvd,
                   inbox, handled>>

\* The loop over the table looks at slot `at` next.
Looking == pc = "table" /\ at <= maxi /\ nready > 0

Client == slot[at]

\* Nobody there, or nothing reported.
Skip ==
    /\ Looking
    /\ Client = None \/ revents[at].is = {}
    /\ at' = at + 1
    /\ UNCHANGED <<kMaxFiles, running, lisSock, slot, have, revents, nready, maxi,
                   pc, spc, clientvars, backlog, rcvd, handled>>

\* The buffer is full: a second's sleep, and on to the next slot, whatever else
\* was reported of this one.
BufferFull ==
    /\ Looking
    /\ Client # None
    /\ "in" \in revents[at].is
    /\ have[at] = BufferSize
    /\ nready' = nready - 1
    /\ at' = at + 1
    /\ UNCHANGED <<kMaxFiles, running, lisSock, slot, have, revents, maxi, pc,
                   spc, clientvars, backlog, rcvd, handled>>

\* RecvData: some of the bytes that are there, as many as fit, or -1 when the
\* client has closed and all is read.
Recv ==
    /\ Looking
    /\ Client # None
    /\ "in" \in revents[at].is
    /\ have[at] < BufferSize
    /\ nready' = nready - 1
    /\ \/ /\ rcvd[Client] = Written(Client)
          /\ pc' = "hup"
          /\ UNCHANGED <<have, rcvd>>
       \/ /\ \E n \in 1 .. BufferSize - have[at] :
                /\ n <= Written(Client) - rcvd[Client]
                /\ have' = [have EXCEPT ![at] = @ + n]
                /\ rcvd' = [rcvd EXCEPT ![Client] = @ + n]
          /\ pc' = "parse"
    /\ UNCHANGED <<kMaxFiles, running, lisSock, slot, revents, maxi, at, spc,
                   clientvars, backlog, handled>>

\* Where in the client's stream s points.
Pos == rcvd[Client] - have[at]

\* Faulty Handle: one request is answered for each event.
HandleOne ==
    /\ pc = "parse"
    /\ have[at] > kHeadSize
    /\ \E size \in HeaderAt(Client, Pos) :
          /\ size + kHeadSize <= have[at]
          /\ handled' = [handled EXCEPT ![Client] = Append(@, [at |-> Pos, size |-> size])]
          /\ \/ /\ peer[Client] = "closed"
                /\ have' = [have EXCEPT ![at] = 0]
                /\ UNCHANGED inbox
             \/ /\ peer[Client] # "closed"
                /\ inbox[Client] < Room
                /\ inbox' = [inbox EXCEPT ![Client] = @ + 1]
                /\ have' = [have EXCEPT ![at] = @ - (size + kHeadSize)]
    /\ pc' = "hup"
    /\ UNCHANGED <<kMaxFiles, running, lisSock, slot, revents, nready, maxi, at,
                   spc, peer, bounds, backlog, rcvd>>

\* A whole frame: data_size bytes from s on go to on_request_, and the response
\* is written.  If the client has closed the write fails, what is in the buffer
\* is dropped, and the loop ends.
Handle ==
    /\ pc = "parse"
    /\ have[at] > kHeadSize
    /\ \E size \in HeaderAt(Client, Pos) :
          /\ size + kHeadSize <= have[at]
          /\ handled' = [handled EXCEPT ![Client] = Append(@, [at |-> Pos, size |-> size])]
          /\ \/ /\ peer[Client] = "closed"
                /\ have' = [have EXCEPT ![at] = 0]
                /\ pc' = "hup"
                /\ UNCHANGED inbox
             \/ /\ peer[Client] # "closed"
                /\ inbox[Client] < Room
                /\ inbox' = [inbox EXCEPT ![Client] = @ + 1]
                /\ have' = [have EXCEPT ![at] = @ - (size + kHeadSize)]
                /\ UNCHANGED pc
    /\ UNCHANGED <<kMaxFiles, running, lisSock, slot, revents, nready, maxi, at,
                   spc, peer, bounds, backlog, rcvd>>

\* The rest is less than a frame.
OutOfBytes ==
    \/ have[at] <= kHeadSize
    \/ \E size \in HeaderAt(Client, Pos) : size + kHeadSize > have[at]

\* Faulty Save: the rest is not kept.
SaveNothing ==
    /\ pc = "parse"
    /\ OutOfBytes
    /\ have' = [have EXCEPT ![at] = 0]
    /\ pc' = "hup"
    /\ UNCHANGED <<kMaxFiles, running, lisSock, slot, revents, nready, maxi, at,
                   spc, clientvars, backlog, rcvd, handled>>

\* The rest is copied to the front of the buffer.  (The memcpy may
\* overlap; glibc's on x86-64 is memmove, and copies such areas as well.)
Save ==
    /\ pc = "parse"
    /\ OutOfBytes
    /\ pc' = "hup"
    /\ UNCHANGED <<kMaxFiles, running, lisSock, loopvars, spc, clientvars,
                   backlog, rcvd, handled>>

\* Faulty Hangup: the hangup is looked at only where there is nothing to read.
HangupOrRead ==
    /\ pc = "hup"
    /\ at' = at + 1
    /\ pc' = "table"
    /\ UNCHANGED <<kMaxFiles, running, lisSock, slot, have, revents, nready, maxi,
                   spc, clientvars, backlog, rcvd, handled>>

\* After the reading, the hangup: counted once more, the slot is freed.
Hangup ==
    /\ pc = "hup"
    /\ \/ /\ "hup" \in revents[at].is
          /\ nready' = nready - 1
          /\ slot' = [slot EXCEPT ![at] = None]
          /\ have' = [have EXCEPT ![at] = 0]
       \/ /\ "hup" \notin revents[at].is
          /\ UNCHANGED <<slot, have, nready>>
    /\ at' = at + 1
    /\ pc' = "table"
    /\ UNCHANGED <<kMaxFiles, running, lisSock, revents, maxi, spc, clientvars,
                   backlog, rcvd, handled>>

\* The round ends at the end of the table or of the count, and the loop goes on
\* if the flag says so.  (revents is forgotten: poll writes it again.)
RoundDone ==
    /\ pc = "table"
    /\ ~ Looking
    /\ revents' = [i \in Slots |-> NotPolled]
    /\ nready' = 0
    /\ at' = 1
    /\ pc' = "poll"
    /\ UNCHANGED <<kMaxFiles, running, lisSock, slot, have, maxi, spc, clientvars,
                   backlog, rcvd, handled>>

\* After the loop everything is closed.
Exit ==
    /\ pc = "poll"
    /\ ~ running
    /\ slot' = [i \in Slots |-> None]
    /\ have' = [i \in Slots |-> 0]
    /\ lisSock' = FALSE
    /\ pc' = "exit"
    /\ UNCHANGED <<kMaxFiles, running, revents, nready, maxi, at, spc, clientvars,
                   backlog, rcvd, handled>>

Run == \/ Start \/ Poll \/ Accept \/ Skip \/ BufferFull \/ Recv \/ Handle \/ Save
       \/ Hangup \/ RoundDone \/ Exit

-----------------------------------------------------------------------------
(* Stop *)

StopFlag ==
    /\ spc = "idle"
    /\ running' = FALSE
    /\ spc' = "close"
    /\ UNCHANGED <<kMaxFiles, lisSock, loopvars, pc, clientvars, backlog, rcvd,
                   handled>>

StopClose ==
    /\ spc = "close"
    /\ lisSock' = FALSE
    /\ spc' = "join"
    /\ UNCHANGED <<kMaxFiles, running, loopvars, pc, clientvars, backlog, rcvd,
                   handled>>

StopJoin ==
    /\ spc = "join"
    /\ pc = "exit"
    /\ spc' = "done"
    /\ UNCHANGED <<kMaxFiles, running, lisSock, loopvars, pc, clientvars, backlog,
                   rcvd, handled>>

-----------------------------------------------------------------------------

Next ==
    \/ \E c \in Clients : \/ ClientConnects(c) \/ ClientWrites(c)
                          \/ ClientReads(c) \/ ClientCloses(c)
    \/ OtherRunAccepts
    \/ Run
    \/ StopFlag \/ StopClose \/ StopJoin

Spec == Init /\ [][Next]_vars

\* The thread in Run goes on, descriptors are wanting only for a time, and a client
\* reads its responses, as UDSockClient does in a thread of its own.
FairSpec ==
    /\ Spec
    /\ WF_vars(Run)
    /\ SF_vars(Accept /\ backlog' # backlog)
    /\ \A c \in Clients : WF_vars(ClientReads(c))

-----------------------------------------------------------------------------

\* The types; a buffer never holds more than its size, and maxi stays inside
\* the table.
TypeOK ==
    /\ kMaxFiles \in FileLimits
    /\ running \in BOOLEAN
    /\ lisSock \in BOOLEAN
    /\ slot \in [Slots -> Clients \cup {None}]
    /\ have \in [Slots -> 0 .. BufferSize]
    /\ revents \in [Slots -> [of : Clients \cup {None, Unset},
                              is : SUBSET {"in", "hup"}]]
    /\ nready \in Int
    /\ maxi \in 0 .. kMaxFiles - 1
    /\ at \in 1 .. kMaxFiles
    /\ pc \in {"start", "flag", "poll", "accept", "table", "parse", "hup", "exit"}
    /\ spc \in {"idle", "close", "join", "done"}
    /\ peer \in [Clients -> {"new", "open", "closed", "refused", "elsewhere"}]
    /\ backlog \in Seq(Clients)
    /\ bounds \in [Clients -> Seq(Nat)]
    /\ rcvd \in [Clients -> Nat]
    /\ inbox \in [Clients -> 0 .. Room]
    /\ handled \in [Clients -> Seq([at : Nat, size : Nat])]

\* The loop never looks at a revents that this round's poll has not written: the
\* slot of a client accepted in this round lies behind maxi as poll saw it, and
\* its revents is uninitialised memory.  Nor does it take an event for the
\* client in a slot that was reported of another.  What keeps it from the new
\* slot is the count alone: it is used up before.
EventsCurrent ==
    Looking /\ Client # None =>
        /\ revents[at].of # Unset
        /\ revents[at].is # {} => revents[at].of = Client

\* As long as a client stays, on_request_ sees its frames, each once and in
\* order, with the size the client gave them, from their first byte on.  (After
\* a failed write it may see anything: the next bytes are read as a header
\* wherever they come from.)
HandledAsSent ==
    \A c \in Clients : peer[c] = "open" =>
        /\ Len(handled[c]) <= Len(bounds[c]) - 1
        /\ \A k \in DOMAIN handled[c] :
              handled[c][k] = [at |-> bounds[c][k], size |-> BodySize(c, k)]

Fits(c, k) == kHeadSize + BodySize(c, k) <= BufferSize

\* A client that stays gets its requests handled, however the others come and
\* go, unless one of its requests is larger than the buffer.  (A request without
\* a body is handled when the byte after it has come.)
EventuallyHandled ==
    \A c \in Clients : \A k \in 1 .. MaxFrames :
        (/\ k \in Frames(c)
         /\ Written(c) > bounds[c][k] + kHeadSize
         /\ \A j \in 1 .. k : Fits(c, j))
            ~> Len(handled[c]) >= k \/ peer[c] # "open" \/ spc # "idle"

\* The slot of a client that has gone becomes free, unless the client left a
\* full buffer behind.
HangupFrees ==
    \A c \in Clients :
        peer[c] = "closed"
            ~> \/ \A i \in Slots : slot[i] # c
               \/ \E i \in Slots : slot[i] = c /\ have[i] = BufferSize
               \/ spc # "idle"

\* poll/test_req.cpp takes the response for the number it has sent: the server
\* of poll/loop_ser.cpp, which returns what it is given, is given the body.
BodyPassed ==
    \A c \in Clients : \A k \in DOMAIN handled[c] :
        peer[c] = "open" => handled[c][k].at = bounds[c][k] + kHeadSize
=============================================================================
