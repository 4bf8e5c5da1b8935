---------------------------- MODULE SingleServer ----------------------------
(***************************************************************************)
(* UDSockServer of single/domain_server.cpp, and the connections its       *)
(* client makes.  The server is one thread: it accepts a connection, reads *)
(* its requests with blocking receives, answers each, and accepts the next *)
(* connection when this one has gone.                                      *)
(*                                                                         *)
(* The streams carry units: the header of a frame, or a piece of a body.   *)
(* A header read where no header is shows anything (Header).  A request's  *)
(* body is one unit; its content is the call it belongs to, which is what  *)
(* the servers of the repository send back.  Connections are numbered, and *)
(* "closed" before they are made and after the client has let them go.     *)
(***************************************************************************)
EXTENDS Integers, Sequences

CONSTANTS
    Calls,       \* the calls of SendRequest; a call is its own id
    NoCall,      \* the id of no call, the content of no body
    Room,        \* the units a socket holds
    MisreadSizes,\* the data_size a misread header can show, in units
    MaxCrashes,  \* bound: how often the server exits
    MaxConns     \* bound: the connections the client makes

ASSUME NoCallAssumption == NoCall \notin Calls
ASSUME RoomAssumption == Room \in Nat \ {0}
ASSUME SizesAssumption == MisreadSizes \subseteq Nat
ASSUME CrashAssumption == MaxCrashes \in Nat
ASSUME ConnsAssumption == MaxConns \in Nat \ {0}

Conns == 1 .. MaxConns

None == 0

VARIABLES
    conn,      \* the number of the last connection made
    link,      \* the state of each: "up", "cut" by the server, or "closed"
    c2s, s2c,  \* the units on their way on each
    server,    \* "up" or "down"
    crashes,   \* how often the server has exited
    cli,       \* cli_sock_: the connection accepted, or None
    srv,       \* where Run is
    frame      \* the header Run has read, and what the body begins with

netvars == <<conn, link, c2s, s2c>>
srvvars == <<server, crashes, cli, srv, frame>>

HeadUnit(id, size) == [at |-> "head", id |-> id, size |-> size, call |-> NoCall]
BodyUnit(call) == [at |-> "body", id |-> NoCall, size |-> 0, call |-> call]

NoFrame == [id |-> NoCall, size |-> 0, left |-> 0, data |-> NoCall]

\* A header read, its body still to come.
Begins(id, size) == [id |-> id, size |-> size, left |-> size, data |-> NoCall]

\* The headers a unit may be taken for.
Header(unit) ==
    IF unit.at = "head"
    THEN {Begins(unit.id, unit.size)}
    ELSE {Begins(id, n) : id \in Calls \cup {NoCall}, n \in MisreadSizes}

\* The next piece of the body.
Extend(f, unit) ==
    [f EXCEPT !.left = @ - 1,
              !.data = IF f.left = f.size THEN unit.call ELSE @]

ServerInit ==
    /\ conn = 1
    /\ link = [k \in Conns |-> IF k = 1 THEN "up" ELSE "closed"]
    /\ c2s = [k \in Conns |-> <<>>]
    /\ s2c = [k \in Conns |-> <<>>]
    /\ server = "up"
    /\ crashes = 0
    /\ cli = None
    /\ srv = "head"
    /\ frame = NoFrame

\* The oldest connection in the backlog.
ServerAccepts ==
    /\ server = "up"
    /\ cli = None
    /\ \E k \in Conns :
          /\ link[k] = "up"
          /\ \A j \in Conns : link[j] = "up" => k <= j
          /\ cli' = k
    /\ UNCHANGED <<netvars, server, crashes, srv, frame>>

\* Whether the connection accepted is still there.
Together == cli # None /\ link[cli] = "up"

\* The next unit of the connection accepted is read.
TakesRequest ==
    /\ c2s[cli] # <<>>
    /\ c2s' = [c2s EXCEPT ![cli] = Tail(@)]

\* A request without a body is not answered.
ServerReadsHead ==
    /\ srv = "head"
    /\ Together
    /\ TakesRequest
    /\ \E f \in Header(Head(c2s[cli])) :
          \/ f.size = 0 /\ UNCHANGED <<srv, frame>>
          \/ f.size > 0 /\ frame' = f /\ srv' = "body"
    /\ UNCHANGED <<conn, link, s2c, server, crashes, cli>>

\* RecvBytes waits for the rest of the body however long it takes.
ServerReadsBody ==
    /\ srv = "body"
    /\ Together
    /\ TakesRequest
    /\ frame' = Extend(frame, Head(c2s[cli]))
    /\ srv' = IF frame'.left = 0 THEN "reply" ELSE "body"
    /\ UNCHANGED <<conn, link, s2c, server, crashes, cli>>

\* on_response_ and SendBytes: the header with the request's id, then the body.
ServerReplies ==
    /\ Together
    /\ Len(s2c[cli]) < Room
    /\ \/ /\ srv = "reply"
          /\ s2c' = [s2c EXCEPT ![cli] = Append(@, HeadUnit(frame.id, frame.size))]
          /\ frame' = [frame EXCEPT !.left = frame.size]
          /\ srv' = "replybody"
       \/ /\ srv = "replybody"
          /\ s2c' = [s2c EXCEPT ![cli] = Append(@, BodyUnit(frame.data))]
          /\ IF frame.left = 1
             THEN srv' = "head" /\ frame' = NoFrame
             ELSE srv' = srv /\ frame' = [frame EXCEPT !.left = @ - 1]
    /\ UNCHANGED <<conn, link, c2s, server, crashes, cli>>

\* RecvBytes or SendBytes fails: the client has closed.
ServerLosesClient ==
    /\ cli # None
    /\ ~ Together
    /\ cli' = None
    /\ srv' = "head"
    /\ frame' = NoFrame
    /\ UNCHANGED <<netvars, server, crashes>>

ServerRun ==
    \/ ServerAccepts \/ ServerReadsHead \/ ServerReadsBody \/ ServerReplies
    \/ ServerLosesClient

\* The process ends: what it has written can still be read.
ServerExits ==
    /\ server = "up"
    /\ crashes < MaxCrashes
    /\ server' = "down"
    /\ crashes' = crashes + 1
    /\ link' = [k \in Conns |-> IF link[k] = "up" THEN "cut" ELSE link[k]]
    /\ c2s' = [k \in Conns |-> <<>>]
    /\ cli' = None
    /\ srv' = "head"
    /\ frame' = NoFrame
    /\ UNCHANGED <<conn, s2c>>

ServerStarts ==
    /\ server = "down"
    /\ server' = "up"
    /\ UNCHANGED <<netvars, crashes, cli, srv, frame>>
=============================================================================
