----------------------------- MODULE RpcClient ------------------------------
(***************************************************************************)
(* What the users of an UDSockClient may rely on, whatever the library     *)
(* does with threads, sockets and buffers.  Each call of SendRequest comes *)
(* with a callback of its own.  The requests the server may still answer   *)
(* form one queue: callbacks run in the order of that queue, at most once  *)
(* each, and only for requests that were sent.  The queue loses its end    *)
(* when the connection breaks, and it is empty when on_disconn_ is called: *)
(* a request sent before the notice is answered before it or never.  Once  *)
(* Stop has returned neither callback nor notice comes.                    *)
(***************************************************************************)
EXTENDS Naturals, Sequences

CONSTANT Calls   \* the calls of SendRequest

VARIABLES
    ret,       \* how each call stands: not sent, "sent", or its return value
    queue,     \* the calls that may still be answered, next one first
    answered,  \* the calls whose callback has run, oldest first
    notices,   \* how often on_disconn_ has been called
    stopped    \* whether Stop has returned

rpcVars == <<ret, queue, answered, notices, stopped>>

RpcInit ==
    /\ ret = [c \in Calls |-> "none"]
    /\ queue = <<>>
    /\ answered = <<>>
    /\ notices = 0
    /\ stopped = FALSE

\* The request reaches the connection.
Send(c) ==
    /\ ret[c] = "none"
    /\ ret' = [ret EXCEPT ![c] = "sent"]
    /\ queue' = Append(queue, c)
    /\ UNCHANGED <<answered, notices, stopped>>

\* SendRequest returns 0, before or after the callback.
Accept(c) ==
    /\ ret[c] = "sent"
    /\ ret' = [ret EXCEPT ![c] = "ok"]
    /\ UNCHANGED <<queue, answered, notices, stopped>>

\* SendRequest returns an error: the request is never answered.
Fail(c) ==
    /\ ret[c] = "none"
    /\ ret' = [ret EXCEPT ![c] = "err"]
    /\ UNCHANGED <<queue, answered, notices, stopped>>

\* The response to the oldest request: its callback runs, unless the client
\* has given the request up.
Answer ==
    /\ ~ stopped
    /\ queue # <<>>
    /\ \/ answered' = Append(answered, Head(queue))
       \/ UNCHANGED answered
    /\ queue' = Tail(queue)
    /\ UNCHANGED <<ret, notices, stopped>>

\* The connection breaks: some of the last requests will not be answered.
Lose ==
    /\ \E n \in 0 .. Len(queue) : queue' = SubSeq(queue, 1, n)
    /\ UNCHANGED <<ret, answered, notices, stopped>>

Notice ==
    /\ ~ stopped
    /\ queue = <<>>
    /\ notices' = notices + 1
    /\ UNCHANGED <<ret, queue, answered, stopped>>

Stopped ==
    /\ stopped' = TRUE
    /\ UNCHANGED <<ret, queue, answered, notices>>

RpcNext ==
    \/ \E c \in Calls : Send(c) \/ Accept(c) \/ Fail(c)
    \/ Answer \/ Lose \/ Notice \/ Stopped

RpcSpec == RpcInit /\ [][RpcNext]_rpcVars
=============================================================================
