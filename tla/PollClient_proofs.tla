-------------------------- MODULE PollClient_proofs --------------------------
(***************************************************************************)
(* Theorems about PollClient for any number of threads, calls, exits of    *)
(* the server, connect attempts and descriptors, and whatever responses do *)
(* not fit the buffer.  The invariant is ClientInv, that of the client of  *)
(* epoll/, and EpollClient_proofs has the steps the two have in common.    *)
(***************************************************************************)
EXTENDS PollClient, EpollClient_proofs

\* What the poll client adds: where Run stands, and what poll and the buffer
\* have to say.
PollTypes ==
    /\ rpc \in {"start", "flag", "top", "connect", "addnew", "wait", "in",
                "dispatch", "hup", "close", "exit", "aborted"}
    /\ pfd \in 0 .. conn
    /\ revents \in SUBSET {"in", "hup"}
    /\ full \in BOOLEAN
    /\ full => part # None

PollIInv == PollTypes /\ ClientInv

LEMMA PollInvTypeOK == PollIInv => PollTypeOK
  BY DEF PollIInv, PollTypes, PollTypeOK, ClientInv, Types, TableTypes, NetTypes

LEMMA PollInvProperties ==
    PollIInv => OwnResponse /\ FailedNeverCalled /\ CalledInSendOrder
  BY InvProperties DEF PollIInv

-----------------------------------------------------------------------------
(* The steps of Run that are its own *)

\* Steps that move Run on, and may drop the callbacks.
LEMMA PollMoveOnStep ==
    ASSUME ClientInv,
           \/ PollStart \/ PollNewSock \/ Poll \/ PollDispatched \/ PollHangup
           \/ PollRecv /\ UNCHANGED <<bufvars, netvars>>
    PROVE  ClientInv' /\ Pipe' = Pipe
  <1>. USE DEF PollStart, PollNewSock, Poll, PollDispatched, PollHangup, PollRecv
  <1>1. /\ UNCHANGED <<nextId, tvars, called, sent, conn, sock, link, inbuf, part,
                       c2s, s2c, crashes, server, tries, leaked, notices, spc>>
        /\ request' \subseteq request
    BY DEF bufvars, netvars, srvvars
  <1>2. /\ rpc' \notin {"connect", "aborted"} /\ rpc \notin {"connect", "exit", "aborted"}
        /\ rpc = "dispatch" => inbuf = <<>>
    BY DEF AfterReading
  <1>3. \/ UNCHANGED running
        \/ running' = TRUE
    OBVIOUS
  <1>4. RunTypes' /\ Control' /\ (~ StopUndone' => ~ StopUndone /\ Unmixed')
    <2>1. RunTypes'
      BY <1>1, <1>3 DEF ClientInv, Types, RunTypes
    <2>2. Control'
      BY <1>1, <1>2 DEF ClientInv, Control
    <2>3. ~ StopUndone' => ~ StopUndone /\ Unmixed'
      BY <1>1, <1>2, <1>3 DEF ClientInv, Types, RunTypes, StopUndone, Unmixed
    <2>. QED
      BY <2>1, <2>2, <2>3
  <1>5. server' \in {"up", "busy", "down"} /\ Pipe' = Pipe
    BY <1>1 DEF ClientInv, Types, NetTypes, Pipe
  <1>. QED
    BY <1>1, <1>4, <1>5, StillInv

\* The buffer is filled: with what is there, or with the piece of a response
\* that is larger.
LEMMA PollRecvStep ==
    ASSUME ClientInv, PollRecv
    PROVE  ClientInv' /\ (~ StopUndone => Pipe' = Pipe)
  <1>1. CASE UNCHANGED <<bufvars, netvars>>
    BY <1>1, PollMoveOnStep
  <1>2. CASE Take /\ rpc' = "dispatch" /\ sock # None /\ UNCHANGED request
    <2>1. inbuf = <<>> /\ spc # "done"
      BY DEF ClientInv, Control, PollRecv
    <2>. QED
      BY <1>2, <2>1, TakeInv DEF PollRecv
  <1>. QED
    BY <1>1, <1>2 DEF PollRecv, FillBuffer

LEMMA PollCloseStep ==
    ASSUME ClientInv, PollClose
    PROVE  ClientInv' /\ Cut
  <1>. USE DEF PollClose, srvvars
  <1>1. inbuf' = inbuf
    BY DEF ClientInv, Control
  <1>2. /\ Cut
        /\ sock' = None /\ link' = "closed" /\ conn' = conn
        /\ s2c' = <<>> /\ c2s' = <<>>
    BY <1>1, Closing DEF ClientInv
  <1>3. RunTypes' /\ NetTypes'
    BY <1>1, <1>2 DEF ClientInv, Types, RunTypes, NetTypes, None
  <1>4. Control'
    BY <1>1, <1>2 DEF ClientInv, Control
  <1>5. ~ StopUndone' => ~ StopUndone /\ Unmixed'
    BY DEF StopUndone, Unmixed
  <1>. QED
    BY <1>2, <1>3, <1>4, <1>5, QuietInv DEF tvars

-----------------------------------------------------------------------------
(* The specification *)

LEMMA PollIInvInit ==
    ASSUME PollInit
    PROVE  PollIInv
  <1>1. ClientInv
    BY ClientInvInit DEF PollInit
  <1>2. pfd \in 0 .. conn /\ revents = {} /\ full = FALSE /\ rpc = "start"
    BY DEF PollInit, Init, None
  <1>. QED
    BY <1>1, <1>2 DEF PollIInv, PollTypes

LEMMA PollTypesStep ==
    ASSUME PollIInv, PollNext
    PROVE  PollTypes'
  <1>1. PollTypes /\ conn \in Nat \ {0} /\ sock \in {None, conn}
    BY DEF PollIInv, ClientInv, Types, NetTypes
  <1>2. CASE /\ \/ \E t \in Threads : SendRequest(t)
                \/ StopFlag \/ StopClose \/ StopJoin
                \/ ServerAnswers \/ ServerExits \/ ServerStarts \/ Backlog
             /\ UNCHANGED pollvars
    <2>1. UNCHANGED <<rpc, conn, part>>
      BY <1>2, SendKeeps DEF StopFlag, StopClose, StopJoin, ServerAnswers, ServerExits,
                             ServerStarts, Backlog, runvars, bufvars, netvars, CloseSock
    <2>. QED
      BY <1>1, <1>2, <2>1 DEF PollTypes, pollvars
  <1>3. CASE /\ Loop \/ Disconnected \/ Connect \/ ConnectFails \/ Dispatch
             /\ UNCHANGED pollvars
    <2>1. /\ part' = part /\ conn' \in {conn, conn + 1}
          /\ rpc' \in {"exit", "wait", "connect", "addnew", "top", "dispatch"}
      BY <1>3, <1>1 DEF Loop, Disconnected, Connect, ConnectFails, Dispatch, bufvars, netvars,
                        PollTypes
    <2>. QED
      BY <1>1, <1>3, <2>1 DEF PollTypes, pollvars
  <1>4. CASE PollStart \/ PollNewSock
    <2>1. /\ UNCHANGED <<revents, full, part, conn>> /\ pfd' \in {pfd, sock}
          /\ rpc' \in {"flag", "top", "wait"}
      BY <1>4 DEF PollStart, PollNewSock, bufvars, netvars
    <2>2. pfd' \in 0 .. conn
      BY <1>1, <2>1 DEF PollTypes, None
    <2>. QED
      BY <1>1, <2>1, <2>2 DEF PollTypes
  <1>5. CASE Poll \/ PollDispatched \/ PollHangup
    <2>1. revents' \in SUBSET {"in", "hup"} /\ UNCHANGED <<pfd, full, part, conn>>
      BY <1>1, <1>5 DEF PollTypes, Poll, PollDispatched, PollHangup, Reported, bufvars,
                        netvars, pollvars
    <2>2. rpc' \in {"top", "in", "hup", "close"}
      BY <1>5 DEF Poll, PollDispatched, PollHangup, AfterReading
    <2>. QED
      BY <1>1, <2>1, <2>2 DEF PollTypes
  <1>6. CASE PollClose
    BY <1>1, <1>6 DEF PollTypes, PollClose, CloseSock
  <1>7. CASE PollRecv
    <2>1. UNCHANGED <<pfd, revents, conn>> /\ rpc' \in {"top", "dispatch", "hup"}
      BY <1>7 DEF PollRecv, FillBuffer, Take, netvars, AfterReading
    <2>2. full' \in BOOLEAN /\ (full' => part' # None)
      <3>1. CASE UNCHANGED <<part, full>>
        BY <3>1, <1>1 DEF PollTypes
      <3>2. CASE full' \in {FALSE, part' # None /\ Big(Head(s2c'))}
        BY <3>2, Zenon DEF Big
      <3>3. CASE part = conn /\ full' = TRUE /\ part' = part
        BY <3>3, <1>1 DEF None
      <3>. QED
        BY <1>7, <3>1, <3>2, <3>3 DEF PollRecv, FillBuffer, bufvars
    <2>. QED
      BY <1>1, <2>1, <2>2 DEF PollTypes
  <1>8. CASE (\E t \in Threads : WriteAborts(t)) /\ UNCHANGED pollvars
    <2>1. UNCHANGED <<conn, part>> /\ rpc' = "aborted"
      BY <1>8 DEF WriteAborts, bufvars
    <2>. QED
      BY <1>1, <1>8, <2>1 DEF PollTypes, pollvars
  <1>. QED
    BY <1>2, <1>3, <1>4, <1>5, <1>6, <1>7, <1>8 DEF PollNext, PollRun

LEMMA PollIInvStep ==
    ASSUME PollIInv, [PollNext]_pollAll
    PROVE  PollIInv'
  <1>. USE DEF PollIInv
  <1>1. CASE PollNext
    <2>1. PollTypes'
      BY <1>1, PollTypesStep
    <2>2. ClientInv'
      BY <1>1, SendRequestStep, MoveOnStep, ConnectStep, ConnectFailsStep, DispatchStep,
         StopCloseStep, ServerAnswersStep, ServerExitsStep, WriteAbortsStep,
         PollMoveOnStep, PollRecvStep, PollCloseStep
         DEF PollNext, PollRun
    <2>. QED
      BY <2>1, <2>2
  <1>2. CASE UNCHANGED pollAll
    <2>1. ClientInv'
      BY <1>2, MoveOnStep DEF pollAll
    <2>2. PollTypes'
      BY <1>2 DEF PollTypes, pollAll, pollvars, vars, runvars, bufvars, netvars
    <2>. QED
      BY <2>1, <2>2
  <1>. QED
    BY <1>1, <1>2

\* The inductive invariant holds in every reachable state.
THEOREM PollClientInvariant == PollSpec => []PollIInv
  BY PollIInvInit, PollIInvStep, PTL DEF PollSpec

\* The poll client's state keeps its types; its buffer is full only with a piece
\* of a response in it.
THEOREM PollTypeCorrect == PollSpec => []PollTypeOK
  BY PollClientInvariant, PollInvTypeOK, PTL

\* As for the client of epoll/: own response, none after a failure, in the order
\* of sending.
THEOREM PollResponses ==
    PollSpec => [](OwnResponse /\ FailedNeverCalled /\ CalledInSendOrder)
  BY PollClientInvariant, PollInvProperties, PTL

-----------------------------------------------------------------------------
(* RpcClient *)

\* What the steps of Run are in RpcClient: those it shares with the client of
\* epoll/ are what they are there, PollClose is Lose, the others are nothing.
LEMMA PollRpcRun ==
    ASSUME ClientInv, ClientInv', PollRun, ~ StopUndone
    PROVE  Abstract!RpcNext \/ UNCHANGED Abstract!rpcVars
  <1>1. Types /\ Types'
    BY DEF ClientInv
  <1>2. CASE Loop \/ Disconnected \/ Connect \/ ConnectFails \/ Dispatch
    BY <1>2, RpcRun DEF Run
  <1>3. CASE PollClose
    <2>1. UNCHANGED <<ret, called, notices, spc>>
      BY <1>3 DEF PollClose, tvars
    <2>. QED
      BY <1>1, <1>3, <2>1, PollCloseStep, RpcLose
  <1>4. CASE \/ PollStart \/ PollNewSock \/ Poll \/ PollDispatched \/ PollHangup
             \/ PollRecv
    <2>1. UNCHANGED <<ret, called, notices, spc>>
      BY <1>4 DEF PollStart, PollNewSock, Poll, PollDispatched, PollHangup, PollRecv, tvars
    <2>2. Pipe' = Pipe
      BY <1>4, PollMoveOnStep, PollRecvStep
    <2>. QED
      BY <1>1, <2>1, <2>2, RpcStutter
  <1>. QED
    BY <1>2, <1>3, <1>4 DEF PollRun

LEMMA PollRpcStep ==
    ASSUME PollIInv, PollIInv', [PollNext]_pollAll
    PROVE  [Abstract!RpcNext \/ StopUndone]_(Abstract!rpcVars)
  <1>1. ClientInv /\ ClientInv'
    BY DEF PollIInv
  <1>2. CASE UNCHANGED pollAll
    BY <1>2 DEF pollAll, vars, tvars, runvars, bufvars, netvars, Abstract!rpcVars
  <1>3. CASE PollNext
    BY <1>1, <1>3, RpcSenders, PollRpcRun, RpcStopServer DEF PollNext
  <1>. QED
    BY <1>2, <1>3

\* The client of poll/ keeps the promise of RpcClient as well.
THEOREM PollRefinement == PollSpec => KeepsPromise
  <1>1. PollInit => Abstract!RpcInit
    BY RpcStart DEF PollInit
  <1>. QED
    BY <1>1, PollRpcStep, PollClientInvariant, PTL DEF PollSpec, KeepsPromise

=============================================================================
