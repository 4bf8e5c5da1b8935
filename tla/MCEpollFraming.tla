--------------------------- MODULE MCEpollFraming ---------------------------
(***************************************************************************)
(* A small instance of EpollFraming: a header of two units; a buffer that  *)
(* can hold a header only, the smallest useful one, as in                  *)
(* epoll/req_check_ser.cpp, which builds its server with                   *)
(* sizeof(RpcRequestHdr) + 1, and one that can hold several requests;      *)
(* bodies that fit the buffer and bodies that do not.                      *)
(***************************************************************************)
EXTENDS EpollFraming

SmallBuffers == {2, 3, 6}
MixedBodies == {0, 1, 4}
=============================================================================
