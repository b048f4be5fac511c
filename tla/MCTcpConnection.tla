-------------------------- MODULE MCTcpConnection --------------------------
(* TcpConnection for model checking.                                       *)
EXTENDS TcpConnection
=============================================================================
