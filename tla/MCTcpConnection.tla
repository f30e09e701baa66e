-------------------------- MODULE MCTcpConnection --------------------------
(* Instances of TcpConnection for TLC: messages of two units, so that      *)
(* write(2) can take a part of one.                                        *)
EXTENDS TcpConnection
=============================================================================
