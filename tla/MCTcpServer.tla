---------------------------- MODULE MCTcpServer ----------------------------
(* TLC's instances of TcpServer: the constants are given in the .cfg files.*)
EXTENDS TcpServer
=============================================================================
