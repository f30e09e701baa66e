---------------------------- MODULE MCEventLoop ----------------------------
(* The instance of EventLoop for TLC: two other threads, two functors, one *)
(* socket.                                                                 *)
EXTENDS EventLoop
=============================================================================
