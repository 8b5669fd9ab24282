----------------------------- MODULE MCTcpClient -----------------------------
(* A small instance of TcpClient for TLC: two threads, and a TID space that *)
(* wraps within the calls they may make.                                   *)
EXTENDS TcpClient
=============================================================================
