------------------------------- MODULE MCWire -------------------------------
(***************************************************************************)
(* Small instances of WireClient and SocketServer.                         *)
(***************************************************************************)
EXTENDS WireClient

MCTwoConn == 1 .. 2
MCCall == 1 .. 4
MCThreeCalls == 1 .. 3
MCTwoCalls == 1 .. 2
=============================================================================
