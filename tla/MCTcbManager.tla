---------------------------- MODULE MCTcbManager ----------------------------
(***************************************************************************)
(* Two remotes, a listening port with two acceptors, and one port that is  *)
(* both listened on and drawn for connections.                             *)
(***************************************************************************)
EXTENDS TcbManager, TLC

TwoAcceptors == {<<"a", 1>>, <<"b", 1>>}

\* Remote endpoints and sockets are only compared with each other.
Interchangeable == Permutations(Remote) \cup Permutations(Socket)

=============================================================================
