------------------------------ MODULE MCGrowth -------------------------------
(***************************************************************************)
(* Instances of Growth for TLC.                                            *)
(***************************************************************************)
EXTENDS Growth

\* stdin is 0; a server creates its listening socket, 3, before epoll_create1.
Stdio == {1, 2, 4}

=============================================================================
