---------------------------- MODULE MCRpcServer ----------------------------
(***************************************************************************)
(* RpcServer for TLC: two descriptors, and pools of two and three buffers.*)
(***************************************************************************)
EXTENDS RpcServer, TLC

CONSTANTS b1, b2, b3

Sym == Permutations(Fd)

Pool2 == <<b1, b2>>
Pool3 == <<b1, b2, b3>>
=============================================================================
