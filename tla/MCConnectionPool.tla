-------------------------- MODULE MCConnectionPool --------------------------
(***************************************************************************)
(* ConnectionPool for TLC: one or two keys, three or four sockets, two     *)
(* slots per key, and a clock that runs past the idle limit twice.         *)
(***************************************************************************)
EXTENDS ConnectionPool, TLC

Symmetry == Permutations(Socks)

=============================================================================
