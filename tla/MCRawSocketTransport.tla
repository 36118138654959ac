------------------------ MODULE MCRawSocketTransport ------------------------
(***************************************************************************)
(* RawSocketTransport for TLC: three calls, each to a plain or to a TLS    *)
(* origin, over two sockets and one slot per origin, so that connections   *)
(* are reused, evicted, expired and contended for.                         *)
(***************************************************************************)
EXTENDS RawSocketTransport, TLC

Symmetry == Permutations(Socks) \cup Permutations(Calls)

=============================================================================
