--------------------------- MODULE MCSocketRouter ---------------------------
(* Small instances of SocketRouter for TLC.                                *)
EXTENDS SocketRouter

CONSTANTS a, b

MCFD == 3..4
MCAddress == {a, b}
MCInet == {"AF_INET"}
MCFamilies == {"AF_INET", "AF_INET6", "AF_UNIX"}
MCStream == {"SOCK_STREAM"}
MCBoth == {"SOCK_STREAM", "SOCK_DGRAM"}
MCManner == {{"fd"}, {"fd", "name"}}
Symmetry == Permutations(MCAddress)
=============================================================================
