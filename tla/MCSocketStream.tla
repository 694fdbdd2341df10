--------------------------- MODULE MCSocketStream ---------------------------
(* Small instances of SocketStream for TLC.                                *)
EXTENDS SocketStream

MCNone == {}
MCTimeout == {"timeout"}
MCEither == {"nonblock", "timeout"}
=============================================================================
