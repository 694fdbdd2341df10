---------------------------- MODULE Conversation ----------------------------
(***************************************************************************)
(* What a connection promises a script: what the peer sends is heard in    *)
(* order, unless the script skips it; what the script says reaches the     *)
(* peer in order and complete, as long as the peer is there and the script *)
(* has not hung up.  SocketStream implements it when the stream is         *)
(* unbuffered (src/src/socketrtr.c, set-not-buffered).                     *)
(***************************************************************************)
EXTENDS Naturals, Sequences

CONSTANT Byte   \* what the peer may send

VARIABLES
    inbox,   \* sent by the peer, not yet heard
    seen,    \* heard by the script
    outbox,  \* said by the script, on its way
    heard,   \* heard by the peer
    said,    \* how many pieces the script has said
    there    \* the peer listens and the script has not hung up

convVars == <<inbox, seen, outbox, heard, said, there>>

ConvInit ==
    /\ inbox = << >> /\ seen = << >> /\ outbox = << >> /\ heard = << >>
    /\ said = 0 /\ there = TRUE

PeerSays ==
    /\ \E b \in Byte : inbox' = Append(inbox, b)
    /\ UNCHANGED <<seen, outbox, heard, said, there>>

Hear ==
    /\ inbox # << >>
    /\ seen' = Append(seen, Head(inbox)) /\ inbox' = Tail(inbox)
    /\ UNCHANGED <<outbox, heard, said, there>>

Skip ==
    /\ inbox # << >>
    /\ inbox' = Tail(inbox)
    /\ UNCHANGED <<seen, outbox, heard, said, there>>

Say ==
    /\ there
    /\ said' = said + 1
    /\ outbox' = Append(outbox, said + 1)
    /\ UNCHANGED <<inbox, seen, heard, there>>

PeerHears ==
    /\ outbox # << >>
    /\ heard' = Append(heard, Head(outbox)) /\ outbox' = Tail(outbox)
    /\ UNCHANGED <<inbox, seen, said, there>>

\* Once an end is gone the script may talk to nobody, and what was on its way
\* may be lost.
SayToNobody ==
    /\ ~there
    /\ said' = said + 1
    /\ UNCHANGED <<inbox, seen, outbox, heard, there>>

Part ==
    /\ there' = FALSE
    /\ outbox' \in {outbox, << >>}
    /\ UNCHANGED <<inbox, seen, heard, said>>

ConvNext == PeerSays \/ Hear \/ Skip \/ Say \/ PeerHears \/ SayToNobody \/ Part

ConvSpec == ConvInit /\ [][ConvNext]_convVars
=============================================================================
