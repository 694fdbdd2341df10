--------------------------- MODULE SocketDirectory ---------------------------
(***************************************************************************)
(* What the socket router promises its caller, without the list: a         *)
(* directory of open sockets keyed by descriptor, each with at most one    *)
(* title.  A step opens one socket, retitles one or shuts one, and never   *)
(* touches a second; a socket once titled keeps a title until it is shut.  *)
(* Only the end of the program shuts several.  SocketRouter implements it  *)
(* (src/src/socketrtr.c: the ListOfSocketRouters).                         *)
(***************************************************************************)
CONSTANTS
    Socket,   \* descriptors
    Title,    \* logical names
    Untitled

VARIABLES
    open,     \* the sockets in the directory
    title,    \* [open -> Title or Untitled]
    over      \* the program has ended

dirVars == <<open, title, over>>

DirInit == open = {} /\ title = [s \in {} |-> Untitled] /\ over = FALSE

OpenSocket(s, t) ==
    /\ s \notin open
    /\ open' = open \cup {s}
    /\ title' = [x \in open \cup {s} |-> IF x = s THEN t ELSE title[x]]
    /\ UNCHANGED over

Retitle(s, t) ==
    /\ s \in open
    /\ title' = [title EXCEPT ![s] = t]
    /\ UNCHANGED <<open, over>>

Shut(s) ==
    /\ s \in open
    /\ open' = open \ {s}
    /\ title' = [x \in open \ {s} |-> title[x]]
    /\ UNCHANGED over

ShutAll == open' = {} /\ title' = [s \in {} |-> Untitled] /\ over' = TRUE

DirStep ==
    \/ \E s \in Socket, t \in Title \cup {Untitled} : OpenSocket(s, t)
    \/ \E s \in Socket, t \in Title : Retitle(s, t)
    \/ \E s \in Socket : Shut(s)
    \/ ShutAll

DirNext == ~over /\ DirStep

DirSpec == DirInit /\ [][DirNext]_dirVars
=============================================================================
