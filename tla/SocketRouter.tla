---------------------------- MODULE SocketRouter ----------------------------
(***************************************************************************)
(* The socket I/O router of CLIPSockets (src/src/socketrtr.c).             *)
(*                                                                         *)
(* The component keeps one linked list of socketRouter structures, newest  *)
(* first.  A structure ties a stdio stream over a socket descriptor to the *)
(* logical name under which rules read, write, poll and close it.  A       *)
(* script drives the list through user-defined functions: it names a       *)
(* socket either by the descriptor create-socket or accept returned, or by *)
(* the logical name bind-socket, connect or get-socket-logical-name did.   *)
(*                                                                         *)
(* Outside the component stand the kernel's sockets (kernel, binding,      *)
(* pending) and the script's own knowledge of its sockets (held).          *)
(***************************************************************************)
EXTENDS Integers, Sequences, FiniteSets, SequencesExt

CONSTANTS
    FD,        \* the descriptors the process may hold (its RLIMIT_NOFILE)
    Domain,    \* the address families in use, of AF_INET, AF_INET6, AF_UNIX
    Kind,      \* the socket types in use, of SOCK_STREAM, SOCK_DGRAM
    Address,   \* transport addresses: an ip and port, or a path
    Anonymous, \* the peer address of a UNIX client that bound no path
    Unset,     \* a field get_struct leaves with whatever the memory held
    NotHeld,   \* the script has no handle on this descriptor
    Backlog,   \* bound: connections the kernel queues on a listening socket
    MaxHeap,   \* bound: heap blocks of this file that may be outstanding
    Manner     \* how scripts may close: by descriptor, by name, or either

ASSUME FDAssumption == FD \subseteq Nat
ASSUME DomainAssumption == Domain \subseteq {"AF_INET", "AF_INET6", "AF_UNIX"}
ASSUME KindAssumption == Kind \subseteq {"SOCK_STREAM", "SOCK_DGRAM"}
ASSUME BoundAssumption == Backlog \in Nat /\ MaxHeap \in Nat
ASSUME MannerAssumption == Manner \subseteq SUBSET {"fd", "name"}

AnyAddress == Address \cup {Anonymous}

Form == {"ip:port", "[ip]:port", "[ip:port]", "path"}

\* A logical name is text; two names are equal when both their layout and the
\* address they spell agree.
LogicalName == Form \X AnyAddress

ASSUME TokenAssumption ==
    /\ Anonymous \notin Address
    /\ Unset \notin LogicalName /\ Unset \notin Domain /\ Unset \notin FD
    /\ Unset \notin {"bind", "connect", "accept"} /\ Unset \notin Address
    /\ NotHeld \notin LogicalName /\ NotHeld # Unset

(* A definition with "Slip" in its name is a plausible slip in the code its *)
(* neighbour models; no action uses it.  PROJECT.json says which property   *)
(* notices it.                                                             *)

\* The name bind-socket and connect spell for their own address argument.
NameOf(dom, a) ==
    << CASE dom = "AF_INET"  -> "ip:port"
         [] dom = "AF_INET6" -> "[ip]:port"
         [] OTHER            -> "path", a >>

\* The name accept spells for its peer; IPv6 puts the port inside the brackets.
PeerNameOf(dom, a) ==
    << CASE dom = "AF_INET"  -> "ip:port"
         [] dom = "AF_INET6" -> "[ip:port]"
         [] OTHER            -> "path", a >>

SocketState ==
    {"closed", "fresh", "bound", "listening",
     "connecting",    \* connect failed with EINPROGRESS or EINTR: still going
     "established",   \* ... and completed, which no connect has reported yet
     "connected",
     "reset"}         \* the connection it had was reset

KernelSocket ==
    [st    : SocketState,
     kind  : Kind \cup {Unset},
     dom   : Domain \cup {Unset},
     local : Address \cup {Unset},
     peer  : AnyAddress \cup {Unset},
     via   : {"connect", "detached", "accept", Unset},  \* how it came to have a peer
     last  : {"bind", "connect", "accept", Unset}]      \* the last call to report success

ClosedSocket ==
    [st |-> "closed", kind |-> Unset, dom |-> Unset,
     local |-> Unset, peer |-> Unset, via |-> Unset, last |-> Unset]

Router == [fd : FD, dom : Domain \cup {Unset}, name : LogicalName \cup {Unset}]

Endpoint == Domain \X Address

VARIABLES
    routers,   \* ListOfSocketRouters, head first
    kernel,    \* descriptor -> the kernel's socket
    binding,   \* endpoint -> the descriptor that receives its connections
    pending,   \* descriptor -> peers connected but not yet accepted
    lost,      \* descriptors opened by this file and then forgotten
    heap,      \* router structs, name strings, string builders not given back
    proc,      \* "running", "poisoned" (its heap is corrupt), "exited", or what
               \* it died of
    held,      \* descriptor -> the name the script last saw for it
    manner     \* how the script closes

vars == <<routers, kernel, binding, pending, lost, heap, proc, held, manner>>

-----------------------------------------------------------------------------
(* Lookups.  The code walks the list and stops at the first match.         *)

Alive == proc \in {"running", "poisoned"}

FirstFd(i, f) ==
    /\ i \in DOMAIN routers
    /\ routers[i].fd = f
    /\ \A j \in 1..(i - 1) : routers[j].fd # f

FirstNamed(i, n) ==
    /\ i \in DOMAIN routers
    /\ routers[i].name = n
    /\ \A j \in 1..(i - 1) : routers[j].name # n

Listed == {routers[i].fd : i \in DOMAIN routers}

Named(n) == \E i \in DOMAIN routers : routers[i].name = n

\* The router a script's handle on f reaches: by descriptor, or by its name.
Denotes(f, i) ==
    \/ FirstFd(i, f)
    \/ held[f] \in LogicalName /\ FirstNamed(i, held[f])

Handles == {f \in FD : held[f] # NotHeld}

\* POSIX hands out the lowest free descriptor.
LowestFree(f) ==
    /\ f \in FD
    /\ kernel[f].st = "closed"
    /\ \A g \in FD : g < f => kernel[g].st # "closed"

TableFull == \A f \in FD : kernel[f].st # "closed"

(* The three edits of the list.                                            *)

PushedSlip(f, dom, n) == <<[fd |-> f, dom |-> Unset, name |-> n]>> \o routers
RenamedSlip(i, n) == [routers EXCEPT ![1].name = n]    \* the head, not the find
UnlinkedSlip(i) == SubSeq(routers, i + 1, Len(routers))   \* prev never advances
UnlinkedNotSlip(i) == routers                          \* returns before unlinking

\* Every new router goes in front.
Pushed(f, dom, n) == <<[fd |-> f, dom |-> dom, name |-> n]>> \o routers

\* bind-socket and connect name the router they found.
Renamed(i, n) == [routers EXCEPT ![i].name = n]

\* close-connection unlinks the router it found, by the one before it.
Unlinked(i) == RemoveAt(routers, i)

Fault == {"no router", "lookup", "close", "pool"}

Die(cause) ==
    /\ proc' = cause
    /\ UNCHANGED <<routers, kernel, binding, pending, lost, heap, held>>

-----------------------------------------------------------------------------
Init ==
    /\ routers = << >>
    /\ kernel = [f \in FD |-> ClosedSocket]
    /\ binding = [e \in Endpoint |-> Unset]
    /\ pending = [f \in FD |-> << >>]
    /\ lost = {}
    /\ heap = 0
    /\ proc = "running"
    /\ held = [f \in FD |-> NotHeld]
    /\ manner \in Manner

\* create-socket.  The new structure's logicalName is never assigned.
CreateSocket(f, dom, kind) ==
    /\ Alive /\ heap < MaxHeap
    /\ LowestFree(f)
    /\ kernel' = [kernel EXCEPT ![f] = [ClosedSocket EXCEPT
                     !.st = "fresh", !.kind = kind, !.dom = dom]]
    /\ routers' = Pushed(f, dom, Unset)
    /\ heap' = heap + 1
    /\ held' = [held EXCEPT ![f] = Unset]
    /\ UNCHANGED <<binding, pending, lost, proc>>

\* create-socket whose fdopen fails: neither descriptor nor structure is given
\* back, and the script sees FALSE.
CreateSocketNoStream(f, dom, kind) ==
    /\ Alive /\ heap < MaxHeap
    /\ LowestFree(f)
    /\ kernel' = [kernel EXCEPT ![f] = [ClosedSocket EXCEPT
                     !.st = "fresh", !.kind = kind, !.dom = dom]]
    /\ lost' = lost \cup {f}
    /\ heap' = heap + 1
    /\ UNCHANGED <<routers, binding, pending, proc, held>>

\* bind-socket on a descriptor no router has dereferences NULL.
BindSocketUnknown(f) ==
    /\ Alive
    /\ f \in Handles \ Listed
    /\ Die("no router")

\* The kernel binds a socket that has no local address: on a path whether or not
\* it is connected; to an ip and port unless it has or seeks a connection, and
\* unless they are in use.  (The unlink before it made room for a path.)
CanBind(f, a) ==
    LET k == kernel[f] IN
    /\ k.local = Unset
    /\ IF k.dom = "AF_UNIX" THEN k.st \in {"fresh", "connected"}
       ELSE k.st \in {"fresh", "reset"} /\ binding[<<k.dom, a>>] = Unset

Bound(k, a) ==
    [k EXCEPT !.st = IF @ = "fresh" THEN "bound" ELSE @, !.local = a, !.last = "bind"]

\* The kernel takes an address of the socket's own family alone; the domain of an
\* accepted router is unset, and may be any.
BindSocket(f, a) ==
    LET dom == kernel[f].dom IN
    /\ Alive /\ f \in Handles /\ heap < MaxHeap
    /\ \E i \in DOMAIN routers :
         /\ FirstFd(i, f)
         /\ routers[i].dom \in {dom, Unset}
         /\ CanBind(f, a)
         /\ kernel' = [kernel EXCEPT ![f] = Bound(@, a)]
         /\ binding' = [binding EXCEPT ![<<dom, a>>] = f]
         /\ routers' = Renamed(i, NameOf(dom, a))
         /\ held' = [held EXCEPT ![f] = NameOf(dom, a)]
    /\ heap' = heap + 1
    /\ UNCHANGED <<pending, lost, proc>>

\* A bind that fails has still unlinked the path of a UNIX address.  The domain
\* of an accepted router is unset: the switch may take the AF_UNIX case.
BindSocketFails(f, a) ==
    /\ Alive /\ f \in Handles
    /\ \E i \in DOMAIN routers :
         /\ FirstFd(i, f)
         /\ routers[i].dom \in {"AF_UNIX", Unset}
         /\ "AF_UNIX" \in Domain
    /\ binding' = [binding EXCEPT ![<<"AF_UNIX", a>>] = Unset]
    /\ UNCHANGED <<routers, kernel, pending, lost, heap, proc, held>>

\* listen, by descriptor or name.  The kernel binds an unbound ip socket to a
\* port of its choice first.
Listen(f) ==
    /\ Alive /\ f \in Handles
    /\ \E i \in DOMAIN routers :
         LET g == routers[i].fd IN
         /\ Denotes(f, i)
         /\ kernel[g].kind = "SOCK_STREAM"
         /\ \/ kernel[g].st = "bound"
            \/ kernel[g].st = "fresh" /\ kernel[g].dom # "AF_UNIX"
         /\ kernel' = [kernel EXCEPT ![g].st = "listening"]
    /\ UNCHANGED <<routers, binding, pending, lost, heap, proc, held>>

AcceptedSocket(g) ==
    [ClosedSocket EXCEPT
        !.st = "connected", !.kind = kernel[g].kind, !.dom = kernel[g].dom,
        !.local = kernel[g].local, !.peer = Head(pending[g]), !.via = "accept",
        !.last = "accept"]

\* accept: the new router is named after the peer; its domain is not assigned.
Accept(f, c) ==
    /\ Alive /\ f \in Handles /\ heap + 2 <= MaxHeap
    /\ LowestFree(c)
    /\ \E i \in DOMAIN routers :
         LET g == routers[i].fd IN
         /\ Denotes(f, i)
         /\ kernel[g].st = "listening" /\ pending[g] # << >>
         /\ kernel' = [kernel EXCEPT ![c] = AcceptedSocket(g)]
         /\ pending' = [pending EXCEPT ![g] = Tail(@)]
         /\ routers' = Pushed(c, Unset, PeerNameOf(routers[i].dom, Head(pending[g])))
    /\ heap' = heap + 2
    /\ held' = [held EXCEPT ![c] = Unset]
    /\ UNCHANGED <<binding, lost, proc>>

\* accept whose fdopen fails: the connection is taken and its descriptor lost.
AcceptNoStream(f, c) ==
    /\ Alive /\ f \in Handles
    /\ LowestFree(c)
    /\ \E i \in DOMAIN routers :
         LET g == routers[i].fd IN
         /\ Denotes(f, i)
         /\ kernel[g].st = "listening" /\ pending[g] # << >>
         /\ kernel' = [kernel EXCEPT ![c] = AcceptedSocket(g)]
         /\ pending' = [pending EXCEPT ![g] = Tail(@)]
    /\ lost' = lost \cup {c}
    /\ UNCHANGED <<routers, binding, heap, proc, held>>

\* accept(2) fails: EINVAL on a socket that does not listen, EMFILE with no
\* descriptor left, EAGAIN when the receive timeout passes with nobody pending.
\* The string builder is not disposed of.
AcceptFails(f) ==
    /\ Alive /\ f \in Handles /\ heap < MaxHeap
    /\ \E i \in DOMAIN routers :
         /\ Denotes(f, i)
         /\ \/ kernel[routers[i].fd].st # "listening"
            \/ TableFull
            \/ pending[routers[i].fd] = << >>
    /\ heap' = heap + 1
    /\ UNCHANGED <<routers, kernel, binding, pending, lost, proc, held>>

\* connect on a descriptor no router has leaves the string builder behind.
ConnectUnknown(f) ==
    /\ Alive /\ f \in Handles \ Listed /\ heap < MaxHeap
    /\ heap' = heap + 1
    /\ UNCHANGED <<routers, kernel, binding, pending, lost, proc, held>>

\* connect(2) succeeds on a stream socket once, on a datagram socket always; on
\* a stream socket whose connection completed behind a failed connect, the next
\* one reports that, whatever address it is given.
CanConnect(f) ==
    \/ kernel[f].st \in {"fresh", "bound", "established"}
    \/ kernel[f].kind = "SOCK_DGRAM" /\ kernel[f].st = "connected"

Joined(k, a) ==
    IF k.st = "established" THEN [k EXCEPT !.st = "connected", !.last = "connect"]
    ELSE [k EXCEPT !.st = "connected", !.peer = a, !.via = "connect", !.last = "connect"]

\* The old name, if any, is overwritten without being given back.
Connect(f, a) ==
    /\ Alive /\ f \in Handles /\ heap < MaxHeap
    /\ CanConnect(f)
    /\ \E i \in DOMAIN routers :
         /\ FirstFd(i, f)
         /\ routers[i].dom \in Domain
         /\ kernel' = [kernel EXCEPT ![f] = Joined(@, a)]
         /\ routers' = Renamed(i, NameOf(routers[i].dom, a))
         /\ held' = [held EXCEPT ![f] = NameOf(routers[i].dom, a)]
    /\ heap' = heap + 1
    /\ UNCHANGED <<binding, pending, lost, proc>>

\* connect(2) to an ip and port returns -1 while the kernel goes on connecting (a
\* non-blocking socket, or a signal); the function answers FALSE and leaves the
\* name alone.
ConnectDetached(f, a) ==
    /\ Alive /\ f \in Handles /\ f \in Listed
    /\ kernel[f].kind = "SOCK_STREAM" /\ kernel[f].dom # "AF_UNIX"
    /\ kernel[f].st \in {"fresh", "bound"}
    /\ kernel' = [kernel EXCEPT ![f].st = "connecting",
                                ![f].peer = a, ![f].via = "detached"]
    /\ UNCHANGED <<routers, binding, pending, lost, heap, proc, held>>

\* get-socket-logical-name; a descriptor no router has dereferences NULL.
GetSocketLogicalName(f) ==
    /\ Alive /\ f \in Handles
    /\ \E i \in DOMAIN routers :
         /\ FirstFd(i, f)
         /\ routers[i].name # Unset
         /\ held' = [held EXCEPT ![f] = routers[i].name]
    /\ UNCHANGED <<routers, kernel, binding, pending, lost, heap, proc>>

GetSocketLogicalNameUnknown(f) ==
    /\ Alive
    /\ f \in Handles \ Listed
    /\ Die("no router")

\* Any lookup by name, and every printout walks the list for one, compares
\* with the unassigned name of a router it passes and may fault on it.
LookupFaults ==
    /\ Alive
    /\ Named(Unset)
    /\ Die("lookup")

\* The blocks a close gives back: the structure, and the name once there is one.
GivenBackSlip(i) == 2
GivenBack(i) == IF routers[i].name = Unset THEN 1 ELSE 2

\* fclose, rm of the name, unlinking of the structure.  Giving back the
\* unassigned name of a socket that was never bound or connected faults, or
\* files a foreign block under a size that is not its own.
Release(i) ==
    LET g == routers[i].fd IN
    /\ routers' = Unlinked(i)
    /\ kernel' = [kernel EXCEPT ![g] = ClosedSocket]
    /\ binding' = [e \in Endpoint |-> IF binding[e] = g THEN Unset ELSE binding[e]]
    /\ pending' = [pending EXCEPT ![g] = << >>]
    /\ heap' = heap - GivenBack(i)
    /\ IF routers[i].name = Unset THEN proc' = "poisoned" ELSE UNCHANGED proc
    /\ UNCHANGED lost

\* close-connection with the descriptor.
CloseFileDescriptorConnection(f) ==
    /\ Alive /\ f \in Handles /\ "fd" \in manner
    /\ \E i \in DOMAIN routers : FirstFd(i, f) /\ Release(i)
    /\ held' = [held EXCEPT ![f] = NotHeld]

\* close-connection with the name the script has for f: it closes the newest
\* router so named, and the script takes f for closed.
CloseNamedConnection(f) ==
    /\ Alive /\ f \in Handles /\ held[f] \in LogicalName /\ "name" \in manner
    /\ \E i \in DOMAIN routers : FirstNamed(i, held[f]) /\ Release(i)
    /\ held' = [held EXCEPT ![f] = NotHeld]

\* Giving back an unassigned name, in close-connection or at exit, faults.
CloseFaults(f) ==
    /\ Alive /\ f \in Handles
    /\ \E i \in DOMAIN routers : FirstFd(i, f) /\ routers[i].name = Unset
    /\ Die("close")

NamedCount == Cardinality({i \in DOMAIN routers : routers[i].name # Unset})

\* CloseAllSockets, from the router's exit callback or the environment's
\* deallocation: every stream is closed, every name and structure given back.
CloseAllSockets ==
    /\ Alive
    /\ routers' = << >>
    /\ kernel' = [f \in FD |-> IF f \in Listed THEN ClosedSocket ELSE kernel[f]]
    /\ binding' = [e \in Endpoint |-> IF binding[e] \in Listed THEN Unset ELSE binding[e]]
    /\ pending' = [f \in FD |-> IF f \in Listed THEN << >> ELSE pending[f]]
    /\ heap' = heap - Len(routers) - NamedCount
    /\ proc' = "exited"
    /\ held' = [f \in FD |-> NotHeld]
    /\ UNCHANGED lost

-----------------------------------------------------------------------------
(* The kernel and the network.                                             *)

\* A peer's connection completes on a listening socket.  The four-tuple of an
\* ip connection is unique; anonymous UNIX clients are all alike.
Arrive(e, p) ==
    /\ Alive
    /\ binding[e] \in FD
    /\ LET g == binding[e] IN
       /\ kernel[g].st = "listening"
       /\ Len(pending[g]) < Backlog
       /\ IF e[1] = "AF_UNIX" THEN p = Anonymous
          ELSE /\ p \in Address \ {e[2]}
               /\ \A j \in DOMAIN pending[g] : pending[g][j] # p
               /\ \A h \in FD : ~ (kernel[h].dom = e[1] /\ kernel[h].local = e[2]
                                    /\ kernel[h].peer = p /\ kernel[h].st # "reset")
       /\ pending' = [pending EXCEPT ![g] = Append(@, p)]
    /\ UNCHANGED <<routers, kernel, binding, lost, heap, proc, held>>

\* A detached connect completes, or fails and leaves the socket as it was.
Establish(f) ==
    /\ Alive /\ kernel[f].st = "connecting"
    /\ kernel' = [kernel EXCEPT ![f].st = "established"]
    /\ UNCHANGED <<routers, binding, pending, lost, heap, proc, held>>

Refused(f) ==
    /\ Alive /\ kernel[f].st \in {"connecting", "established"}
    /\ kernel' = [kernel EXCEPT
                     ![f].st = IF kernel[f].local = Unset THEN "fresh" ELSE "bound",
                     ![f].peer = Unset, ![f].via = Unset]
    /\ UNCHANGED <<routers, binding, pending, lost, heap, proc, held>>

\* The peer, or a timeout, resets a connection; the kernel takes back the port it
\* chose itself, or that came with accept.
Reset(f) ==
    /\ Alive /\ kernel[f].st = "connected"
    /\ kernel[f].kind = "SOCK_STREAM" /\ kernel[f].dom # "AF_UNIX"
    /\ kernel' = [kernel EXCEPT
                     ![f].st = "reset",
                     ![f].local = IF kernel[f].via = "accept" THEN Unset ELSE @]
    /\ UNCHANGED <<routers, binding, pending, lost, heap, proc, held>>

\* A corrupted pool faults at some later allocation.
PoisonFaults == proc = "poisoned" /\ Die("pool")

\* The program stops for good.
Stopped == ~Alive /\ UNCHANGED vars

-----------------------------------------------------------------------------
Create == \E f \in FD, d \in Domain, k \in Kind :
              CreateSocket(f, d, k) \/ CreateSocketNoStream(f, d, k)

Attach == \E f \in FD, a \in Address :
              \/ BindSocket(f, a) \/ BindSocketFails(f, a)
              \/ Connect(f, a) \/ ConnectDetached(f, a)

Serve == \E f \in FD :
              \/ BindSocketUnknown(f) \/ ConnectUnknown(f)
              \/ GetSocketLogicalName(f) \/ GetSocketLogicalNameUnknown(f)
              \/ Listen(f) \/ AcceptFails(f)
              \/ \E c \in FD : Accept(f, c) \/ AcceptNoStream(f, c)

Close == \/ \E f \in FD :
              \/ CloseFileDescriptorConnection(f) \/ CloseNamedConnection(f)
              \/ CloseFaults(f)
         \/ CloseAllSockets

Kernel == \/ \E e \in Endpoint, p \in AnyAddress : Arrive(e, p)
          \/ \E f \in FD : Establish(f) \/ Refused(f) \/ Reset(f)

Next == /\ Create \/ Attach \/ Serve \/ Close \/ Kernel
           \/ LookupFaults \/ PoisonFaults \/ Stopped
        /\ UNCHANGED manner

Spec == Init /\ [][Next]_vars

-----------------------------------------------------------------------------
(* Properties.                                                             *)

\* The type of every variable, and the one structural fact the types rest on:
\* the list can hold at most one router per descriptor.
TypeOK ==
    /\ routers \in Seq(Router)
    /\ kernel \in [FD -> KernelSocket]
    /\ binding \in [Endpoint -> FD \cup {Unset}]
    /\ pending \in [FD -> Seq(AnyAddress)]
    /\ lost \subseteq FD
    /\ heap \in Int
    /\ proc \in {"running", "poisoned", "exited"} \cup Fault
    /\ held \in [FD -> LogicalName \cup {Unset, NotHeld}]
    /\ manner \in Manner

\* No two structures on the list wrap the same descriptor, so the walk by
\* descriptor is unambiguous however descriptors are reused.
DescriptorsDistinct ==
    \A i, j \in DOMAIN routers : routers[i].fd = routers[j].fd => i = j

\* Every descriptor this file opened is on the list exactly while it is open:
\* no stream is used after fclose, and the only sockets that escape the list
\* are those whose fdopen failed.
OpenMeansListed ==
    /\ {f \in FD : kernel[f].st # "closed"} = Listed \cup lost
    /\ Listed \cap lost = {}

\* A logical name is its own socket's, whatever was renamed, closed and opened
\* since: it spells the address that the last successful call on that descriptor
\* gave the socket.  One call names it otherwise: a connect that reports the end
\* of an earlier one spells its own argument, and the peer may be another.
TrueNames(k) ==
    CASE k.last = "bind" -> {NameOf(k.dom, k.local)}
      [] k.last = "accept" -> {PeerNameOf(k.dom, k.peer)}
      [] k.last = "connect" /\ k.via # "detached" -> {NameOf(k.dom, k.peer)}
      [] k.last = "connect" /\ k.via = "detached" -> {NameOf(k.dom, x) : x \in Address}
      [] OTHER -> {Unset}

NamesTellTheTruth ==
    \A i \in DOMAIN routers : routers[i].name \in TrueNames(kernel[routers[i].fd])

\* The domain a router records, which decides how bind-socket, connect and
\* accept lay out names, is its socket's; only an accepted router records none.
DomainsMatch ==
    \A i \in DOMAIN routers :
        LET k == kernel[routers[i].fd] IN
        routers[i].dom = IF k.via = "accept" THEN Unset ELSE k.dom

\* What the calls have reported goes with the state of the socket: an accepted
\* one never listens or connects, and an ip one is bound anew only after a
\* reset; no connect has succeeded before there is a connection.
ReportFits(k) ==
    /\ k.via = "accept" => k.st \in {"connected", "reset"}
    /\ k.via = "accept" /\ k.st = "connected" /\ k.dom # "AF_UNIX" => k.last = "accept"
    /\ k.st \in {"fresh", "bound", "connecting", "established"} => k.last \in {"bind", Unset}
    /\ k.st \in {"connecting", "established"} => k.via = "detached"

ReportsFit == \A f \in FD : ReportFits(kernel[f])

\* The name the script last saw for a socket it still holds is that socket's
\* name: nothing renames a socket behind the script's back.
HeldNamesCurrent ==
    \A i \in DOMAIN routers :
        held[routers[i].fd] \in LogicalName
            => held[routers[i].fd] = routers[i].name

\* No socket the script has not closed is closed under it, where the script
\* closes by descriptor.
HandlesStayOpen == "name" \notin manner => Handles \subseteq Listed

\* Blocks are never given back twice: what is outstanding covers every
\* structure on the list and every name it owns.
HeapCoversList == Alive => heap >= Len(routers) + NamedCount

\* Operations on a name reach the socket the script got that name for
\* ("Returns the logical name of the connection that can be read/written").
NameReachesItsSocket ==
    Alive => \A f \in FD :
        held[f] \in LogicalName => \A i \in DOMAIN routers :
            FirstNamed(i, held[f]) => routers[i].fd = f

-----------------------------------------------------------------------------
(* Refinement: the list, read as a map from descriptors to names.          *)

titleOf ==
    [f \in Listed |->
        routers[CHOOSE i \in DOMAIN routers : routers[i].fd = f].name]

Directory ==
    INSTANCE SocketDirectory WITH
        Socket <- FD, Title <- LogicalName, Untitled <- Unset,
        open <- Listed, title <- titleOf, over <- proc = "exited"

\* Every operation, on any path through it, opens, renames or closes at most
\* one socket and leaves the names of all others alone (exit closes all).
ImplementsDirectory == Directory!DirSpec

\* The list of routers and the kernel's sockets agree: each open descriptor is
\* on the list once, with the family of its socket (socketrtr.c:691, :1258),
\* whatever failed on the way.  Each part needs others to be inductive: a
\* descriptor that the kernel hands out is new to the list because what is listed
\* is open.
IInv ==
    /\ TypeOK
    /\ DescriptorsDistinct
    /\ OpenMeansListed
    /\ DomainsMatch
    /\ ReportsFit
=============================================================================
