------------------------- MODULE SocketRouterProofs -------------------------
(***************************************************************************)
(* Proofs about SocketRouter, for any number of descriptors, addresses,    *)
(* families and socket types, any backlog and any length of run.           *)
(***************************************************************************)
EXTENDS SocketRouter, SequenceFacts, FiniteSetTheorems, TLAPS

-----------------------------------------------------------------------------
(* What the three edits of the list do to it.                              *)

\* A new router at the head: create-socket and accept.
LEMMA PushRouter ==
    ASSUME TypeOK, NEW r \in Router, routers' = <<r>> \o routers
    PROVE  /\ routers' \in Seq(Router)
           /\ \A j \in DOMAIN routers' :
                routers'[j] = r \/ \E k \in DOMAIN routers : routers'[j] = routers[k]
           /\ Listed' = Listed \cup {r.fd}
           /\ DescriptorsDistinct /\ r.fd \notin Listed => DescriptorsDistinct'
<1>1. /\ routers \in Seq(Router)
      /\ routers' \in Seq(Router)
      /\ Len(routers') = Len(routers) + 1
      /\ \A j \in 1..(Len(routers) + 1) :
           routers'[j] = IF j = 1 THEN r ELSE routers[j - 1]
  BY PushProperties DEF TypeOK
<1>2. /\ DOMAIN routers = 1..Len(routers) /\ Len(routers) \in Nat
      /\ DOMAIN routers' = 1..(Len(routers) + 1)
  BY <1>1, LenProperties
<1>3. /\ routers'[1] = r
      /\ \A k \in DOMAIN routers : k + 1 \in DOMAIN routers' /\ routers'[k + 1] = routers[k]
      /\ \A j \in DOMAIN routers' \ {1} :
           j - 1 \in DOMAIN routers /\ routers'[j] = routers[j - 1]
  BY <1>1, <1>2
<1>4. Listed' = Listed \cup {r.fd}
  <2>1. ASSUME NEW f \in Listed'
        PROVE  f \in Listed \cup {r.fd}
    <3>1. PICK j \in DOMAIN routers' : f = routers'[j].fd
      BY <2>1 DEF Listed
    <3> QED BY <1>3, <3>1 DEF Listed
  <2>2. ASSUME NEW f \in Listed \cup {r.fd}
        PROVE  f \in Listed'
    <3>1. CASE f \in Listed
      <4>1. PICK k \in DOMAIN routers : f = routers[k].fd
        BY <3>1 DEF Listed
      <4> QED BY <1>3, <4>1 DEF Listed
    <3>2. CASE f = r.fd
      <4>1. 1 \in DOMAIN routers'
        BY <1>2
      <4> QED BY <1>3, <3>2, <4>1 DEF Listed
    <3> QED BY <2>2, <3>1, <3>2
  <2> QED BY <2>1, <2>2
<1>5. ASSUME DescriptorsDistinct, r.fd \notin Listed
      PROVE  DescriptorsDistinct'
  BY <1>2, <1>3, <1>5 DEF DescriptorsDistinct, Listed
<1>6. \A j \in DOMAIN routers' :
        routers'[j] = r \/ \E k \in DOMAIN routers : routers'[j] = routers[k]
  BY <1>3
<1> QED BY <1>1, <1>4, <1>5, <1>6

\* A router given a name in place: bind-socket and connect.
LEMMA RenameRouter ==
    ASSUME TypeOK, NEW i \in DOMAIN routers, NEW n \in LogicalName,
           routers' = [routers EXCEPT ![i].name = n]
    PROVE  /\ routers' \in Seq(Router)
           /\ DOMAIN routers' = DOMAIN routers
           /\ \A j \in DOMAIN routers :
                /\ routers'[j].fd = routers[j].fd
                /\ routers'[j].dom = routers[j].dom
                /\ routers'[j].name = IF j = i THEN n ELSE routers[j].name
           /\ Listed' = Listed
           /\ DescriptorsDistinct => DescriptorsDistinct'
<1> DEFINE e == [routers[i] EXCEPT !.name = n]
<1>1. routers \in Seq(Router) /\ routers[i] \in Router
  BY ElementOfSeq, LenProperties DEF TypeOK
<1>2. e \in Router /\ e.fd = routers[i].fd /\ e.dom = routers[i].dom /\ e.name = n
  BY <1>1 DEF Router
<1>3. routers' = [routers EXCEPT ![i] = e]
  OBVIOUS
<1> HIDE DEF e
<1>4. /\ routers' \in Seq(Router)
      /\ DOMAIN routers' = DOMAIN routers
      /\ \A j \in DOMAIN routers : routers'[j] = IF j = i THEN e ELSE routers[j]
  BY <1>1, <1>2, <1>3, ExceptSeq, LenProperties
<1>5. \A j \in DOMAIN routers : routers'[j].fd = routers[j].fd
  BY <1>2, <1>4
<1>6. Listed' = Listed /\ (DescriptorsDistinct => DescriptorsDistinct')
  BY <1>4, <1>5 DEF Listed, DescriptorsDistinct
<1> QED BY <1>2, <1>4, <1>5, <1>6

\* A router unlinked: close-connection.
LEMMA UnlinkRouter ==
    ASSUME TypeOK, DescriptorsDistinct, NEW i \in DOMAIN routers,
           routers' = RemoveAt(routers, i)
    PROVE  /\ routers' \in Seq(Router)
           /\ \A j \in DOMAIN routers' :
                \E k \in DOMAIN routers \ {i} : routers'[j] = routers[k]
           /\ Listed' = Listed \ {routers[i].fd}
           /\ DescriptorsDistinct'
<1>1. /\ routers \in Seq(Router) /\ i \in 1..Len(routers)
      /\ DOMAIN routers = 1..Len(routers) /\ Len(routers) \in Nat
  BY LenProperties DEF TypeOK
<1>2. /\ routers' \in Seq(Router)
      /\ Len(routers') = Len(routers) - 1
      /\ \A j \in 1..(Len(routers) - 1) :
           routers'[j] = IF j < i THEN routers[j] ELSE routers[j + 1]
  BY <1>1, RemoveAtProperties
<1>3. DOMAIN routers' = 1..(Len(routers) - 1)
  BY <1>2, LenProperties
<1> DEFINE old(j) == IF j < i THEN j ELSE j + 1
<1>4. \A j \in DOMAIN routers' :
        old(j) \in DOMAIN routers \ {i} /\ routers'[j] = routers[old(j)]
  BY <1>1, <1>2, <1>3
<1>5. \A k \in DOMAIN routers \ {i} :
        \E j \in DOMAIN routers' : routers'[j] = routers[k]
  <2> SUFFICES ASSUME NEW k \in DOMAIN routers \ {i}
               PROVE  \E j \in DOMAIN routers' : routers'[j] = routers[k]
    OBVIOUS
  <2>1. CASE k < i
    BY <1>1, <1>2, <1>3, <2>1
  <2>2. CASE k > i
    <3>1. k - 1 \in DOMAIN routers' /\ routers'[k - 1] = routers[k]
      BY <1>1, <1>2, <1>3, <2>2
    <3> QED BY <3>1
  <2> QED BY <1>1, <2>1, <2>2
<1>6. \A j1, j2 \in DOMAIN routers' : old(j1) = old(j2) => j1 = j2
  BY <1>1, <1>3
<1> HIDE DEF old
<1>7. DescriptorsDistinct'
  <2> SUFFICES ASSUME NEW j1 \in DOMAIN routers', NEW j2 \in DOMAIN routers',
                      routers'[j1].fd = routers'[j2].fd
               PROVE  j1 = j2
    BY DEF DescriptorsDistinct
  <2>1. old(j1) = old(j2)
    BY <1>4 DEF DescriptorsDistinct
  <2> QED BY <1>6, <2>1
<1>8. Listed' = Listed \ {routers[i].fd}
  <2>1. ASSUME NEW f \in Listed'
        PROVE  f \in Listed \ {routers[i].fd}
    <3>1. PICK j \in DOMAIN routers' : f = routers'[j].fd
      BY <2>1 DEF Listed
    <3>2. old(j) \in DOMAIN routers \ {i} /\ f = routers[old(j)].fd
      BY <1>4, <3>1
    <3> QED BY <3>2 DEF Listed, DescriptorsDistinct
  <2>2. ASSUME NEW f \in Listed \ {routers[i].fd}
        PROVE  f \in Listed'
    <3>1. PICK k \in DOMAIN routers \ {i} : f = routers[k].fd
      BY <2>2 DEF Listed
    <3> QED BY <1>5, <3>1 DEF Listed
  <2> QED BY <2>1, <2>2
<1> QED BY <1>2, <1>4, <1>7, <1>8

-----------------------------------------------------------------------------
(* The invariant, with the truth of the names that rests on it.            *)

Sound == IInv /\ NamesTellTheTruth

\* What a router on the list owes to its own kernel socket k.
Agrees(r, k) ==
    /\ r.dom = IF k.via = "accept" THEN Unset ELSE k.dom
    /\ r.name \in TrueNames(k)

\* Both layouts, of bind-socket and of accept, are logical names.
LEMMA NamesAreNames ==
    ASSUME NEW d, NEW x \in AnyAddress
    PROVE  NameOf(d, x) \in LogicalName /\ PeerNameOf(d, x) \in LogicalName
BY DEF NameOf, PeerNameOf, LogicalName, Form

LEMMA ClosedFits == ReportFits(ClosedSocket)
BY TokenAssumption DEF ReportFits, ClosedSocket

\* The empty list satisfies the invariant.
LEMMA InitSound == Init => Sound
<1> SUFFICES ASSUME Init PROVE Sound
  OBVIOUS
<1>1. routers \in Seq(Router) /\ DOMAIN routers = {} /\ Listed = {}
  BY DEF Init, Listed
<1>2. ClosedSocket \in KernelSocket
  BY DEF ClosedSocket, KernelSocket, SocketState
<1>3. TypeOK
  BY <1>1, <1>2 DEF Init, TypeOK
<1>4. DescriptorsDistinct /\ DomainsMatch /\ NamesTellTheTruth
  BY <1>1 DEF DescriptorsDistinct, DomainsMatch, NamesTellTheTruth
<1>5. OpenMeansListed
  BY <1>1 DEF Init, OpenMeansListed, ClosedSocket
<1>6. ReportsFit
  BY ClosedFits DEF Init, ReportsFit
<1> QED BY <1>3, <1>4, <1>5, <1>6 DEF Sound, IInv

\* Steps that leave the list alone and do not open or close a descriptor:
\* every listed socket must still agree with its router.
LEMMA KeepList ==
    ASSUME Sound, TypeOK', UNCHANGED <<routers, lost>>,
           \A f \in FD : kernel'[f].st = "closed" <=> kernel[f].st = "closed",
           \A f \in FD : ReportFits(kernel'[f]),
           \A i \in DOMAIN routers : Agrees(routers[i], kernel'[routers[i].fd])
    PROVE  Sound'
<1>1. Listed' = Listed /\ DescriptorsDistinct'
  BY DEF Sound, IInv, Listed, DescriptorsDistinct
<1>2. OpenMeansListed'
  BY <1>1 DEF Sound, IInv, OpenMeansListed
<1>3. DomainsMatch' /\ NamesTellTheTruth' /\ ReportsFit'
  BY DEF DomainsMatch, NamesTellTheTruth, Agrees, ReportsFit
<1> QED BY <1>1, <1>2, <1>3 DEF Sound, IInv

\* A descriptor that was closed is opened: the list gains it, or it is lost.
LEMMA OpenDescriptor ==
    ASSUME Sound, TypeOK', NEW f \in FD, NEW k \in KernelSocket,
           kernel[f].st = "closed", k.st # "closed",
           ReportFits(k),
           kernel' = [kernel EXCEPT ![f] = k],
           \/ /\ UNCHANGED lost
              /\ \E r \in Router : r.fd = f /\ routers' = <<r>> \o routers /\ Agrees(r, k)
           \/ UNCHANGED routers /\ lost' = lost \cup {f}
    PROVE  Sound'
<1>1. /\ TypeOK /\ DescriptorsDistinct
      /\ f \notin Listed /\ f \notin lost
      /\ \A g \in FD : kernel'[g] = IF g = f THEN k ELSE kernel[g]
      /\ \A i \in DOMAIN routers : routers[i].fd \in FD /\ routers[i].fd # f
  BY ElementOfSeq, LenProperties DEF Sound, IInv, TypeOK, OpenMeansListed, Listed, Router
<1>2. \A i \in DOMAIN routers : Agrees(routers[i], kernel'[routers[i].fd])
  BY <1>1 DEF Sound, IInv, DomainsMatch, NamesTellTheTruth, Agrees
<1>3. ReportsFit'
  BY <1>1 DEF Sound, IInv, ReportsFit
<1>4. CASE /\ UNCHANGED lost
           /\ \E r \in Router : r.fd = f /\ routers' = <<r>> \o routers /\ Agrees(r, k)
  <2>1. PICK r \in Router : r.fd = f /\ routers' = <<r>> \o routers /\ Agrees(r, k)
    BY <1>4
  <2>2. /\ \A j \in DOMAIN routers' :
             routers'[j] = r \/ \E m \in DOMAIN routers : routers'[j] = routers[m]
        /\ Listed' = Listed \cup {f}
        /\ DescriptorsDistinct'
    BY <1>1, <2>1, PushRouter
  <2>3. \A j \in DOMAIN routers' : Agrees(routers'[j], kernel'[routers'[j].fd])
    BY <1>1, <1>2, <2>1, <2>2
  <2>4. DomainsMatch' /\ NamesTellTheTruth'
    BY <2>3 DEF DomainsMatch, NamesTellTheTruth, Agrees
  <2>5. OpenMeansListed'
    BY <1>1, <1>4, <2>2 DEF Sound, IInv, OpenMeansListed
  <2> QED BY <1>3, <2>2, <2>4, <2>5 DEF Sound, IInv
<1>5. CASE UNCHANGED routers /\ lost' = lost \cup {f}
  <2>1. Listed' = Listed /\ DescriptorsDistinct'
    BY <1>1, <1>5 DEF Listed, DescriptorsDistinct
  <2>2. DomainsMatch' /\ NamesTellTheTruth'
    BY <1>2, <1>5 DEF DomainsMatch, NamesTellTheTruth, Agrees
  <2>3. OpenMeansListed'
    BY <1>1, <1>5, <2>1 DEF Sound, IInv, OpenMeansListed
  <2> QED BY <1>3, <2>1, <2>2, <2>3 DEF Sound, IInv
<1> QED BY <1>4, <1>5

\* A listed socket changes and its router takes the name that goes with it.
LEMMA RetitleDescriptor ==
    ASSUME Sound, TypeOK', NEW i \in DOMAIN routers, NEW f \in FD,
           NEW k \in KernelSocket, NEW n \in LogicalName,
           routers[i].fd = f, routers[i].dom = IF k.via = "accept" THEN Unset ELSE k.dom,
           n \in TrueNames(k), k.st # "closed", ReportFits(k),
           kernel' = [kernel EXCEPT ![f] = k],
           routers' = [routers EXCEPT ![i].name = n],
           UNCHANGED lost
    PROVE  Sound'
<1>1. /\ TypeOK /\ DescriptorsDistinct
      /\ kernel[f].st # "closed"
      /\ \A g \in FD : kernel'[g] = IF g = f THEN k ELSE kernel[g]
      /\ \A j \in DOMAIN routers : routers[j].fd \in FD /\ (routers[j].fd = f => j = i)
  BY ElementOfSeq, LenProperties
     DEF Sound, IInv, TypeOK, OpenMeansListed, DescriptorsDistinct, Listed, Router
<1>2. /\ DOMAIN routers' = DOMAIN routers
      /\ \A j \in DOMAIN routers :
           /\ routers'[j].fd = routers[j].fd
           /\ routers'[j].dom = routers[j].dom
           /\ routers'[j].name = IF j = i THEN n ELSE routers[j].name
      /\ Listed' = Listed
      /\ DescriptorsDistinct'
  BY <1>1, RenameRouter
<1>3. \A j \in DOMAIN routers : Agrees(routers'[j], kernel'[routers'[j].fd])
  BY <1>1, <1>2 DEF Sound, IInv, DomainsMatch, NamesTellTheTruth, Agrees
<1>4. ReportsFit'
  BY <1>1 DEF Sound, IInv, ReportsFit
<1>5. DomainsMatch' /\ NamesTellTheTruth'
  BY <1>2, <1>3 DEF DomainsMatch, NamesTellTheTruth, Agrees
<1>6. OpenMeansListed'
  BY <1>1, <1>2 DEF Sound, IInv, OpenMeansListed
<1> QED BY <1>2, <1>4, <1>5, <1>6 DEF Sound, IInv

\* A listed socket is closed and its router unlinked.
LEMMA CloseDescriptor ==
    ASSUME Sound, TypeOK', NEW i \in DOMAIN routers, Release(i)
    PROVE  Sound'
<1> DEFINE g == routers[i].fd
<1>1. /\ TypeOK /\ DescriptorsDistinct /\ UNCHANGED lost
      /\ ClosedSocket.st = "closed"
      /\ \A j \in DOMAIN routers : routers[j].fd \in FD /\ (routers[j].fd = g => j = i)
      /\ \A f \in FD : kernel'[f] = IF f = g THEN ClosedSocket ELSE kernel[f]
  <2>1. \A j \in DOMAIN routers : routers[j] \in Router
    BY ElementOfSeq, LenProperties DEF Sound, IInv, TypeOK
  <2> QED BY <2>1 DEF Sound, IInv, TypeOK, DescriptorsDistinct, Router, Release, ClosedSocket
<1>2. /\ \A j \in DOMAIN routers' :
           \E k \in DOMAIN routers \ {i} : routers'[j] = routers[k]
      /\ Listed' = Listed \ {g}
      /\ DescriptorsDistinct'
  BY <1>1, UnlinkRouter DEF Release, Unlinked
<1>3. \A j \in DOMAIN routers' : Agrees(routers'[j], kernel'[routers'[j].fd])
  BY <1>1, <1>2 DEF Sound, IInv, DomainsMatch, NamesTellTheTruth, Agrees
<1>4. ReportsFit'
  BY <1>1, ClosedFits DEF Sound, IInv, ReportsFit
<1>5. DomainsMatch' /\ NamesTellTheTruth'
  BY <1>3 DEF DomainsMatch, NamesTellTheTruth, Agrees
<1>6. OpenMeansListed'
  <2>1. g \in Listed /\ g \notin lost
    BY DEF Sound, IInv, OpenMeansListed, Listed
  <2>2. {f \in FD : kernel'[f].st # "closed"} = {f \in FD : kernel[f].st # "closed"} \ {g}
    BY <1>1
  <2> QED BY <1>1, <1>2, <2>1, <2>2 DEF Sound, IInv, OpenMeansListed
<1> QED BY <1>2, <1>4, <1>5, <1>6 DEF Sound, IInv

-----------------------------------------------------------------------------
(* One lemma per operation that edits the list or opens or closes a        *)
(* descriptor, and one for all the others.                                 *)

\* A list with one router renamed or one put in front is still a list of routers.
LEMMA RoutersTyped ==
    ASSUME TypeOK, NEW i \in DOMAIN routers
    PROVE  routers[i] \in Router /\ routers[i].fd \in FD /\ kernel[routers[i].fd] \in KernelSocket
<1>1. routers[i] \in Router
  BY ElementOfSeq, LenProperties DEF TypeOK
<1> QED BY <1>1 DEF TypeOK, Router

FreshSocket(dom, kind) ==
    [ClosedSocket EXCEPT !.st = "fresh", !.kind = kind, !.dom = dom]

\* The kernel's socket behind a create-socket is well typed.
LEMMA FreshTyped ==
    ASSUME NEW dom \in Domain, NEW kind \in Kind
    PROVE  /\ FreshSocket(dom, kind) \in KernelSocket
           /\ FreshSocket(dom, kind).st = "fresh" /\ FreshSocket(dom, kind).via = Unset
           /\ FreshSocket(dom, kind).dom = dom /\ FreshSocket(dom, kind).last = Unset
           /\ ReportFits(FreshSocket(dom, kind))
BY TokenAssumption DEF FreshSocket, ClosedSocket, KernelSocket, SocketState, ReportFits

\* create-socket puts a router for a descriptor that was closed in front.
LEMMA CreateSocketSound ==
    ASSUME Sound, UNCHANGED manner, NEW f \in FD, NEW dom \in Domain, NEW kind \in Kind,
           CreateSocket(f, dom, kind)
    PROVE  Sound'
<1> DEFINE r == [fd |-> f, dom |-> dom, name |-> Unset]
           k == FreshSocket(dom, kind)
<1>1. /\ k \in KernelSocket /\ k.st = "fresh" /\ k.via = Unset
      /\ k.dom = dom /\ k.last = Unset /\ ReportFits(k)
  BY FreshTyped
<1>2. r \in Router /\ r.fd = f /\ r.dom = dom /\ r.name = Unset
  BY DEF Router
<1>3. /\ TypeOK /\ kernel[f].st = "closed"
      /\ kernel' = [kernel EXCEPT ![f] = k]
      /\ routers' = <<r>> \o routers
      /\ held' = [held EXCEPT ![f] = Unset] /\ heap' = heap + 1
      /\ UNCHANGED <<binding, pending, lost, proc>>
  BY DEF CreateSocket, LowestFree, FreshSocket, Sound, IInv, Pushed
<1> HIDE DEF r, k
<1>4. routers' \in Seq(Router)
  BY <1>2, <1>3, PushRouter
<1>5. TypeOK'
  BY <1>1, <1>3, <1>4 DEF TypeOK
<1>6. Agrees(r, k)
  BY <1>1, <1>2, TokenAssumption DEF Agrees, TrueNames
<1> QED BY <1>1, <1>2, <1>3, <1>5, <1>6, TokenAssumption, OpenDescriptor

\* create-socket without a stream opens a descriptor the list never sees.
LEMMA CreateSocketNoStreamSound ==
    ASSUME Sound, UNCHANGED manner, NEW f \in FD, NEW dom \in Domain, NEW kind \in Kind,
           CreateSocketNoStream(f, dom, kind)
    PROVE  Sound'
<1> DEFINE k == FreshSocket(dom, kind)
<1>1. k \in KernelSocket /\ k.st = "fresh" /\ ReportFits(k)
  BY FreshTyped
<1>2. /\ TypeOK /\ kernel[f].st = "closed"
      /\ kernel' = [kernel EXCEPT ![f] = k]
      /\ lost' = lost \cup {f} /\ heap' = heap + 1
      /\ UNCHANGED <<routers, binding, pending, proc, held>>
  BY DEF CreateSocketNoStream, LowestFree, FreshSocket, Sound, IInv
<1> HIDE DEF k
<1>3. TypeOK'
  BY <1>1, <1>2 DEF TypeOK
<1> QED BY <1>1, <1>2, <1>3, TokenAssumption, OpenDescriptor

\* bind-socket renames the router it found after the address the kernel bound.
LEMMA BindSocketSound ==
    ASSUME Sound, UNCHANGED manner, NEW f \in FD, NEW a \in Address, BindSocket(f, a)
    PROVE  Sound'
<1> DEFINE dom == kernel[f].dom
           k == Bound(kernel[f], a)
           n == NameOf(dom, a)
<1>1. PICK i \in DOMAIN routers :
         /\ FirstFd(i, f)
         /\ CanBind(f, a)
         /\ kernel' = [kernel EXCEPT ![f] = k]
         /\ binding' = [binding EXCEPT ![<<dom, a>>] = f]
         /\ routers' = [routers EXCEPT ![i].name = n]
         /\ held' = [held EXCEPT ![f] = n]
  BY DEF BindSocket, Renamed, Sound, IInv, TypeOK
<1>2. /\ TypeOK /\ kernel[f] \in KernelSocket /\ routers[i].fd = f
      /\ ReportFits(kernel[f])
      /\ routers[i].dom = IF kernel[f].via = "accept" THEN Unset ELSE dom
  BY <1>1 DEF Sound, IInv, TypeOK, FirstFd, DomainsMatch, ReportsFit
<1>3. /\ k \in KernelSocket /\ k.local = a /\ k.last = "bind"
      /\ k.dom = dom /\ k.via = kernel[f].via
      /\ k.st = IF kernel[f].st = "fresh" THEN "bound" ELSE kernel[f].st
  BY <1>2 DEF Bound, KernelSocket, SocketState
<1>4. k.st # "closed" /\ ReportFits(k)
  BY <1>1, <1>2, <1>3 DEF CanBind, ReportFits
<1>5. n \in LogicalName /\ n \in TrueNames(k)
  BY <1>3, NamesAreNames DEF AnyAddress, TrueNames
<1>6. UNCHANGED <<pending, lost, proc>> /\ heap' = heap + 1
  BY DEF BindSocket
<1>7. TypeOK'
  <2>1. routers' \in Seq(Router)
    BY <1>1, <1>2, <1>5, RenameRouter
  <2>2. binding' \in [Endpoint -> FD \cup {Unset}]
    BY <1>1, <1>2 DEF TypeOK, Endpoint
  <2>3. kernel' \in [FD -> KernelSocket]
    BY <1>1, <1>2, <1>3 DEF TypeOK
  <2>4. held' \in [FD -> LogicalName \cup {Unset, NotHeld}]
    BY <1>1, <1>2, <1>5 DEF TypeOK
  <2> HIDE DEF k, n
  <2> QED BY <1>2, <1>6, <2>1, <2>2, <2>3, <2>4 DEF TypeOK
<1> HIDE DEF k, n
<1> QED BY <1>1, <1>2, <1>3, <1>4, <1>5, <1>6, <1>7, RetitleDescriptor

\* connect renames the router it found after its argument: the peer of the
\* connection, unless that is one that an earlier connect began.
LEMMA ConnectSound ==
    ASSUME Sound, UNCHANGED manner, NEW f \in FD, NEW a \in Address, Connect(f, a)
    PROVE  Sound'
<1> DEFINE k == Joined(kernel[f], a)
<1>1. PICK i \in DOMAIN routers :
         /\ FirstFd(i, f)
         /\ routers[i].dom \in Domain
         /\ kernel' = [kernel EXCEPT ![f] = k]
         /\ routers' = [routers EXCEPT ![i].name = NameOf(routers[i].dom, a)]
         /\ held' = [held EXCEPT ![f] = NameOf(routers[i].dom, a)]
  BY DEF Connect, Renamed, Sound, IInv, TypeOK
<1> DEFINE n == NameOf(routers[i].dom, a)
<1>2. /\ TypeOK /\ kernel[f] \in KernelSocket /\ routers[i].fd = f
      /\ ReportFits(kernel[f]) /\ CanConnect(f)
      /\ kernel[f].via # "accept" /\ routers[i].dom = kernel[f].dom
  BY <1>1, TokenAssumption DEF Sound, IInv, TypeOK, FirstFd, DomainsMatch, ReportsFit, Connect
<1>3. /\ k \in KernelSocket /\ k.st = "connected" /\ k.last = "connect"
      /\ k.dom = kernel[f].dom /\ k.via # "accept"
      /\ k.via = "detached" \/ k.peer = a
  BY <1>2 DEF Joined, KernelSocket, SocketState, AnyAddress, ReportFits
<1>4. k.st # "closed" /\ ReportFits(k)
  BY <1>3 DEF ReportFits
<1>5. n \in LogicalName /\ n \in TrueNames(k)
  BY <1>2, <1>3, NamesAreNames DEF AnyAddress, TrueNames
<1>6. UNCHANGED <<binding, pending, lost, proc>> /\ heap' = heap + 1
  BY DEF Connect
<1>7. TypeOK'
  <2>1. routers' \in Seq(Router)
    BY <1>1, <1>2, <1>5, RenameRouter
  <2>3. kernel' \in [FD -> KernelSocket]
    BY <1>1, <1>2, <1>3 DEF TypeOK
  <2>4. held' \in [FD -> LogicalName \cup {Unset, NotHeld}]
    BY <1>1, <1>2, <1>5 DEF TypeOK
  <2> QED BY <1>2, <1>6, <2>1, <2>3, <2>4 DEF TypeOK
<1> HIDE DEF k, n
<1> QED BY <1>1, <1>2, <1>3, <1>4, <1>5, <1>6, <1>7, RetitleDescriptor DEF n

\* Both outcomes of an accept(2) that succeeds.
LEMMA AcceptedTyped ==
    ASSUME Sound, NEW g \in FD, kernel[g].st = "listening", pending[g] # << >>
    PROVE  LET k == AcceptedSocket(g) IN
           /\ k \in KernelSocket /\ k.st = "connected" /\ k.via = "accept"
           /\ k.last = "accept" /\ ReportFits(k)
           /\ k.dom = kernel[g].dom /\ k.peer = Head(pending[g])
           /\ Head(pending[g]) \in AnyAddress
           /\ [pending EXCEPT ![g] = Tail(@)] \in [FD -> Seq(AnyAddress)]
<1>1. kernel[g] \in KernelSocket /\ pending[g] \in Seq(AnyAddress)
  BY DEF Sound, IInv, TypeOK
<1>2. Head(pending[g]) \in AnyAddress /\ Tail(pending[g]) \in Seq(AnyAddress)
  BY <1>1, HeadTailProperties
<1>3. [pending EXCEPT ![g] = Tail(@)] \in [FD -> Seq(AnyAddress)]
  BY <1>2 DEF Sound, IInv, TypeOK
<1> DEFINE h == Head(pending[g])
<1>4. h \in AnyAddress /\ AcceptedSocket(g) =
        [ClosedSocket EXCEPT
            !.st = "connected", !.kind = kernel[g].kind, !.dom = kernel[g].dom,
            !.local = kernel[g].local, !.peer = h, !.via = "accept",
            !.last = "accept"]
  BY <1>2 DEF AcceptedSocket
<1> HIDE DEF h
<1>5. LET k == AcceptedSocket(g) IN
      /\ k \in KernelSocket /\ k.st = "connected" /\ k.via = "accept"
      /\ k.last = "accept" /\ ReportFits(k)
      /\ k.dom = kernel[g].dom /\ k.peer = h
  BY <1>1, <1>4 DEF ClosedSocket, KernelSocket, SocketState, ReportFits
<1> QED BY <1>2, <1>3, <1>5 DEF h

\* accept lists the new descriptor under its peer's name, without a domain.
LEMMA AcceptSound ==
    ASSUME Sound, UNCHANGED manner, NEW f \in FD, NEW c \in FD, Accept(f, c)
    PROVE  Sound'
<1>1. PICK i \in DOMAIN routers :
         LET g == routers[i].fd IN
         /\ kernel[g].st = "listening" /\ pending[g] # << >>
         /\ kernel' = [kernel EXCEPT ![c] = AcceptedSocket(g)]
         /\ pending' = [pending EXCEPT ![g] = Tail(@)]
         /\ routers' = <<[fd |-> c, dom |-> Unset,
                          name |-> PeerNameOf(routers[i].dom, Head(pending[g]))]>> \o routers
  BY DEF Accept, Pushed
<1> DEFINE g == routers[i].fd
           k == AcceptedSocket(g)
           n == PeerNameOf(routers[i].dom, Head(pending[g]))
           r == [fd |-> c, dom |-> Unset, name |-> n]
<1>2. TypeOK /\ g \in FD /\ kernel[c].st = "closed"
  BY RoutersTyped DEF Sound, IInv, Accept, LowestFree
<1>3. /\ k \in KernelSocket /\ k.st = "connected" /\ k.via = "accept"
      /\ k.last = "accept" /\ ReportFits(k)
      /\ k.dom = kernel[g].dom /\ k.peer = Head(pending[g])
      /\ Head(pending[g]) \in AnyAddress
      /\ pending' \in [FD -> Seq(AnyAddress)]
  BY <1>1, <1>2, AcceptedTyped
<1>4. routers[i].dom = kernel[g].dom
  BY <1>1, <1>2 DEF Sound, IInv, DomainsMatch, ReportsFit, ReportFits
<1>5. n \in LogicalName /\ n \in TrueNames(k)
  BY <1>3, <1>4, NamesAreNames DEF TrueNames
<1>6. /\ kernel' = [kernel EXCEPT ![c] = k]
      /\ routers' = <<r>> \o routers
      /\ held' = [held EXCEPT ![c] = Unset] /\ heap' = heap + 2
      /\ UNCHANGED <<binding, lost, proc>>
  BY <1>1 DEF Accept
<1> HIDE DEF k, n
<1>7. r \in Router /\ r.fd = c /\ Agrees(r, k)
  BY <1>3, <1>5 DEF Router, Agrees
<1> HIDE DEF r
<1>8. routers' \in Seq(Router)
  BY <1>2, <1>6, <1>7, PushRouter
<1>9. TypeOK'
  BY <1>2, <1>3, <1>6, <1>8 DEF TypeOK
<1> QED BY <1>2, <1>3, <1>6, <1>7, <1>9, OpenDescriptor

\* accept without a stream opens a descriptor the list never sees.
LEMMA AcceptNoStreamSound ==
    ASSUME Sound, UNCHANGED manner, NEW f \in FD, NEW c \in FD, AcceptNoStream(f, c)
    PROVE  Sound'
<1>1. PICK i \in DOMAIN routers :
         LET g == routers[i].fd IN
         /\ kernel[g].st = "listening" /\ pending[g] # << >>
         /\ kernel' = [kernel EXCEPT ![c] = AcceptedSocket(g)]
         /\ pending' = [pending EXCEPT ![g] = Tail(@)]
  BY DEF AcceptNoStream
<1> DEFINE g == routers[i].fd
           k == AcceptedSocket(g)
<1>2. TypeOK /\ g \in FD /\ kernel[c].st = "closed"
  BY RoutersTyped DEF Sound, IInv, AcceptNoStream, LowestFree
<1>3. /\ k \in KernelSocket /\ k.st = "connected" /\ ReportFits(k)
      /\ pending' \in [FD -> Seq(AnyAddress)]
  BY <1>1, <1>2, AcceptedTyped
<1>4. /\ kernel' = [kernel EXCEPT ![c] = k]
      /\ lost' = lost \cup {c}
      /\ UNCHANGED <<routers, binding, heap, proc, held>>
  BY <1>1 DEF AcceptNoStream
<1> HIDE DEF k
<1>5. TypeOK'
  BY <1>2, <1>3, <1>4 DEF TypeOK
<1> QED BY <1>2, <1>3, <1>4, <1>5, OpenDescriptor

\* Closing the i-th router leaves every variable well typed.
LEMMA ReleaseTyped ==
    ASSUME TypeOK, UNCHANGED manner, DescriptorsDistinct, NEW i \in DOMAIN routers, Release(i),
           held' \in [FD -> LogicalName \cup {Unset, NotHeld}]
    PROVE  TypeOK'
<1>1. routers' \in Seq(Router)
  BY UnlinkRouter DEF Release, Unlinked
<1>2. kernel' \in [FD -> KernelSocket]
  BY DEF Release, TypeOK, KernelSocket, ClosedSocket, SocketState
<1>3. pending' \in [FD -> Seq(AnyAddress)]
  <2>1. << >> \in Seq(AnyAddress)
    OBVIOUS
  <2> QED BY <2>1 DEF Release, TypeOK
<1>4. binding' \in [Endpoint -> FD \cup {Unset}] /\ lost' \subseteq FD
  BY DEF Release, GivenBack, TypeOK
<1>5. heap' \in Int /\ proc' \in {"running", "poisoned", "exited"} \cup Fault
  BY DEF Release, GivenBack, TypeOK
<1> QED BY <1>1, <1>2, <1>3, <1>4, <1>5 DEF TypeOK

\* close-connection closes and unlinks the same router.
LEMMA CloseConnectionSound ==
    ASSUME Sound, UNCHANGED manner, NEW f \in FD,
           CloseFileDescriptorConnection(f) \/ CloseNamedConnection(f)
    PROVE  Sound'
<1>1. PICK i \in DOMAIN routers : Release(i)
  BY DEF CloseFileDescriptorConnection, CloseNamedConnection
<1>2. held' \in [FD -> LogicalName \cup {Unset, NotHeld}]
  BY DEF CloseFileDescriptorConnection, CloseNamedConnection, Sound, IInv, TypeOK
<1>3. TypeOK'
  BY <1>1, <1>2, ReleaseTyped DEF Sound, IInv
<1> QED BY <1>1, <1>3, CloseDescriptor

\* CloseAllSockets empties the list and closes what was on it.
LEMMA CloseAllSocketsSound ==
    ASSUME Sound, UNCHANGED manner, CloseAllSockets
    PROVE  Sound'
<1>1. /\ routers' = << >> /\ DOMAIN routers' = {} /\ Listed' = {}
      /\ UNCHANGED lost
      /\ \A f \in FD : kernel'[f] = IF f \in Listed THEN ClosedSocket ELSE kernel[f]
  BY DEF CloseAllSockets, Listed
<1>2. Len(routers) \in Int
  BY LenProperties DEF Sound, IInv, TypeOK
<1>3. NamedCount \in Int
  <2>1. IsFiniteSet(1..Len(routers)) /\ DOMAIN routers = 1..Len(routers)
    BY FS_Interval, LenProperties DEF Sound, IInv, TypeOK
  <2>2. IsFiniteSet({i \in DOMAIN routers : routers[i].name # Unset})
    BY <2>1, FS_Subset
  <2> QED BY <2>2, FS_CardinalityType DEF NamedCount
<1>4. TypeOK'
  <2>1. routers' \in Seq(Router) /\ << >> \in Seq(AnyAddress)
    BY <1>1
  <2>2. kernel' \in [FD -> KernelSocket]
    BY DEF CloseAllSockets, Sound, IInv, TypeOK, KernelSocket, ClosedSocket, SocketState
  <2>3. binding' \in [Endpoint -> FD \cup {Unset}] /\ pending' \in [FD -> Seq(AnyAddress)]
    BY <2>1 DEF CloseAllSockets, Sound, IInv, TypeOK
  <2>4. heap' \in Int
    BY <1>2, <1>3 DEF CloseAllSockets, Sound, IInv, TypeOK
  <2>5. held' \in [FD -> LogicalName \cup {Unset, NotHeld}] /\ lost' \subseteq FD
        /\ proc' = "exited" /\ manner' \in Manner
    BY DEF CloseAllSockets, Sound, IInv, TypeOK
  <2> QED BY <2>1, <2>2, <2>3, <2>4, <2>5 DEF TypeOK
<1>5. DescriptorsDistinct' /\ NamesTellTheTruth' /\ DomainsMatch'
  BY <1>1 DEF DescriptorsDistinct, NamesTellTheTruth, DomainsMatch
<1>6. ReportsFit'
  BY <1>1, ClosedFits DEF Sound, IInv, ReportsFit
<1>7. OpenMeansListed'
  <2>1. ClosedSocket.st = "closed"
    BY DEF ClosedSocket
  <2> QED BY <1>1, <2>1 DEF Sound, IInv, OpenMeansListed
<1> QED BY <1>4, <1>5, <1>6, <1>7 DEF Sound, IInv

\* Steps that change one open socket's state without naming it.
LEMMA KernelOnly ==
    ASSUME Sound, UNCHANGED manner, NEW g \in FD, NEW k \in KernelSocket,
           kernel[g].st # "closed", k.st # "closed", ReportFits(k),
           k.via = "accept" <=> kernel[g].via = "accept",
           k.dom = kernel[g].dom, TrueNames(k) = TrueNames(kernel[g]),
           kernel' = [kernel EXCEPT ![g] = k],
           UNCHANGED <<routers, binding, pending, lost, heap, proc, held>>
    PROVE  Sound'
<1>1. TypeOK'
  BY DEF Sound, IInv, TypeOK
<1>2. /\ \A f \in FD : kernel'[f] = IF f = g THEN k ELSE kernel[f]
      /\ \A i \in DOMAIN routers : routers[i].fd \in FD
  BY RoutersTyped DEF Sound, IInv, TypeOK
<1>3. \A i \in DOMAIN routers : Agrees(routers[i], kernel'[routers[i].fd])
  BY <1>2 DEF Sound, IInv, DomainsMatch, NamesTellTheTruth, Agrees
<1>4. \A f \in FD : ReportFits(kernel'[f])
  BY <1>2 DEF Sound, IInv, ReportsFit
<1> QED BY <1>1, <1>2, <1>3, <1>4, KeepList

\* listen leaves the address, hence the name, alone.
LEMMA ListenSound ==
    ASSUME Sound, UNCHANGED manner, NEW f \in FD, Listen(f)
    PROVE  Sound'
<1>1. PICK i \in DOMAIN routers :
         LET g == routers[i].fd IN
         /\ kernel[g].st \in {"bound", "fresh"}
         /\ kernel' = [kernel EXCEPT ![g].st = "listening"]
  BY DEF Listen
<1> DEFINE g == routers[i].fd
           k == [kernel[g] EXCEPT !.st = "listening"]
<1>2. g \in FD /\ kernel[g] \in KernelSocket /\ ReportFits(kernel[g])
  BY <1>1, RoutersTyped DEF Sound, IInv, ReportsFit
<1>3. /\ k \in KernelSocket /\ k.st = "listening"
      /\ k.local = kernel[g].local /\ k.peer = kernel[g].peer /\ k.last = kernel[g].last
      /\ k.via = kernel[g].via /\ k.dom = kernel[g].dom
  BY <1>2 DEF KernelSocket, SocketState
<1>4. TrueNames(k) = TrueNames(kernel[g]) /\ ReportFits(k)
  BY <1>1, <1>2, <1>3 DEF TrueNames, ReportFits
<1>5. /\ kernel' = [kernel EXCEPT ![g] = k]
      /\ UNCHANGED <<routers, binding, pending, lost, heap, proc, held>>
  BY <1>1 DEF Listen
<1> HIDE DEF g, k
<1> QED BY <1>1, <1>2, <1>3, <1>4, <1>5, KernelOnly DEF g

\* A connect that goes on in the kernel has not named its peer.
LEMMA ConnectDetachedSound ==
    ASSUME Sound, UNCHANGED manner, NEW f \in FD, NEW a \in Address, ConnectDetached(f, a)
    PROVE  Sound'
<1> DEFINE k == [kernel[f] EXCEPT !.st = "connecting", !.peer = a, !.via = "detached"]
<1>1. /\ kernel[f] \in KernelSocket /\ kernel[f].st \in {"fresh", "bound"}
      /\ ReportFits(kernel[f])
  BY DEF ConnectDetached, Sound, IInv, TypeOK, ReportsFit
<1>2. /\ k \in KernelSocket /\ k.st = "connecting"
      /\ k.local = kernel[f].local /\ k.last = kernel[f].last
      /\ k.via = "detached" /\ k.dom = kernel[f].dom
  BY <1>1 DEF KernelSocket, SocketState, AnyAddress
<1>3. TrueNames(k) = TrueNames(kernel[f]) /\ ReportFits(k) /\ kernel[f].via # "accept"
  BY <1>1, <1>2, TokenAssumption DEF TrueNames, ReportFits
<1>4. /\ kernel' = [kernel EXCEPT ![f] = k]
      /\ UNCHANGED <<routers, binding, pending, lost, heap, proc, held>>
  BY DEF ConnectDetached, Sound, IInv, TypeOK
<1> HIDE DEF k
<1> QED BY <1>1, <1>2, <1>3, <1>4, KernelOnly

\* Nor does the kernel name one when it completes, gives up, or resets a
\* connection.
LEMMA AsynchronousSound ==
    ASSUME Sound, UNCHANGED manner, NEW f \in FD,
           Establish(f) \/ Refused(f) \/ Reset(f)
    PROVE  Sound'
<1>1. /\ kernel[f] \in KernelSocket /\ ReportFits(kernel[f])
      /\ kernel[f].st \in {"connecting", "established", "connected"}
      /\ UNCHANGED <<routers, binding, pending, lost, heap, proc, held>>
  BY DEF Establish, Refused, Reset, Sound, IInv, TypeOK, ReportsFit
<1>2. CASE Establish(f)
  <2> DEFINE k == [kernel[f] EXCEPT !.st = "established"]
  <2>1. /\ k \in KernelSocket /\ k.st = "established"
        /\ k.local = kernel[f].local /\ k.peer = kernel[f].peer /\ k.last = kernel[f].last
        /\ k.via = kernel[f].via /\ k.dom = kernel[f].dom
    BY <1>1 DEF KernelSocket, SocketState
  <2>2. TrueNames(k) = TrueNames(kernel[f]) /\ ReportFits(k)
    BY <1>1, <1>2, <2>1 DEF TrueNames, ReportFits, Establish
  <2>3. kernel' = [kernel EXCEPT ![f] = k]
    BY <1>2 DEF Establish
  <2> HIDE DEF k
  <2> QED BY <1>1, <2>1, <2>2, <2>3, KernelOnly
<1>3. CASE Refused(f)
  <2> DEFINE s == IF kernel[f].local = Unset THEN "fresh" ELSE "bound"
             k == [kernel[f] EXCEPT !.st = s, !.peer = Unset, !.via = Unset]
  <2>1. /\ k \in KernelSocket /\ k.st \in {"fresh", "bound"}
        /\ k.local = kernel[f].local /\ k.last = kernel[f].last
        /\ k.via = Unset /\ k.dom = kernel[f].dom
    BY <1>1 DEF KernelSocket, SocketState
  <2>2. TrueNames(k) = TrueNames(kernel[f]) /\ ReportFits(k) /\ kernel[f].via # "accept"
    BY <1>1, <1>3, <2>1, TokenAssumption DEF TrueNames, ReportFits, Refused
  <2>3. kernel' = [kernel EXCEPT ![f] = k]
    BY <1>1, <1>3 DEF Refused, Sound, IInv, TypeOK
  <2> HIDE DEF k
  <2> QED BY <1>1, <2>1, <2>2, <2>3, TokenAssumption, KernelOnly
<1>4. CASE Reset(f)
  <2> DEFINE a == IF kernel[f].via = "accept" THEN Unset ELSE kernel[f].local
             k == [kernel[f] EXCEPT !.st = "reset", !.local = a]
  <2>1. /\ k \in KernelSocket /\ k.st = "reset"
        /\ k.local = a /\ k.peer = kernel[f].peer /\ k.last = kernel[f].last
        /\ k.via = kernel[f].via /\ k.dom = kernel[f].dom
    BY <1>1 DEF KernelSocket, SocketState
  <2>2. TrueNames(k) = TrueNames(kernel[f]) /\ ReportFits(k)
    BY <1>1, <1>4, <2>1 DEF TrueNames, ReportFits, Reset
  <2>3. kernel' = [kernel EXCEPT ![f] = k]
    BY <1>1, <1>4 DEF Reset, Sound, IInv, TypeOK
  <2> HIDE DEF k
  <2> QED BY <1>1, <2>1, <2>2, <2>3, KernelOnly
<1> QED BY <1>2, <1>3, <1>4

\* Every other step leaves the list, the descriptors and lost as they are.
LEMMA ElsewhereSound ==
    ASSUME Sound, TypeOK', UNCHANGED <<routers, kernel, lost>>
    PROVE  Sound'
<1>1. \A i \in DOMAIN routers : Agrees(routers[i], kernel[routers[i].fd])
  BY DEF Sound, IInv, DomainsMatch, NamesTellTheTruth, Agrees
<1>2. \A f \in FD : ReportFits(kernel[f])
  BY DEF Sound, IInv, ReportsFit
<1> QED BY <1>1, <1>2, KeepList

\* bind-socket and connect, on every path, keep the invariant.
LEMMA AttachSound == Sound /\ Attach /\ UNCHANGED manner => Sound'
<1> SUFFICES ASSUME Sound, UNCHANGED manner, NEW f \in FD, NEW a \in Address,
                    \/ BindSocket(f, a) \/ BindSocketFails(f, a)
                    \/ Connect(f, a) \/ ConnectDetached(f, a)
             PROVE  Sound'
  BY DEF Attach
<1>1. CASE BindSocketFails(f, a)
  <2>1. TypeOK'
    BY <1>1 DEF Sound, IInv, TypeOK, BindSocketFails, Endpoint
  <2> QED BY <1>1, <2>1, ElsewhereSound DEF BindSocketFails
<1> QED BY <1>1, BindSocketSound, ConnectSound, ConnectDetachedSound

\* A fault stops the program and changes nothing else.
LEMMA DieSound == Sound /\ (\E c \in Fault : Die(c)) /\ UNCHANGED manner => Sound'
<1> SUFFICES ASSUME Sound, UNCHANGED manner, NEW c \in Fault, Die(c) PROVE Sound'
  OBVIOUS
<1>1. TypeOK'
  BY DEF Sound, IInv, TypeOK, Die
<1> QED BY <1>1, ElsewhereSound DEF Die

\* So do listen, accept and get-socket-logical-name, on every path.
LEMMA ServeSound == Sound /\ Serve /\ UNCHANGED manner => Sound'
<1> SUFFICES ASSUME Sound, UNCHANGED manner, NEW f \in FD,
                    \/ BindSocketUnknown(f) \/ ConnectUnknown(f)
                    \/ GetSocketLogicalName(f) \/ GetSocketLogicalNameUnknown(f)
                    \/ Listen(f) \/ AcceptFails(f)
                    \/ \E c \in FD : Accept(f, c) \/ AcceptNoStream(f, c)
             PROVE  Sound'
  BY DEF Serve
<1>1. CASE BindSocketUnknown(f) \/ GetSocketLogicalNameUnknown(f)
  BY <1>1, DieSound DEF BindSocketUnknown, GetSocketLogicalNameUnknown, Fault
<1>2. CASE ConnectUnknown(f) \/ AcceptFails(f)
  <2>1. TypeOK'
    BY <1>2 DEF Sound, IInv, TypeOK, ConnectUnknown, AcceptFails
  <2> QED BY <1>2, <2>1, ElsewhereSound DEF ConnectUnknown, AcceptFails
<1>3. CASE GetSocketLogicalName(f)
  <2>1. PICK i \in DOMAIN routers : held' = [held EXCEPT ![f] = routers[i].name]
    BY <1>3 DEF GetSocketLogicalName
  <2>2. routers[i].name \in LogicalName \cup {Unset}
    BY RoutersTyped DEF Sound, IInv, Router
  <2>3. TypeOK'
    BY <1>3, <2>1, <2>2 DEF Sound, IInv, TypeOK, GetSocketLogicalName
  <2> QED BY <1>3, <2>3, ElsewhereSound DEF GetSocketLogicalName
<1> QED BY <1>1, <1>2, <1>3, ListenSound, AcceptSound, AcceptNoStreamSound

\* So do close-connection and exit.
LEMMA CloseSound == Sound /\ Close /\ UNCHANGED manner => Sound'
<1> SUFFICES ASSUME Sound, UNCHANGED manner, Close PROVE Sound'
  OBVIOUS
<1>1. CASE \E f \in FD : CloseFaults(f)
  BY <1>1, DieSound DEF CloseFaults, Fault
<1>2. CASE \E f \in FD : CloseFileDescriptorConnection(f) \/ CloseNamedConnection(f)
  BY <1>2, CloseConnectionSound
<1> QED BY <1>1, <1>2, CloseAllSocketsSound DEF Close

\* So do the steps of the kernel and the network.
LEMMA KernelSound == Sound /\ Kernel /\ UNCHANGED manner => Sound'
<1> SUFFICES ASSUME Sound, UNCHANGED manner, Kernel PROVE Sound'
  OBVIOUS
<1>1. CASE \E e \in Endpoint, p \in AnyAddress : Arrive(e, p)
  <2>1. PICK e \in Endpoint, p \in AnyAddress : Arrive(e, p)
    BY <1>1
  <2>2. /\ binding[e] \in FD
        /\ pending' = [pending EXCEPT ![binding[e]] = Append(@, p)]
        /\ UNCHANGED <<routers, kernel, binding, lost, heap, proc, held>>
    BY <2>1 DEF Arrive
  <2>3. Append(pending[binding[e]], p) \in Seq(AnyAddress)
    BY <2>2 DEF Sound, IInv, TypeOK
  <2>4. TypeOK'
    BY <2>2, <2>3 DEF Sound, IInv, TypeOK
  <2> QED BY <2>2, <2>4, ElsewhereSound
<1> QED BY <1>1, AsynchronousSound DEF Kernel

\* The invariant is inductive.
LEMMA NextSound == Sound /\ [Next]_vars => Sound'
<1> SUFFICES ASSUME Sound, [Next]_vars PROVE Sound'
  OBVIOUS
<1>0. UNCHANGED manner
  BY DEF Next, vars
<1>1. CASE Create
  BY <1>0, <1>1, CreateSocketSound, CreateSocketNoStreamSound DEF Create
<1>2. CASE LookupFaults \/ PoisonFaults
  BY <1>0, <1>2, DieSound DEF LookupFaults, PoisonFaults, Fault
<1>3. CASE Stopped \/ UNCHANGED vars
  <2>1. TypeOK'
    BY <1>3 DEF Sound, IInv, TypeOK, Stopped, vars
  <2> QED BY <1>3, <2>1, ElsewhereSound DEF Stopped, vars
<1> QED BY <1>0, <1>1, <1>2, <1>3, AttachSound, ServeSound, CloseSound, KernelSound DEF Next

-----------------------------------------------------------------------------
(* The results.                                                            *)

LEMMA SoundAlways == Spec => []Sound
<1> QED BY InitSound, NextSound, PTL DEF Spec

\* Every state of every run satisfies the invariant.
THEOREM Invariance == Spec => []IInv
<1>1. Sound => IInv
  BY DEF Sound
<1> QED BY <1>1, SoundAlways, PTL

\* The state of every run is well typed (src/src/socketrtr.h).
THEOREM TypeCorrect == Spec => []TypeOK
<1>1. Sound => TypeOK
  BY DEF Sound, IInv
<1> QED BY <1>1, SoundAlways, PTL

\* At most one structure per descriptor, in every run: the walk of
\* FileDescriptorToSocketRouter has one answer, whatever was reused.
THEOREM OneRouterPerDescriptor == Spec => []DescriptorsDistinct
<1>1. Sound => DescriptorsDistinct
  BY DEF Sound, IInv
<1> QED BY <1>1, SoundAlways, PTL

\* No use after close and no socket off the list except those fdopen failed on.
THEOREM ListMatchesKernel == Spec => []OpenMeansListed
<1>1. Sound => OpenMeansListed
  BY DEF Sound, IInv
<1> QED BY <1>1, SoundAlways, PTL

\* A logical name always spells the address that the last successful call on its
\* socket gave it, or the argument of the connect that reported an earlier one's
\* end (socketrtr.c:1433).
THEOREM NamesAreTrue == Spec => []NamesTellTheTruth
<1>1. Sound => NamesTellTheTruth
  BY DEF Sound, IInv
<1> QED BY <1>1, SoundAlways, PTL

\* The family a router records is its socket's, and only accepted routers record
\* none, so bind-socket and connect never lay a name out for another family.
THEOREM FamiliesAgree == Spec => []DomainsMatch
<1>1. Sound => DomainsMatch
  BY DEF Sound, IInv
<1> QED BY <1>1, SoundAlways, PTL

-----------------------------------------------------------------------------
(* Scripts that close by descriptor.                                       *)

\* bind-socket and connect rename the router of their descriptor in front of the
\* script.
LEMMA AttachRenames ==
    ASSUME NEW f \in FD, NEW a \in Address, BindSocket(f, a) \/ Connect(f, a)
    PROVE  \E i \in DOMAIN routers, n \in LogicalName :
             /\ routers[i].fd = f
             /\ routers' = [routers EXCEPT ![i].name = n]
             /\ held' = [held EXCEPT ![f] = n]
<1>1. \A d : NameOf(d, a) \in LogicalName
  BY NamesAreNames DEF AnyAddress
<1>2. CASE BindSocket(f, a)
  BY <1>1, <1>2 DEF BindSocket, Renamed, FirstFd
<1>3. CASE Connect(f, a)
  BY <1>1, <1>3 DEF Connect, Renamed, FirstFd
<1> QED BY <1>2, <1>3

\* One step of a script that closes by descriptor keeps every handle on the list.
LEMMA HandlesStep ==
    ASSUME Sound, HandlesStayOpen, [Next]_vars, "name" \notin manner
    PROVE  HandlesStayOpen'
<1>1. CASE UNCHANGED <<routers, held>>
  BY <1>1 DEF HandlesStayOpen, Handles, Listed
<1>2. ASSUME NEW f \in FD, NEW d \in Domain, NEW k \in Kind, CreateSocket(f, d, k)
      PROVE  HandlesStayOpen'
  <2> DEFINE r == [fd |-> f, dom |-> d, name |-> Unset]
  <2>1. r \in Router /\ r.fd = f /\ routers' = <<r>> \o routers
    BY <1>2 DEF Router, CreateSocket, Pushed
  <2> HIDE DEF r
  <2>2. Listed' = Listed \cup {f}
    BY <2>1, PushRouter DEF Sound, IInv
  <2>3. held' = [held EXCEPT ![f] = Unset]
    BY <1>2 DEF CreateSocket
  <2> QED BY <2>2, <2>3 DEF HandlesStayOpen, Handles, Sound, IInv, TypeOK
<1>3. ASSUME NEW f \in FD, NEW c \in FD, Accept(f, c)
      PROVE  HandlesStayOpen'
  <2>1. PICK i \in DOMAIN routers :
           LET g == routers[i].fd IN
           /\ kernel[g].st = "listening" /\ pending[g] # << >>
           /\ routers' = <<[fd |-> c, dom |-> Unset,
                            name |-> PeerNameOf(routers[i].dom, Head(pending[g]))]>> \o routers
    BY <1>3 DEF Accept, Pushed
  <2> DEFINE n == PeerNameOf(routers[i].dom, Head(pending[routers[i].fd]))
             r == [fd |-> c, dom |-> Unset, name |-> n]
  <2>2. n \in LogicalName
    BY <2>1, RoutersTyped, AcceptedTyped, NamesAreNames DEF Sound, IInv
  <2>3. r.fd = c /\ routers' = <<r>> \o routers
    BY <2>1
  <2> HIDE DEF n
  <2>4. r \in Router
    BY <2>2 DEF Router
  <2> HIDE DEF r
  <2>5. Listed' = Listed \cup {c}
    BY <2>3, <2>4, PushRouter DEF Sound, IInv
  <2>6. held' = [held EXCEPT ![c] = Unset]
    BY <1>3 DEF Accept
  <2> QED BY <2>5, <2>6 DEF HandlesStayOpen, Handles, Sound, IInv, TypeOK
<1>4. ASSUME NEW f \in FD, NEW a \in Address, BindSocket(f, a) \/ Connect(f, a)
      PROVE  HandlesStayOpen'
  <2>1. f \in Handles
    BY <1>4 DEF BindSocket, Connect
  <2>2. PICK i \in DOMAIN routers, n \in LogicalName :
          /\ routers' = [routers EXCEPT ![i].name = n]
          /\ held' = [held EXCEPT ![f] = n]
    BY <1>4, AttachRenames
  <2>4. Listed' = Listed
    BY <2>2, RenameRouter DEF Sound, IInv
  <2> QED BY <2>1, <2>2, <2>4 DEF HandlesStayOpen, Handles, Sound, IInv, TypeOK
<1>5. ASSUME NEW f \in FD, CloseFileDescriptorConnection(f)
      PROVE  HandlesStayOpen'
  <2>1. PICK i \in DOMAIN routers : routers[i].fd = f /\ routers' = RemoveAt(routers, i)
    BY <1>5 DEF CloseFileDescriptorConnection, FirstFd, Release, Unlinked
  <2>2. Listed' = Listed \ {f}
    BY <2>1, UnlinkRouter DEF Sound, IInv
  <2>3. held' = [held EXCEPT ![f] = NotHeld]
    BY <1>5 DEF CloseFileDescriptorConnection
  <2> QED BY <2>2, <2>3 DEF HandlesStayOpen, Handles, Sound, IInv, TypeOK
<1>6. CASE CloseAllSockets
  BY <1>6 DEF CloseAllSockets, HandlesStayOpen, Handles
<1>7. ASSUME NEW f \in FD, GetSocketLogicalName(f)
      PROVE  HandlesStayOpen'
  <2>1. PICK i \in DOMAIN routers : held' = [held EXCEPT ![f] = routers[i].name]
    BY <1>7 DEF GetSocketLogicalName
  <2>2. f \in Handles /\ Listed' = Listed
    BY <1>7 DEF GetSocketLogicalName, Listed
  <2> QED BY <2>1, <2>2 DEF HandlesStayOpen, Handles, Sound, IInv, TypeOK
<1>8. ASSUME NEW f \in FD, CloseNamedConnection(f)
      PROVE  FALSE
  BY <1>8 DEF CloseNamedConnection
<1>9. CASE Create
  BY <1>1, <1>2, <1>9 DEF Create, CreateSocketNoStream
<1>10. CASE Attach
  BY <1>1, <1>4, <1>10 DEF Attach, BindSocketFails, ConnectDetached
<1>11. CASE Serve
  BY <1>1, <1>3, <1>7, <1>11 DEF Serve, BindSocketUnknown, ConnectUnknown,
     GetSocketLogicalNameUnknown, Listen, AcceptFails, AcceptNoStream, Die
<1>12. CASE Close
  BY <1>1, <1>5, <1>6, <1>8, <1>12 DEF Close, CloseFaults, Die
<1>13. CASE Kernel \/ LookupFaults \/ PoisonFaults \/ Stopped \/ UNCHANGED vars
  BY <1>1, <1>13 DEF Kernel, Arrive, Establish, Refused, Reset, LookupFaults,
     PoisonFaults, Die, Stopped, vars
<1> QED BY <1>9, <1>10, <1>11, <1>12, <1>13 DEF Next

\* A script that closes by descriptor never has a socket closed under it, so
\* bind-socket and get-socket-logical-name on its handles always find a router
\* (they do not check for one).
THEOREM DescriptorDiscipline == Spec => []HandlesStayOpen
<1>1. Init => HandlesStayOpen
  BY DEF Init, HandlesStayOpen, Handles
<1>2. Sound /\ HandlesStayOpen /\ [Next]_vars => HandlesStayOpen'
  <2>1. [Next]_vars => UNCHANGED manner
    BY DEF Next, vars
  <2>2. CASE "name" \in manner
    BY <2>1, <2>2 DEF HandlesStayOpen
  <2> QED BY <2>2, HandlesStep
<1> QED BY <1>1, <1>2, SoundAlways, PTL DEF Spec
-----------------------------------------------------------------------------
(* The list as a directory: what is listed, and the title of each.         *)

\* Distinct descriptors make the title of a listed one the name of its router.
LEMMA TitleOfRouter ==
    ASSUME DescriptorsDistinct, NEW i \in DOMAIN routers
    PROVE  routers[i].fd \in Listed /\ titleOf[routers[i].fd] = routers[i].name
<1>1. routers[i].fd \in Listed
  BY DEF Listed
<1>2. (CHOOSE j \in DOMAIN routers : routers[j].fd = routers[i].fd) = i
  BY DEF DescriptorsDistinct
<1> QED BY <1>1, <1>2 DEF titleOf

LEMMA TitleOfRouterPrimed ==
    ASSUME DescriptorsDistinct', NEW i \in DOMAIN routers'
    PROVE  routers'[i].fd \in Listed' /\ titleOf'[routers'[i].fd] = routers'[i].name
<1>1. routers'[i].fd \in Listed'
  BY DEF Listed
<1>2. (CHOOSE j \in DOMAIN routers' : routers'[j].fd = routers'[i].fd) = i
  BY DEF DescriptorsDistinct
<1> QED BY <1>1, <1>2 DEF titleOf

\* The edits of the directory.
Kept == Listed' = Listed /\ titleOf' = titleOf

Opened(f, t) ==
    /\ f \in FD \ Listed
    /\ Listed' = Listed \cup {f}
    /\ titleOf' = [x \in Listed \cup {f} |-> IF x = f THEN t ELSE titleOf[x]]

Retitled(f, t) ==
    /\ f \in FD \cap Listed
    /\ Listed' = Listed
    /\ titleOf' = [titleOf EXCEPT ![f] = t]

Closed(f) ==
    /\ f \in FD \cap Listed
    /\ Listed' = Listed \ {f}
    /\ titleOf' = [x \in Listed \ {f} |-> titleOf[x]]

\* titleOf is known by its domain and its values on the list.
LEMMA TitlesPrimed ==
    ASSUME DescriptorsDistinct', NEW L, NEW T,
           Listed' = L, T = [x \in L |-> T[x]],
           \A j \in DOMAIN routers' : T[routers'[j].fd] = routers'[j].name
    PROVE  titleOf' = T
<1>1. ASSUME NEW x \in L
      PROVE  titleOf'[x] = T[x]
  <2>1. PICK j \in DOMAIN routers' : x = routers'[j].fd
    BY DEF Listed
  <2> QED BY <2>1, TitleOfRouterPrimed
<1>2. titleOf' = [x \in L |-> titleOf'[x]]
  BY DEF titleOf
<1> QED BY <1>1, <1>2

LEMMA OpenedByPush ==
    ASSUME Sound, Sound', NEW r \in Router, kernel[r.fd].st = "closed",
           routers' = <<r>> \o routers
    PROVE  Opened(r.fd, r.name)
<1>1. r.fd \in FD /\ r.fd \notin Listed
  BY DEF Sound, IInv, OpenMeansListed, Router
<1>2. /\ \A j \in DOMAIN routers' :
           routers'[j] = r \/ \E k \in DOMAIN routers : routers'[j] = routers[k]
      /\ Listed' = Listed \cup {r.fd}
  BY PushRouter DEF Sound, IInv
<1> DEFINE T == [x \in Listed \cup {r.fd} |-> IF x = r.fd THEN r.name ELSE titleOf[x]]
<1>3. ASSUME NEW j \in DOMAIN routers'
      PROVE  T[routers'[j].fd] = routers'[j].name
  <2>1. CASE routers'[j] = r
    BY <2>1
  <2>2. ASSUME NEW k \in DOMAIN routers, routers'[j] = routers[k]
        PROVE  T[routers'[j].fd] = routers'[j].name
    <3>1. routers[k].fd \in Listed /\ titleOf[routers[k].fd] = routers[k].name
      BY TitleOfRouter DEF Sound, IInv
    <3> QED BY <1>1, <2>2, <3>1
  <2> QED BY <1>2, <2>1, <2>2
<1>4. T = [x \in Listed \cup {r.fd} |-> T[x]]
  OBVIOUS
<1> HIDE DEF T
<1>5. titleOf' = T
  BY <1>2, <1>3, <1>4, TitlesPrimed DEF Sound, IInv
<1> QED BY <1>1, <1>2, <1>5 DEF Opened, T

LEMMA RetitledByRename ==
    ASSUME Sound, Sound', NEW i \in DOMAIN routers, NEW n \in LogicalName,
           routers' = [routers EXCEPT ![i].name = n]
    PROVE  Retitled(routers[i].fd, n)
<1> DEFINE f == routers[i].fd
<1>1. f \in FD /\ f \in Listed
  BY RoutersTyped, TitleOfRouter DEF Sound, IInv
<1>2. /\ DOMAIN routers' = DOMAIN routers /\ Listed' = Listed
      /\ \A j \in DOMAIN routers :
           /\ routers'[j].fd = routers[j].fd
           /\ routers'[j].name = IF j = i THEN n ELSE routers[j].name
  BY RenameRouter DEF Sound, IInv
<1> DEFINE T == [titleOf EXCEPT ![f] = n]
<1>3. titleOf = [x \in Listed |-> titleOf[x]]
  BY DEF titleOf
<1>4. \A x \in Listed : T[x] = IF x = f THEN n ELSE titleOf[x]
  BY <1>3
<1>5. T = [x \in Listed |-> T[x]]
  BY <1>3
<1> HIDE DEF T
<1>6. ASSUME NEW j \in DOMAIN routers'
      PROVE  T[routers'[j].fd] = routers'[j].name
  <2>1. j \in DOMAIN routers /\ routers'[j].fd = routers[j].fd
    BY <1>2
  <2>2. routers[j].fd \in Listed /\ titleOf[routers[j].fd] = routers[j].name
    BY <2>1, TitleOfRouter DEF Sound, IInv
  <2>3. routers[j].fd = f <=> j = i
    BY <2>1 DEF Sound, IInv, DescriptorsDistinct
  <2> QED BY <1>2, <1>4, <2>1, <2>2, <2>3
<1>7. titleOf' = T
  BY <1>2, <1>5, <1>6, TitlesPrimed DEF Sound, IInv
<1> QED BY <1>1, <1>2, <1>7 DEF Retitled, T

LEMMA ClosedByUnlink ==
    ASSUME Sound, Sound', NEW i \in DOMAIN routers, routers' = RemoveAt(routers, i)
    PROVE  Closed(routers[i].fd)
<1> DEFINE f == routers[i].fd
<1>1. f \in FD /\ f \in Listed
  BY RoutersTyped, TitleOfRouter DEF Sound, IInv
<1>2. /\ \A j \in DOMAIN routers' :
           \E k \in DOMAIN routers \ {i} : routers'[j] = routers[k]
      /\ Listed' = Listed \ {f}
  BY UnlinkRouter DEF Sound, IInv
<1> DEFINE T == [x \in Listed \ {f} |-> titleOf[x]]
<1>3. ASSUME NEW j \in DOMAIN routers'
      PROVE  T[routers'[j].fd] = routers'[j].name
  <2>1. PICK k \in DOMAIN routers \ {i} : routers'[j] = routers[k]
    BY <1>2
  <2>2. routers[k].fd \in Listed /\ titleOf[routers[k].fd] = routers[k].name
    BY TitleOfRouter DEF Sound, IInv
  <2>3. routers[k].fd # f
    BY DEF Sound, IInv, DescriptorsDistinct
  <2> QED BY <2>1, <2>2, <2>3
<1>4. T = [x \in Listed \ {f} |-> T[x]]
  OBVIOUS
<1> HIDE DEF T
<1>5. titleOf' = T
  BY <1>2, <1>3, <1>4, TitlesPrimed DEF Sound, IInv
<1> QED BY <1>1, <1>2, <1>5 DEF Closed, T

\* What a step does to the directory, to the script's names and to the heap.
ListStep ==
    \/ /\ \E f \in FD : Opened(f, Unset) /\ held' = [held EXCEPT ![f] = Unset]
       /\ Alive /\ heap' = heap + 1 /\ UNCHANGED proc
    \/ /\ \E f \in FD, n \in LogicalName :
            Opened(f, n) /\ held' = [held EXCEPT ![f] = Unset]
       /\ Alive /\ heap' = heap + 2 /\ UNCHANGED proc
    \/ /\ \E f \in FD, n \in LogicalName :
            Retitled(f, n) /\ held' = [held EXCEPT ![f] = n]
       /\ Alive /\ heap' = heap + 1 /\ UNCHANGED proc
    \/ /\ \E f \in FD, g \in FD :
            /\ Closed(g) /\ held' = [held EXCEPT ![f] = NotHeld]
            /\ heap' = heap - IF titleOf[g] = Unset THEN 1 ELSE 2
       /\ Alive /\ proc' \in {proc, "poisoned"}
    \/ /\ Listed' = {} /\ titleOf' = [x \in {} |-> Unset]
       /\ Alive /\ proc' = "exited"
    \/ /\ Kept /\ \E f \in Listed : held' = [held EXCEPT ![f] = titleOf[f]]
       /\ UNCHANGED <<heap, proc>>
    \/ /\ Kept /\ UNCHANGED held /\ heap' \in {heap, heap + 1}
       /\ proc' = proc \/ (Alive /\ proc' \in Fault)

LEMMA EveryStepIsListStep ==
    ASSUME Sound, [Next]_vars
    PROVE  ListStep
<1>0. Sound' /\ TypeOK
  BY NextSound DEF Sound, IInv
<1>1. ASSUME UNCHANGED <<routers, held>>, heap' \in {heap, heap + 1},
             proc' = proc \/ (Alive /\ proc' \in Fault)
      PROVE  ListStep
  <2>1. Kept
    BY <1>1 DEF Kept, Listed, titleOf
  <2> QED BY <1>1, <2>1 DEF ListStep
<1>2. ASSUME NEW f \in FD, NEW d \in Domain, NEW k \in Kind, CreateSocket(f, d, k)
      PROVE  ListStep
  <2> DEFINE r == [fd |-> f, dom |-> d, name |-> Unset]
  <2>1. r \in Router /\ r.fd = f /\ r.name = Unset /\ routers' = <<r>> \o routers
    BY <1>2 DEF Router, CreateSocket, Pushed
  <2>2. kernel[f].st = "closed"
    BY <1>2 DEF CreateSocket, LowestFree
  <2> HIDE DEF r
  <2>3. Opened(f, Unset)
    BY <1>0, <2>1, <2>2, OpenedByPush
  <2> QED BY <1>2, <2>3 DEF CreateSocket, ListStep
<1>3. ASSUME NEW f \in FD, NEW c \in FD, Accept(f, c)
      PROVE  ListStep
  <2>1. PICK i \in DOMAIN routers :
           LET g == routers[i].fd IN
           /\ kernel[g].st = "listening" /\ pending[g] # << >>
           /\ routers' = <<[fd |-> c, dom |-> Unset,
                            name |-> PeerNameOf(routers[i].dom, Head(pending[g]))]>> \o routers
    BY <1>3 DEF Accept, Pushed
  <2> DEFINE n == PeerNameOf(routers[i].dom, Head(pending[routers[i].fd]))
             r == [fd |-> c, dom |-> Unset, name |-> n]
  <2>2. n \in LogicalName
    BY <1>0, <2>1, RoutersTyped, AcceptedTyped, NamesAreNames DEF Sound, IInv
  <2>3. r.fd = c /\ r.name = n /\ routers' = <<r>> \o routers
    BY <2>1
  <2> HIDE DEF n
  <2>4. r \in Router
    BY <2>2 DEF Router
  <2>5. kernel[c].st = "closed"
    BY <1>3 DEF Accept, LowestFree
  <2> HIDE DEF r
  <2>6. Opened(c, n)
    BY <1>0, <2>3, <2>4, <2>5, OpenedByPush
  <2> QED BY <1>3, <2>2, <2>6 DEF Accept, ListStep
<1>4. ASSUME NEW f \in FD, NEW a \in Address, BindSocket(f, a) \/ Connect(f, a)
      PROVE  ListStep
  <2>1. PICK i \in DOMAIN routers, n \in LogicalName :
          /\ routers[i].fd = f
          /\ routers' = [routers EXCEPT ![i].name = n]
          /\ held' = [held EXCEPT ![f] = n]
    BY <1>4, AttachRenames
  <2>2. Retitled(f, n)
    BY <1>0, <2>1, RetitledByRename
  <2>3. Alive /\ heap' = heap + 1 /\ UNCHANGED proc
    BY <1>4 DEF BindSocket, Connect
  <2> QED BY <2>1, <2>2, <2>3 DEF ListStep
<1>5. ASSUME NEW f \in FD, CloseFileDescriptorConnection(f) \/ CloseNamedConnection(f)
      PROVE  ListStep
  <2>1. PICK i \in DOMAIN routers : Release(i)
    BY <1>5 DEF CloseFileDescriptorConnection, CloseNamedConnection
  <2> DEFINE g == routers[i].fd
  <2>2. g \in FD /\ titleOf[g] = routers[i].name
    BY <1>0, RoutersTyped, TitleOfRouter DEF Sound, IInv
  <2>3. Closed(g)
    BY <1>0, <2>1, ClosedByUnlink DEF Release, Unlinked
  <2>4. heap' = heap - IF titleOf[g] = Unset THEN 1 ELSE 2
    BY <2>1, <2>2 DEF Release, GivenBack
  <2>5. proc' \in {proc, "poisoned"}
    BY <2>1 DEF Release
  <2>6. Alive /\ held' = [held EXCEPT ![f] = NotHeld]
    BY <1>5 DEF CloseFileDescriptorConnection, CloseNamedConnection
  <2> HIDE DEF g
  <2> QED BY <2>2, <2>3, <2>4, <2>5, <2>6 DEF ListStep
<1>6. CASE CloseAllSockets
  <2>1. Listed' = {}
    BY <1>6 DEF CloseAllSockets, Listed
  <2>2. titleOf' = [x \in {} |-> Unset]
    BY <2>1 DEF titleOf
  <2> QED BY <1>6, <2>1, <2>2 DEF CloseAllSockets, ListStep
<1>7. ASSUME NEW f \in FD, GetSocketLogicalName(f)
      PROVE  ListStep
  <2>1. PICK i \in DOMAIN routers :
          routers[i].fd = f /\ held' = [held EXCEPT ![f] = routers[i].name]
    BY <1>7 DEF GetSocketLogicalName, FirstFd
  <2>2. f \in Listed /\ titleOf[f] = routers[i].name
    BY <2>1, TitleOfRouter DEF Sound, IInv
  <2>3. Kept /\ UNCHANGED <<heap, proc>>
    BY <1>7 DEF GetSocketLogicalName, Kept, Listed, titleOf
  <2> QED BY <2>1, <2>2, <2>3 DEF ListStep
<1>8. CASE Create
  BY <1>1, <1>2, <1>8 DEF Create, CreateSocketNoStream
<1>9. CASE Attach
  BY <1>1, <1>4, <1>9 DEF Attach, BindSocketFails, ConnectDetached
<1>10. CASE Serve
  BY <1>1, <1>3, <1>7, <1>10 DEF Serve, BindSocketUnknown, ConnectUnknown, Fault,
     GetSocketLogicalNameUnknown, Listen, AcceptFails, AcceptNoStream, Die
<1>11. CASE Close
  BY <1>1, <1>5, <1>6, <1>11 DEF Close, CloseFaults, Die, Fault
<1>12. CASE Kernel \/ LookupFaults \/ PoisonFaults \/ Stopped \/ UNCHANGED vars
  BY <1>1, <1>12 DEF Kernel, Arrive, Establish, Refused, Reset, LookupFaults,
     PoisonFaults, Die, Fault, Stopped, vars, Alive
<1> QED BY <1>8, <1>9, <1>10, <1>11, <1>12 DEF Next

-----------------------------------------------------------------------------
(* The script's names.                                                     *)

HeldTitles == \A f \in Listed : held[f] \in LogicalName => held[f] = titleOf[f]

LEMMA HeldTitlesStep ==
    ASSUME Sound, HeldTitles, [Next]_vars
    PROVE  HeldTitles'
<1>1. ListStep /\ Listed \subseteq FD /\ held \in [FD -> LogicalName \cup {Unset, NotHeld}]
  BY EveryStepIsListStep, RoutersTyped DEF Sound, IInv, TypeOK, Listed
<1>2. Unset \notin LogicalName /\ NotHeld \notin LogicalName
  BY TokenAssumption
<1>3. ASSUME NEW f \in FD, NEW t, Opened(f, t), held' = [held EXCEPT ![f] = Unset]
      PROVE  HeldTitles'
  BY <1>1, <1>2, <1>3 DEF Opened, HeldTitles
<1>4. ASSUME NEW f \in FD, NEW n, Retitled(f, n), held' = [held EXCEPT ![f] = n]
      PROVE  HeldTitles'
  <2>1. titleOf = [x \in Listed |-> titleOf[x]]
    BY DEF titleOf
  <2>2. \A x \in Listed : titleOf'[x] = IF x = f THEN n ELSE titleOf[x]
    BY <1>4, <2>1 DEF Retitled
  <2> QED BY <1>1, <1>4, <2>2 DEF Retitled, HeldTitles
<1>5. ASSUME NEW f \in FD, NEW g \in FD, Closed(g), held' = [held EXCEPT ![f] = NotHeld]
      PROVE  HeldTitles'
  BY <1>1, <1>2, <1>5 DEF Closed, HeldTitles
<1>6. ASSUME Kept, \E f \in Listed : held' = [held EXCEPT ![f] = titleOf[f]]
      PROVE  HeldTitles'
  BY <1>1, <1>6 DEF Kept, HeldTitles
<1>7. ASSUME Kept, UNCHANGED held
      PROVE  HeldTitles'
  BY <1>7 DEF Kept, HeldTitles
<1>8. CASE Listed' = {}
  BY <1>8 DEF HeldTitles
<1> QED BY <1>1, <1>3, <1>4, <1>5, <1>6, <1>7, <1>8 DEF ListStep

\* The name a script last saw for a socket it still holds is that socket's name:
\* bind-socket and connect rename a socket only in front of the script, and a
\* descriptor that is handed out again comes without its old name.
THEOREM HeldNamesStay == Spec => []HeldNamesCurrent
<1>1. Init => HeldTitles
  BY DEF Init, HeldTitles, Listed
<1>2. Sound /\ HeldTitles /\ [Next]_vars => HeldTitles'
  BY HeldTitlesStep
<1>3. Sound /\ HeldTitles => HeldNamesCurrent
  BY TitleOfRouter DEF Sound, IInv, HeldTitles, HeldNamesCurrent
<1> QED BY <1>1, <1>2, <1>3, SoundAlways, PTL DEF Spec

-----------------------------------------------------------------------------
(* The heap.                                                               *)

Titled == {f \in Listed : titleOf[f] # Unset}

\* Descriptors that differ count the places on a list.
LEMMA PlacesCounted ==
    ASSUME NEW s \in Seq(Router), NEW I \in SUBSET (1..Len(s)),
           \A i, j \in I : s[i].fd = s[j].fd => i = j
    PROVE  LET F == {s[i].fd : i \in I} IN
           /\ IsFiniteSet(I) /\ IsFiniteSet(F) /\ Cardinality(F) = Cardinality(I)
<1> DEFINE F == {s[i].fd : i \in I}
           b == [i \in I |-> s[i].fd]
<1>1. IsFiniteSet(I)
  <2>1. Len(s) \in Int /\ 1 \in Int
    BY LenProperties
  <2>2. IsFiniteSet(1..Len(s))
    BY <2>1, FS_Interval
  <2> QED BY <2>2, FS_Subset
<1>2. b \in Bijection(I, F)
  BY DEF Bijection, Injection, Surjection, IsInjective
<1>3. ExistsBijection(I, F)
  BY <1>2 DEF ExistsBijection
<1> HIDE DEF F
<1>4. IsFiniteSet(F) /\ Cardinality(F) = Cardinality(I)
  BY <1>1, <1>3, FS_Bijection
<1> QED BY <1>1, <1>4 DEF F

LEMMA ListCounted ==
    ASSUME TypeOK, DescriptorsDistinct
    PROVE  /\ IsFiniteSet(Listed) /\ Cardinality(Listed) = Len(routers)
           /\ IsFiniteSet(Titled) /\ Cardinality(Titled) = NamedCount
<1>1. /\ routers \in Seq(Router) /\ DOMAIN routers = 1..Len(routers)
      /\ Len(routers) \in Nat
  BY LenProperties DEF TypeOK
<1>2. IsFiniteSet(Listed) /\ Cardinality(Listed) = Cardinality(1..Len(routers))
  <2> DEFINE I == 1..Len(routers)
             F == {routers[i].fd : i \in I}
  <2>1. I \in SUBSET (1..Len(routers)) /\ \A i, j \in I : routers[i].fd = routers[j].fd => i = j
    BY <1>1 DEF DescriptorsDistinct
  <2>2. IsFiniteSet(F) /\ Cardinality(F) = Cardinality(I)
    <3> HIDE DEF I
    <3> QED BY <1>1, <2>1, PlacesCounted
  <2>3. F = Listed
    BY <1>1 DEF Listed
  <2> QED BY <2>2, <2>3
<1>3. Cardinality(1..Len(routers)) = Len(routers)
  BY <1>1, FS_Interval
<1>4. IsFiniteSet(Titled) /\ Cardinality(Titled) = NamedCount
  <2> DEFINE I == {i \in DOMAIN routers : routers[i].name # Unset}
             F == {routers[i].fd : i \in I}
  <2>1. I \in SUBSET (1..Len(routers)) /\ \A i, j \in I : routers[i].fd = routers[j].fd => i = j
    BY <1>1 DEF DescriptorsDistinct
  <2>2. IsFiniteSet(F) /\ Cardinality(F) = Cardinality(I)
    <3> HIDE DEF I
    <3> QED BY <1>1, <2>1, PlacesCounted
  <2>3. F = Titled
    <3>1. ASSUME NEW f \in F PROVE f \in Titled
      <4>1. PICK i \in DOMAIN routers : routers[i].name # Unset /\ f = routers[i].fd
        BY <3>1
      <4> QED BY <4>1, TitleOfRouter DEF Titled
    <3>2. ASSUME NEW f \in Titled PROVE f \in F
      <4>1. PICK i \in DOMAIN routers : f = routers[i].fd
        BY DEF Titled, Listed
      <4>2. routers[i].name # Unset
        BY <4>1, TitleOfRouter DEF Titled
      <4> QED BY <4>1, <4>2
    <3> QED BY <3>1, <3>2
  <2> QED BY <2>2, <2>3 DEF NamedCount
<1> QED BY <1>2, <1>3, <1>4

HeapCoversTitles == Alive => heap >= Cardinality(Listed) + Cardinality(Titled)

LEMMA HeapStep ==
    ASSUME Sound, HeapCoversTitles, [Next]_vars
    PROVE  HeapCoversTitles'
<1>0. /\ ListStep /\ heap \in Int /\ IsFiniteSet(Listed) /\ IsFiniteSet(Titled)
      /\ Cardinality(Listed) \in Nat /\ Cardinality(Titled) \in Nat
      /\ Titled \subseteq Listed
  BY EveryStepIsListStep, ListCounted, FS_CardinalityType DEF Sound, IInv, TypeOK, Titled
<1>1. Unset \notin LogicalName /\ ("exited" \notin {"running", "poisoned"})
      /\ \A c \in Fault : c \notin {"running", "poisoned"}
  BY TokenAssumption DEF Fault
<1>2. ASSUME NEW f \in FD, NEW t, Opened(f, t), Alive,
             heap' = heap + IF t = Unset THEN 1 ELSE 2
      PROVE  HeapCoversTitles'
  <2>1. f \notin Listed /\ Listed' = Listed \cup {f}
    BY <1>2 DEF Opened
  <2>2. Titled' = IF t = Unset THEN Titled ELSE Titled \cup {f}
    BY <1>2 DEF Opened, Titled
  <2>3. /\ Cardinality(Listed') = Cardinality(Listed) + 1
        /\ Cardinality(Titled') = Cardinality(Titled) + IF t = Unset THEN 0 ELSE 1
    <3>1. Cardinality(Listed') = Cardinality(Listed) + 1
      BY <1>0, <2>1, FS_AddElement
    <3>2. f \notin Titled
      BY <1>0, <2>1
    <3>3. Cardinality(Titled \cup {f}) = Cardinality(Titled) + 1
      BY <1>0, <3>2, FS_AddElement
    <3> QED BY <1>0, <2>2, <3>1, <3>3
  <2> QED BY <1>0, <1>2, <2>3 DEF HeapCoversTitles
<1>3. ASSUME NEW f \in FD, NEW n, Retitled(f, n), Alive, heap' = heap + 1
      PROVE  HeapCoversTitles'
  <2>1. Listed' = Listed /\ Titled' \in {Titled, Titled \cup {f}, Titled \ {f}}
    <3>1. \A x \in Listed : titleOf'[x] = IF x = f THEN n ELSE titleOf[x]
      <4>1. titleOf = [x \in Listed |-> titleOf[x]]
        BY DEF titleOf
      <4> QED BY <1>3, <4>1 DEF Retitled
    <3>2. Titled' = IF n = Unset THEN Titled \ {f} ELSE Titled \cup {f}
      BY <1>3, <3>1 DEF Retitled, Titled
    <3> QED BY <1>3, <3>2 DEF Retitled
  <2>2. Cardinality(Titled') <= Cardinality(Titled) + 1 /\ Cardinality(Titled') \in Nat
    <3>1. /\ IsFiniteSet(Titled \cup {f}) /\ IsFiniteSet(Titled \ {f})
          /\ Cardinality(Titled \cup {f}) =
               IF f \in Titled THEN Cardinality(Titled) ELSE Cardinality(Titled) + 1
          /\ Cardinality(Titled \ {f}) =
               IF f \in Titled THEN Cardinality(Titled) - 1 ELSE Cardinality(Titled)
      BY <1>0, FS_AddElement, FS_RemoveElement
    <3>2. Cardinality(Titled \cup {f}) \in Nat /\ Cardinality(Titled \ {f}) \in Nat
      BY <3>1, FS_CardinalityType
    <3>3. \A T \in {Titled, Titled \cup {f}, Titled \ {f}} :
            Cardinality(T) <= Cardinality(Titled) + 1 /\ Cardinality(T) \in Nat
      <4>1. /\ Cardinality(Titled \cup {f}) <= Cardinality(Titled) + 1
            /\ Cardinality(Titled \ {f}) <= Cardinality(Titled) + 1
            /\ Cardinality(Titled) <= Cardinality(Titled) + 1
        BY <1>0, <3>1
      <4> QED BY <1>0, <3>2, <4>1, Zenon
    <3> QED BY <2>1, <3>3
  <2> QED BY <1>0, <1>3, <2>1, <2>2 DEF HeapCoversTitles
<1>4. ASSUME NEW g \in FD, Closed(g), Alive, heap' = heap - IF titleOf[g] = Unset THEN 1 ELSE 2
      PROVE  HeapCoversTitles'
  <2>1. g \in Listed /\ Listed' = Listed \ {g} /\ Titled' = Titled \ {g}
    BY <1>4 DEF Closed, Titled
  <2>2. g \in Titled <=> titleOf[g] # Unset
    BY <2>1 DEF Titled
  <2>3. /\ Cardinality(Listed') = Cardinality(Listed) - 1
        /\ Cardinality(Titled') = Cardinality(Titled) - IF titleOf[g] = Unset THEN 0 ELSE 1
    <3>1. Cardinality(Listed') = Cardinality(Listed) - 1
      BY <1>0, <2>1, FS_RemoveElement
    <3>2. Cardinality(Titled \ {g}) =
            IF g \in Titled THEN Cardinality(Titled) - 1 ELSE Cardinality(Titled)
      BY <1>0, FS_RemoveElement
    <3> QED BY <1>0, <2>1, <2>2, <3>1, <3>2
  <2> QED BY <1>0, <1>4, <2>3 DEF HeapCoversTitles
<1>5. ASSUME Kept, heap' \in {heap, heap + 1}, proc' = proc \/ proc' \in Fault
      PROVE  HeapCoversTitles'
  <2>1. Titled' = Titled /\ Listed' = Listed
    BY <1>5 DEF Kept, Titled
  <2> QED BY <1>0, <1>1, <1>5, <2>1 DEF HeapCoversTitles, Alive
<1>6. CASE proc' = "exited"
  BY <1>1, <1>6 DEF HeapCoversTitles, Alive
<1>7. \A n \in LogicalName : n # Unset
  BY <1>1
<1> QED BY <1>0, <1>2, <1>3, <1>4, <1>5, <1>6, <1>7 DEF ListStep

\* Every structure on the list and every name it owns is a block that is still
\* out: no sequence of opens, renames, failures and closes gives one back twice.
THEOREM HeapCovers == Spec => []HeapCoversList
<1>1. Init => HeapCoversTitles
  <2> SUFFICES ASSUME Init PROVE HeapCoversTitles
    OBVIOUS
  <2>1. Listed = {} /\ Titled = {} /\ heap = 0
    BY DEF Init, Listed, Titled
  <2> QED BY <2>1, FS_EmptySet DEF HeapCoversTitles
<1>2. Sound /\ HeapCoversTitles /\ [Next]_vars => HeapCoversTitles'
  BY HeapStep
<1>3. Sound /\ HeapCoversTitles => HeapCoversList
  BY ListCounted DEF Sound, IInv, HeapCoversTitles, HeapCoversList
<1> QED BY <1>1, <1>2, <1>3, SoundAlways, PTL DEF Spec

-----------------------------------------------------------------------------
(* The refinement.                                                         *)

\* Whatever a script calls and whatever fails in it, the list is a directory of
\* open sockets: one operation opens, renames or closes at most one socket and
\* leaves the names of all others alone.
THEOREM ListIsDirectory == Spec => ImplementsDirectory
<1>1. Init => Directory!DirInit
  <2> SUFFICES ASSUME Init PROVE Directory!DirInit
    OBVIOUS
  <2>1. Listed = {} /\ proc = "running"
    BY DEF Init, Listed
  <2>2. titleOf = [x \in {} |-> Unset]
    BY <2>1 DEF titleOf
  <2> QED BY <2>1, <2>2 DEF Directory!DirInit
<1>2. ASSUME Sound, [Next]_vars
      PROVE  [Directory!DirNext]_(Directory!dirVars)
  <2>1. ListStep
    BY <1>2, EveryStepIsListStep
  <2> DEFINE over == proc = "exited"
  <2>2. /\ Alive => ~over
        /\ proc' = proc => over' = over
        /\ Alive /\ proc' \in Fault \cup {"poisoned"} => over' = over
    BY DEF Alive, Fault
  <2>3. ASSUME Kept, over' = over
        PROVE  UNCHANGED <<Listed, titleOf, over>>
    BY <2>3 DEF Kept
  <2>4. ASSUME NEW f \in FD, NEW t \in LogicalName \cup {Unset}, Opened(f, t),
               ~over, over' = over
        PROVE  Directory!DirNext
    <3>1. Directory!OpenSocket(f, t)
      BY <2>4 DEF Opened, Directory!OpenSocket
    <3> QED BY <2>4, <3>1 DEF Directory!DirNext, Directory!DirStep
  <2>5. ASSUME NEW f \in FD, NEW t \in LogicalName, Retitled(f, t), ~over, over' = over
        PROVE  Directory!DirNext
    <3>1. Directory!Retitle(f, t)
      BY <2>5 DEF Retitled, Directory!Retitle
    <3> QED BY <2>5, <3>1 DEF Directory!DirNext, Directory!DirStep
  <2>6. ASSUME NEW f \in FD, Closed(f), ~over, over' = over
        PROVE  Directory!DirNext
    <3>1. Directory!Shut(f)
      BY <2>6 DEF Closed, Directory!Shut
    <3> QED BY <2>6, <3>1 DEF Directory!DirNext, Directory!DirStep
  <2>7. ASSUME Listed' = {}, titleOf' = [x \in {} |-> Unset], ~over, over'
        PROVE  Directory!DirNext
    <3>1. Directory!ShutAll
      BY <2>7 DEF Directory!ShutAll
    <3> QED BY <2>7, <3>1 DEF Directory!DirNext, Directory!DirStep
  <2> QED
    BY <2>1, <2>2, <2>3, <2>4, <2>5, <2>6, <2>7 DEF ListStep, Directory!dirVars
<1> QED BY <1>1, <1>2, SoundAlways, PTL DEF Spec, ImplementsDirectory, Directory!DirSpec

=============================================================================
