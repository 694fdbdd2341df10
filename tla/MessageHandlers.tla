-------------------------- MODULE MessageHandlers --------------------------
(***************************************************************************)
(* The message-handlers of classes (src/src/msgpsr.c, msgfun.c, msgcom.c). *)
(* A class keeps its handlers in an array, in the order they were defined  *)
(* in, and beside it handlerOrderMap, the places in this array ordered by  *)
(* the hash bucket of the handler's name, which a binary search goes       *)
(* through.  Every definition and deletion makes both anew.                *)
(*                                                                         *)
(* Not modelled: system handlers, parsing, and what handlers do.           *)
(***************************************************************************)
EXTENDS Integers, Sequences, FiniteSets, SequencesExt

CONSTANTS
    HandlerClass,   \* the classes
    MessageName,    \* the names of messages
    Bucket,         \* of each name
    MaxHandlers     \* bound: the handlers of each class

ASSUME HandlersAssumption ==
    /\ "*" \notin MessageName
    /\ Bucket \in [MessageName -> Nat]
    /\ MaxHandlers \in [HandlerClass -> Nat]

VARIABLES
    handlers,           \* of each class: [name, type, busy]
    handlerOrderMap     \* of each class

tableVars == <<handlers, handlerOrderMap>>

HandlerType == {"around", "before", "primary", "after"}

Lowest(S) == CHOOSE i \in S : \A j \in S : i <= j

\* The members of a set as a sequence, each behind those that it follows in R.
InOrder(S, R) ==
    [k \in 1 .. Cardinality(S) |->
        CHOOSE x \in S : Cardinality({y \in S : <<y, x>> \in R}) = k - 1]
Upward(S) == {p \in S \X S : p[1] < p[2]}

\* The name at a place of handlerOrderMap.
NameAt(c, i) == handlers[c][handlerOrderMap[c][i]].name
BucketAt(c, i) == Bucket[NameAt(c, i)]

-----------------------------------------------------------------------------
(* Looking for handlers.                                                   *)

\* The first of the places b..e with this name, as the search that has met the
\* name's bucket at i finds it: down from i, then up from it.
GroupAround(c, name, i, b, e) ==
    LET near(j) == \A k \in (j .. i) \cup (i .. j) : BucketAt(c, k) = Bucket[name]
        found == {j \in b .. e : NameAt(c, j) = name /\ near(j)}
    IN IF found = {} THEN 0 ELSE Lowest(found)

\* FindHandlerNameGroup: 0 when there are none of this name.
FindHandlerNameGroup(c, name) ==
    LET n == Len(handlers[c])
        search[r \in (1 .. n + 1) \X (0 .. n)] ==
            LET b == r[1]
                e == r[2]
                i == (b + e) \div 2
            IN IF b > e THEN 0
               ELSE IF Bucket[name] = BucketAt(c, i) THEN GroupAround(c, name, i, b, e)
               ELSE IF Bucket[name] < BucketAt(c, i) THEN search[<<b, i - 1>>]
               ELSE search[<<i + 1, e>>]
    IN search[<<1, n>>]

\* The places in the array of the handlers of this name, in the order of the
\* map, up to the first of another name.
NameGroup(c, name) ==
    LET b == FindHandlerNameGroup(c, name)
        n == Len(handlers[c])
        others == {j \in b .. n : NameAt(c, j) # name}
    IN IF b = 0 THEN << >>
       ELSE SubSeq(handlerOrderMap[c], b, IF others = {} THEN n ELSE Lowest(others) - 1)

\* FindHandlerByAddress: its place in the array, or 0.
FindHandlerByAddress(c, name, type) ==
    LET group == NameGroup(c, name)
        i == SelectInSeq(group, LAMBDA p : handlers[c][p].type = type)
    IN IF i = 0 THEN 0 ELSE group[i]

HandlersExecuting(c) == \E i \in DOMAIN handlers[c] : handlers[c][i].busy > 0

-----------------------------------------------------------------------------
(* Definitions and deletions.                                              *)

\* A place in front of the names of larger buckets, and of its own name.
InsertHandlerHeader(c, mname, mtype) ==
    LET n == Len(handlers[c])
        later == {i \in 1 .. n : BucketAt(c, i) > Bucket[mname] \/ NameAt(c, i) = mname}
        ni == IF later = {} THEN n + 1 ELSE Lowest(later)
    IN /\ handlers' = [handlers EXCEPT ![c] =
              Append(@, [name |-> mname, type |-> mtype, busy |-> 0])]
       /\ handlerOrderMap' = [handlerOrderMap EXCEPT ![c] = InsertAt(@, ni, n + 1)]

\* defmessage-handler, of one that is new.
DefmessageHandler(c, mname, mtype) ==
    /\ ~HandlersExecuting(c)
    /\ FindHandlerByAddress(c, mname, mtype) = 0
    /\ Len(handlers[c]) < MaxHandlers[c]
    /\ InsertHandlerHeader(c, mname, mtype)

\* And of one that is there: its actions are replaced.
RedefineHandler(c, mname, mtype) ==
    /\ ~HandlersExecuting(c)
    /\ FindHandlerByAddress(c, mname, mtype) # 0
    /\ UNCHANGED tableVars

\* Which handlers DeleteHandler marks, for a name or "*" and a type or "all".
Marked(c, mname, mtype) ==
    LET types == IF mtype = "all" THEN HandlerType ELSE {mtype}
        found == {FindHandlerByAddress(c, mname, t) : t \in types} \ {0}
    IN IF mname = "*" THEN {i \in DOMAIN handlers[c] : handlers[c][i].type \in types} ELSE found

\* DeallocateMarkedHandlers: the others move up, and the map follows them.
Unmarked(c, marked) ==
    LET kept == DOMAIN handlers[c] \ marked
        from == InOrder(kept, Upward(kept))
    IN [i \in DOMAIN from |-> handlers[c][from[i]]]
\* The places of the map that stay.
UnmarkedPlaces(c, marked) ==
    LET kept == {j \in DOMAIN handlerOrderMap[c] : handlerOrderMap[c][j] \notin marked}
    IN InOrder(kept, Upward(kept))
\* Slip: the map still counts the handlers that went.
UnmarkedOrderSlip(c, marked) ==
    LET from == UnmarkedPlaces(c, marked)
    IN [j \in DOMAIN from |-> handlerOrderMap[c][from[j]]]
UnmarkedOrder(c, marked) ==
    LET from == UnmarkedPlaces(c, marked)
    IN [j \in DOMAIN from |->
           LET i == handlerOrderMap[c][from[j]] IN i - Cardinality({m \in marked : m < i})]

\* undefmessage-handler, for one class or several: those whose handlers are
\* executing keep theirs.
UndefmessageHandler(classes, mname, mtype) ==
    LET marked(c) == IF c \in classes /\ ~HandlersExecuting(c) THEN Marked(c, mname, mtype) ELSE {}
    IN /\ \E c \in classes : marked(c) # {}
       /\ handlers' = [c \in HandlerClass |-> Unmarked(c, marked(c))]
       /\ handlerOrderMap' = [c \in HandlerClass |-> UnmarkedOrder(c, marked(c))]

HandlersInit ==
    /\ handlers = [c \in HandlerClass |-> << >>]
    /\ handlerOrderMap = [c \in HandlerClass |-> << >>]

\* On these classes, with these names and types.
HandlersNext(classes, names, types) ==
    \/ \E c \in classes, name \in names, type \in types :
          DefmessageHandler(c, name, type) \/ RedefineHandler(c, name, type)
    \/ \E cs \in {{c} : c \in classes} \cup {classes}, name \in names \cup {"*"},
          type \in types \cup {"all"} : UndefmessageHandler(cs, name, type)

-----------------------------------------------------------------------------
(* Properties.                                                             *)

\* Two handlers of a class are never of one name and type.
HandlersDistinct ==
    \A c \in HandlerClass : \A i, j \in DOMAIN handlers[c] :
        i # j => <<handlers[c][i].name, handlers[c][i].type>>
                   # <<handlers[c][j].name, handlers[c][j].type>>

\* The map holds every place of the array once, and the binary search through
\* it finds all handlers of a name: none is hidden from messages.
SearchFindsAll ==
    \A c \in HandlerClass :
        /\ Len(handlerOrderMap[c]) = Len(handlers[c])
        /\ ToSet(handlerOrderMap[c]) = DOMAIN handlers[c]
        /\ \A name \in MessageName :
              ToSet(NameGroup(c, name)) = {i \in DOMAIN handlers[c] : handlers[c][i].name = name}

\* The handlers of each class are as they were defined, and can be found.
HandlersInv == HandlersDistinct /\ SearchFindsAll
=============================================================================
