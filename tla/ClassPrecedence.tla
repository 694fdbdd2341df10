-------------------------- MODULE ClassPrecedence --------------------------
(***************************************************************************)
(* The class precedence list of a defclass (src/src/inherpsr.c): the class *)
(* and everything it inherits from, in the order in which handlers and     *)
(* slots are looked up.  A class precedes its superclasses, and orders its *)
(* direct superclasses; where these rules leave a choice, the table's      *)
(* depth-first order is followed as closely as possible.                   *)
(*                                                                         *)
(* Behaviours: classes defined one after the other.  A class may only be   *)
(* defined after its superclasses.  Not modelled: the classes of the       *)
(* primitive types, redefinition of a class that others inherit from (the  *)
(* code refuses it).                                                       *)
(***************************************************************************)
EXTENDS Integers, Sequences, FiniteSets, SequencesExt, FiniteSetsExt

CONSTANTS
    MaxClasses,     \* bound: classes, the two that the program defines included
    MaxSupers       \* bound: direct superclasses of a class

ASSUME ClassesAssumption == MaxClasses \in Nat /\ MaxSupers \in Nat

VARIABLES
    supers,         \* the direct superclasses of each class: classes are 1, 2, ...
    precedence      \* the class precedence list of each

classVars == <<supers, precedence>>

None == << >>               \* no precedence list can be formed
OBJECT == 1
USER == 2

-----------------------------------------------------------------------------

\* The direct superclasses of the classes there are: all[c], for each class c.

\* InitializePartialOrderTable: the table as classes are entered, each once, and the
\* superclasses to look at next, those of the class entered last before the others:
\* depth first.
InitializePartialOrderTable(all, own) ==
    LET entered[m \in 0 .. Len(all)] ==
            LET before == entered[m - 1]
                open == {i \in DOMAIN before.rest : before.rest[i] \notin ToSet(before.table)}
                c == before.rest[Min(open)]
            IN IF m = 0 THEN [table |-> << >>, rest |-> own]
               ELSE IF open = {} THEN before
               ELSE [table |-> Append(before.table, c),
                     rest |-> all[c] \o SubSeq(before.rest, Min(open) + 1, Len(before.rest))]
    IN entered[Len(all)].table

\* What RecordPartialOrders records for a class and its direct superclasses:
\* each of them precedes all that follow.
Before(list) == UNION {{<<list[i], list[j]>> : j \in i + 1 .. Len(list)} : i \in DOMAIN list}

\* The partial order: of the new class, of the classes in the table.
PartialOrder(all, table, own) ==
    Before(own) \cup UNION {Before(<<c>> \o all[c]) : c \in ToSet(table)}

\* Slip: the scan does not begin again.
ScanSlip(table, order) ==
    LET next(s, i) == IF \E d \in ToSet(s.table) : <<d, table[i]>> \in order THEN s
                      ELSE [table |-> Remove(s.table, table[i]), at |-> i,
                            list |-> Append(s.list, table[i])]
    IN FoldLeft(next, [table |-> table, at |-> 1, list |-> << >>], [i \in DOMAIN table |-> i])

\* The table is scanned for a class that nothing left in it precedes: from
\* where the last one was found to the end, then from the beginning.
Scan(table, order) ==
    LET scanned[m \in 0 .. Len(table)] ==
            LET s == scanned[m - 1]
                free == {i \in DOMAIN s.table : ~\E d \in ToSet(s.table) : <<d, s.table[i]>> \in order}
                ahead == {i \in free : i >= s.at}
                found == Min(IF ahead # {} THEN ahead ELSE free)
            IN IF m = 0 THEN [table |-> table, at |-> 1, list |-> << >>]
               ELSE IF free = {} THEN s
               ELSE [table |-> RemoveAt(s.table, found), at |-> found,
                     list |-> Append(s.list, s.table[found])]
    IN scanned[Len(table)]

\* FindPrecedenceList, for a new class: it is put in front.
FindPrecedenceList(all, c, own) ==
    LET table == InitializePartialOrderTable(all, own)
        scanned == Scan(table, PartialOrder(all, table, own))
    IN IF scanned.table # << >> THEN None ELSE <<c>> \o scanned.list

\* FindPrecedenceList, for a class that is defined again: it is in the table.
FindPrecedenceListAgain(all, c) ==
    LET table == <<c>> \o InitializePartialOrderTable(all, all[c])
        scanned == Scan(table, PartialOrder(all, table, all[c]))
    IN IF scanned.table # << >> THEN None ELSE scanned.list

-----------------------------------------------------------------------------

ClassesInit ==
    /\ supers = <<<< >>, <<OBJECT>>>>
    /\ precedence = <<<<OBJECT>>, <<USER, OBJECT>>>>

New == Len(supers) + 1

\* (defclass ... (is-a ...)): ParseSuperclasses takes each superclass once.
ParseDefclass(own) ==
    LET list == FindPrecedenceList(supers, New, own)
    IN /\ New <= MaxClasses
       /\ list # None
       /\ supers' = Append(supers, own)
       /\ precedence' = Append(precedence, list)

\* A class for which no list can be formed is not defined.
RefuseDefclass(own) ==
    /\ New <= MaxClasses
    /\ FindPrecedenceList(supers, New, own) = None
    /\ UNCHANGED classVars

Superclasses ==
    {own \in BoundedSeq(USER .. New - 1, MaxSupers) : own # << >> /\ IsInjective(own)}

ClassesNext == \E own \in Superclasses : ParseDefclass(own) \/ RefuseDefclass(own)

ClassesSpec == ClassesInit /\ [][ClassesNext]_classVars

-----------------------------------------------------------------------------
(* Properties.                                                             *)

\* Each class inherits from itself, and from what its direct superclasses do.
Ancestors(all, own) ==
    LET inherits[c \in DOMAIN all] == {c} \cup UNION {inherits[d] : d \in ToSet(all[c])}
    IN UNION {inherits[c] : c \in ToSet(own)}

Respects(list, order) ==
    \A p \in order : \A i, j \in DOMAIN list : <<list[i], list[j]>> = p => i < j

\* What a list has to respect.
RulesOf(all, c, own) ==
    Before(<<c>> \o own) \cup UNION {Before(<<d>> \o all[d]) : d \in Ancestors(all, own)}

(* A precedence list holds the class and each class it inherits from once,
   and respects every rule: each class precedes its superclasses, and the
   direct superclasses of each class are in the order it gives them.       *)
PrecedenceFollowsRules ==
    \A c \in DOMAIN supers :
        /\ ToSet(precedence[c]) = {c} \cup Ancestors(supers, supers[c])
        /\ IsInjective(precedence[c])
        /\ precedence[c][1] = c
        /\ Respects(precedence[c], RulesOf(supers, c, supers[c]))

(* A defclass is refused only when its rules contradict each other: each of
   some classes has one of them that must precede it.                      *)
RefusedOnlyInCircles ==
    New <= MaxClasses =>
    \A own \in Superclasses :
        FindPrecedenceList(supers, New, own) = None <=>
            \E circle \in SUBSET ({New} \cup Ancestors(supers, own)) :
                /\ circle # {}
                /\ \A c \in circle : \E d \in circle : <<d, c>> \in RulesOf(supers, New, own)

(* A class that is defined again with the same superclasses keeps its
   precedence list, although the table then begins with the class itself.  *)
DefinedAgainTheSame ==
    \A c \in DOMAIN supers : c > OBJECT => FindPrecedenceListAgain(supers, c) = precedence[c]

(* Precedence lists are right, refused for cause, and the same again.      *)
PrecedenceInv == PrecedenceFollowsRules /\ RefusedOnlyInCircles /\ DefinedAgainTheSame
=============================================================================
