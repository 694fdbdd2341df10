----------------------------- MODULE MergeSort -----------------------------
(***************************************************************************)
(* sort (src/src/sortfun.c): a merge sort over an array, by a comparison   *)
(* function of the caller's that says of two values whether they are to be *)
(* swapped.  The function is arbitrary: it need not order the values.      *)
(*                                                                         *)
(* Behaviours: sort called with one value more each time.  Not modelled:   *)
(* errors in the comparison function.                                      *)
(***************************************************************************)
EXTENDS Integers, Sequences, SequencesExt

CONSTANTS
    Key,            \* what values are compared by
    MaxList         \* bound: values that are sorted

ASSUME SortAssumption == MaxList \in Nat

VARIABLES
    arguments,      \* of sort, each a key and its number
    swap            \* the comparison function: a relation on keys

sortVars == <<arguments, swap>>

-----------------------------------------------------------------------------

Swaps(v, w) == <<v.key, w.key>> \in swap

\* Slip: equal values are swapped.
SortPairSlip(a, s) == IF Swaps(a[s + 1], a[s]) THEN <<a[s], a[s + 1]>> ELSE <<a[s + 1], a[s]>>

\* A slice of two: swapped, or not.
SortPair(a, s) == IF Swaps(a[s], a[s + 1]) THEN <<a[s + 1], a[s]>> ELSE <<a[s], a[s + 1]>>

\* The values of two slices after m of them have been merged.
Merge(one, two) ==
    LET merged[m \in 0 .. Len(one) + Len(two)] ==
            LET before == merged[m - 1]
                c1 == before.c1
                c2 == before.c2
            IN IF m = 0 THEN [c1 |-> 1, c2 |-> 1, list |-> << >>]
               ELSE IF c1 > Len(one) \/ (c2 <= Len(two) /\ Swaps(one[c1], two[c2]))
               THEN [c1 |-> c1, c2 |-> c2 + 1, list |-> Append(before.list, two[c2])]
               ELSE [c1 |-> c1 + 1, c2 |-> c2, list |-> Append(before.list, one[c1])]
    IN merged[Len(one) + Len(two)].list

\* The slices of an array, sorted; what sorts one reads and writes no other.
DoMergeSort(a) ==
    LET slice[r \in (DOMAIN a) \X (DOMAIN a)] ==
            LET s == r[1]
                e == r[2]
                middle == s + (e - s + 2) \div 2
            IN IF e <= s THEN <<a[s]>>
               ELSE IF s + 1 = e THEN SortPair(a, s)
               ELSE Merge(slice[<<s, middle - 1>>], slice[<<middle, e>>])
    IN slice

Sort(a) ==
    LET middle == (Len(a) + 1) \div 2
    IN IF Len(a) <= 1 THEN a
       ELSE Merge(DoMergeSort(a)[<<1, middle>>], DoMergeSort(a)[<<middle + 1, Len(a)>>])

-----------------------------------------------------------------------------

SortInit == arguments = << >> /\ swap \in SUBSET (Key \X Key)

SortFunction(key) ==
    /\ Len(arguments) < MaxList
    /\ arguments' = Append(arguments, [key |-> key, arg |-> Len(arguments) + 1])
    /\ UNCHANGED swap

SortNext == \E key \in Key : SortFunction(key)

SortSpec == SortInit /\ [][SortNext]_sortVars

-----------------------------------------------------------------------------
(* Properties.                                                             *)

\* The function orders the keys: those that it does not swap either way are equal.
Orders ==
    LET le(k, l) == <<k, l>> \notin swap
    IN \A k, l, m \in Key :
           le(k, k) /\ (le(k, l) \/ le(l, k)) /\ (le(k, l) /\ le(l, m) => le(k, m))

(* sort answers its arguments, whatever the comparison function says.      *)
SortPermutes == Len(Sort(arguments)) = Len(arguments) /\ ToSet(Sort(arguments)) = ToSet(arguments)

(* When the function orders the keys, the answer is in this order, and equal
   keys are in the order in which they were given.                         *)
SortIsStable ==
    Orders =>
        \A i, j \in DOMAIN arguments : i < j =>
            LET v == Sort(arguments)[i]
                w == Sort(arguments)[j]
            IN ~Swaps(v, w) /\ (~Swaps(w, v) => v.arg < w.arg)

(* What sort answers.                                                      *)
SortInv == SortPermutes /\ SortIsStable
=============================================================================
