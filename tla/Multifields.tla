---------------------------- MODULE Multifields ----------------------------
(***************************************************************************)
(* The functions on multifields (src/src/multifun.c).  A multifield value  *)
(* is a view: an array of contents, where the view begins in it, and the   *)
(* range it covers.  subseq$, first$ and rest$ answer another view of the  *)
(* same contents, every function that changes fields answers new contents, *)
(* so what a function is called with begins anywhere in an array that is   *)
(* longer than it.                                                         *)
(*                                                                         *)
(* Behaviours: nested calls, each on the answer of the one before; the     *)
(* invariants say what each function answers on every view that is         *)
(* reached.  Not modelled: explode$ and implode$, progn$, and what is      *)
(* written past the end of new contents (the model drops it).              *)
(***************************************************************************)
EXTENDS Integers, Sequences, SequencesExt

CONSTANTS
    Symbol,         \* the values of single fields
    MaxLength       \* bound: longest multifield that is created or answered

VARIABLES
    value,          \* the view that the last call answered
    status          \* "fields", or "error" (evaluation error) or "void" (no answer)

fieldVars == <<value, status>>

-----------------------------------------------------------------------------
(* Views.                                                                  *)

Fresh(fields) == [contents |-> fields, begin |-> 0, range |-> Len(fields), single |-> FALSE]
Single(x) == [Fresh(<<x>>) EXCEPT !.single = TRUE]      \* a field, not a multifield
At(V, i) == V.contents[i + 1]                           \* contents[i]
Places(V) == [i \in 1 .. V.range |-> V.begin + i - 1]
Seen(V) == [i \in 1 .. V.range |-> At(V, V.begin + i - 1)]

\* The fields at some of V's places, one after the other.
Those(V, P(_)) == LET kept == SelectSeq(Places(V), P) IN [i \in DOMAIN kept |-> At(V, kept[i])]

\* In the arguments of a call: fields, and a view of part of them.
Views(fields) ==
    {Fresh(fields)} \cup
    IF fields = << >> THEN {} ELSE {[Fresh(fields) EXCEPT !.begin = 1, !.range = @ - 1]}

NotFound == -1
Least(S) == IF S = {} THEN NotFound ELSE CHOOSE i \in S : \A j \in S : i <= j

\* FindValueInMultifield: a field's place in the contents, or how far into
\* the view a multifield begins.
FindValueInMultifield(sought, V) ==
    IF sought.single
    THEN Least({i \in V.begin .. V.begin + V.range - 1 : At(V, i) = At(sought, 0)})
    ELSE Least({i \in 0 .. V.range - sought.range :
                   \A j \in 0 .. sought.range - 1 :
                       At(sought, sought.begin + j) = At(V, V.begin + i + j)})

-----------------------------------------------------------------------------
(* The functions.                                                          *)

RangeFits(V, start, end) == start <= end /\ 1 <= start /\ start <= V.range /\ end <= V.range

Delete(V, start, end) ==
    LET rs == start - 1 + V.begin
        re == end - 1 + V.begin
    IN Fresh(Those(V, LAMBDA i : i < rs \/ re < i))

Replace(V, start, end, field) ==
    LET rs == start - 1 + V.begin
        re == end - 1 + V.begin
    IN Fresh(Those(V, LAMBDA i : i < rs) \o Seen(field) \o Those(V, LAMBDA i : re < i))

\* InsertMultiValueField: behind the last field, when the index is greater.
Insert(V, index, field) ==
    LET theIndex == IF index > V.range + 1 THEN V.range + 1 ELSE index
    IN Fresh(Those(V, LAMBDA i : i < V.begin + theIndex - 1) \o Seen(field)
             \o Those(V, LAMBDA i : V.begin + theIndex - 1 <= i))

Subseq(V, start, end) ==
    LET first == IF start < 1 THEN 1 ELSE start
        last == IF end > V.range THEN V.range ELSE end
    IN IF end < 1 \/ end < start \/ first > V.range THEN Fresh(<< >>)
       ELSE [V EXCEPT !.range = last - first + 1, !.begin = @ + first - 1]

First(V) == [V EXCEPT !.range = IF @ >= 1 THEN 1 ELSE 0]
Rest(V) == IF V.range = 0 THEN V ELSE [V EXCEPT !.begin = @ + 1, !.range = @ - 1]

\* Slip: one occurrence is deleted.
DeleteMemberSlip(V, sought) ==
    LET rs == FindValueInMultifield(sought, V)
    IN IF sought.range = 0 \/ rs = NotFound THEN V
       ELSE Fresh(Those(V, LAMBDA j : j < rs \/ rs + sought.range - 1 < j))

\* delete-member$, until what is sought is not found any more.
RECURSIVE DeleteMember(_, _)
DeleteMember(V, sought) ==
    LET rs == FindValueInMultifield(sought, V)
        re == rs + sought.range - 1
        kept == Those(V, LAMBDA j : j < rs \/ re < j)
        update == SubSeq(kept, 1, V.range - sought.range)
    IN IF sought.range = 0 \/ rs = NotFound THEN V ELSE DeleteMember(Fresh(update), sought)

\* Neither end lies in the excluded places.
MVRangeCheck(si, ei, mink) == ~(1 <= si /\ si <= mink) /\ ~(1 <= ei /\ ei <= mink)

\* FindDOsInSegment: the first place from which one of the values is found,
\* outside the excluded places 1..mink.
FindDOsInSegment(values, V, mink) ==
    LET found(i, S) ==
            /\ MVRangeCheck(i, i + S.range - 1, mink)
            /\ i + S.range - 1 <= V.range
            /\ \A k \in 0 .. S.range - 1 : At(S, S.begin + k) = At(V, V.begin + i - 1 + k)
        si == Least({i \in 1 .. V.range : \E j \in DOMAIN values : found(i, values[j])})
        by == Least({j \in DOMAIN values : found(si, values[j])})
    IN [si |-> si, ei |-> IF si = NotFound THEN si ELSE si + values[by].range - 1]

\* replace-member$; an empty value is found, and its range refused.
RECURSIVE ReplaceMember(_, _, _, _)
ReplaceMember(V, replacement, values, mink) ==
    LET at == FindDOsInSegment(values, V, mink)
    IN IF at.si = NotFound THEN [fields |-> V, failed |-> FALSE]
       ELSE IF at.ei < at.si THEN [fields |-> Fresh(<< >>), failed |-> TRUE]
       ELSE ReplaceMember(Replace(V, at.si, at.ei, replacement), replacement, values,
                          at.si + replacement.range - 1)

\* The loop of intersection$, union$ and difference$ over one view's fields.
Gather(V, found(_), array) ==
    FoldLeft(LAMBDA kept, i : IF ~found(At(V, i)) \/ Contains(kept, At(V, i)) THEN kept
                              ELSE Append(kept, At(V, i)),
             array, Places(V))
In(x, V) == \E j \in V.begin .. V.begin + V.range - 1 : At(V, j) = x

Intersection(V, W) == Fresh(Gather(V, LAMBDA x : In(x, W), << >>))
Union(V, W) == Fresh(Gather(W, LAMBDA x : TRUE, Gather(V, LAMBDA x : TRUE, << >>)))
Difference(V, W) == Fresh(Gather(V, LAMBDA x : ~In(x, W), << >>))

Nth(n, V) == IF n > V.range \/ n < 1 THEN "nil" ELSE At(V, V.begin + n - 1)

Subsetp(V, W) ==
    \/ V.range = 0
    \/ W.range # 0 /\ \A i \in V.begin .. V.begin + V.range - 1 : In(At(V, i), W)

\* member$: where the fields sought begin and end.
Member(sought, V) ==
    LET pos == FindValueInMultifield(sought, V)
    IN IF sought.range > V.range \/ pos = NotFound THEN << >>
       ELSE IF sought.single THEN <<pos + 1 - V.begin, pos + 1 - V.begin>>
       ELSE <<pos + 1, pos + sought.range>>

-----------------------------------------------------------------------------
(* Nested calls.                                                           *)

Args == UNION {Views(s) : s \in BoundedSeq(Symbol, 2)} \cup {Single(x) : x \in Symbol}
Multis == {F \in Args : ~F.single}
Index == 0 .. MaxLength + 1

FieldsInit ==
    /\ value \in {Fresh(s) : s \in BoundedSeq(Symbol, MaxLength)}       \* create$
    /\ status = "fields"

\* A call's answer is the next call's first argument.
Answers(V, outcome) ==
    /\ status = "fields"
    /\ V.range <= MaxLength
    /\ value' = V
    /\ status' = outcome

\* A range that does not fit is an evaluation error.
InRange(start, end, V) ==
    IF RangeFits(value, start, end) THEN Answers(V, "fields") ELSE Answers(Fresh(<< >>), "error")

DeleteFunction(start, end) == InRange(start, end, Delete(value, start, end))
ReplaceFunction(start, end, F) == InRange(start, end, Replace(value, start, end, F))

\* An index below 1 prints an error and is no evaluation error: no value is set.
InsertFunction(index, F) ==
    IF index < 1 THEN Answers(Fresh(<< >>), "void") ELSE Answers(Insert(value, index, F), "fields")

SubseqFunction(start, end) == Answers(Subseq(value, start, end), "fields")
FirstFunction == Answers(First(value), "fields")
RestFunction == Answers(Rest(value), "fields")
DeleteMemberFunction(F) == Answers(DeleteMember(value, F), "fields")

ReplaceMemberFunction(replacement, values) ==
    LET answer == ReplaceMember(value, replacement, values, 0)
    IN Answers(answer.fields, IF answer.failed THEN "error" ELSE "fields")

IntersectionFunction(W) == Answers(Intersection(value, W), "fields")
UnionFunction(W) == Answers(Union(value, W), "fields")
DifferenceFunction(W) == Answers(Difference(value, W), "fields")

FieldsNext ==
    \/ \E s, e \in Index : DeleteFunction(s, e) \/ SubseqFunction(s, e)
    \/ \E s, e \in Index, F \in Args : ReplaceFunction(s, e, F)
    \/ \E i \in Index, F \in Args : InsertFunction(i, F)
    \/ FirstFunction \/ RestFunction
    \/ \E F \in Args : DeleteMemberFunction(F)
    \/ \E F, G, H \in Args : ReplaceMemberFunction(F, <<G, H>>)
    \/ \E W \in Multis : IntersectionFunction(W) \/ UnionFunction(W) \/ DifferenceFunction(W)

-----------------------------------------------------------------------------
(* What the functions answer, of the fields that the view shows.           *)

shown == Seen(value)

\* A view covers fields of its contents.
FieldsTypeOK ==
    /\ value.contents \in Seq(Symbol)
    /\ value.begin \in Nat /\ value.range \in 0 .. MaxLength
    /\ value.begin + value.range <= Len(value.contents)
    /\ ~value.single
    /\ status \in {"fields", "error", "void"}

(* Places count from 1 in the fields that are shown, wherever they lie in
   their contents: delete$, replace$ and insert$ change the fields at the
   places they are given and no others, subseq$ shows them.                *)
PlacesAreRelative ==
    status = "fields" =>
    LET behind(n) == SubSeq(shown, n, value.range)
        upTo(n) == SubSeq(shown, 1, n)
    IN /\ \A s, e \in 1 .. value.range : s <= e =>
              /\ Seen(Delete(value, s, e)) = upTo(s - 1) \o behind(e + 1)
              /\ Seen(Subseq(value, s, e)) = SubSeq(shown, s, e)
              /\ \A F \in Args : Seen(Replace(value, s, e, F))
                                     = upTo(s - 1) \o Seen(F) \o behind(e + 1)
       /\ \A i \in 1 .. value.range + 1, F \in Args :
              Seen(Insert(value, i, F)) = upTo(i - 1) \o Seen(F) \o behind(i)

(* member$ answers the first place where what is sought is found, and
   nothing when it is nowhere; what it answers subseq$ and nth$ show.      *)
MembersAreFound ==
    status = "fields" =>
    \A F \in Args : F.range # 0 =>
        LET first == {i \in 1 .. value.range : IsPrefix(Seen(F), SubSeq(shown, i, value.range))}
            at == Member(F, value)
        IN IF first = {} THEN at = << >>
           ELSE /\ at = <<Least(first), Least(first) + F.range - 1>>
                /\ Seen(Subseq(value, at[1], at[2])) = Seen(F)
                /\ Nth(at[1], value) = Seen(F)[1]

\* replace-member$ over a list, from left to right, each field replaced at most once.
RECURSIVE LeftToRight(_, _, _)
LeftToRight(list, replacement, values) ==
    LET meets == {j \in DOMAIN values : IsPrefix(Seen(values[j]), list)}
        by == values[Least(meets)]
    IN IF list = << >> THEN list
       ELSE IF meets = {} THEN <<Head(list)>> \o LeftToRight(Tail(list), replacement, values)
       ELSE Seen(replacement)
            \o LeftToRight(SubSeq(list, by.range + 1, Len(list)), replacement, values)

(* replace-member$ replaces what it is given from left to right and does not
   look for it again in what it put there, so it ends when the replacement
   holds what it replaces.                                                 *)
ReplacedOnce ==
    status = "fields" =>
    \A F, G, H \in Args : G.range # 0 /\ H.range # 0 =>
        Seen(ReplaceMember(value, F, <<G, H>>, 0).fields) = LeftToRight(shown, F, <<G, H>>)

(* The set functions answer every field that they should, once, in the order
   in which their arguments show it.                                       *)
SetsKeepOrder ==
    status = "fields" =>
    \A W \in Multis :
        LET both == shown \o Seen(W)
            firsts(list) == SelectSeq([i \in DOMAIN list |-> i],
                                      LAMBDA i : \A j \in 1 .. i - 1 : list[j] # list[i])
            once(list) == [i \in DOMAIN firsts(list) |-> list[firsts(list)[i]]]
        IN /\ Seen(Union(value, W)) = once(both)
           /\ Seen(Intersection(value, W)) = once(SelectSeq(shown, LAMBDA x : x \in ToSet(Seen(W))))
           /\ Seen(Difference(value, W)) = once(SelectSeq(shown, LAMBDA x : x \notin ToSet(Seen(W))))
           /\ Subsetp(value, W) <=> ToSet(shown) \subseteq ToSet(Seen(W))

\* The occurrences of a list in a list, removed from left to right until none is left.
RECURSIVE Without(_, _)
Without(list, sought) ==
    LET at == Least({i \in DOMAIN list : IsPrefix(sought, SubSeq(list, i, Len(list)))})
    IN IF at = NotFound THEN list
       ELSE Without(SubSeq(list, 1, at - 1) \o SubSeq(list, at + Len(sought), Len(list)), sought)

\* Where a multifield is sought in a view that begins behind the contents' beginning.
Skewed(sought) == ~sought.single /\ value.begin # 0

(* delete-member$ removes what it is given and nothing else, for a field, and
   for a multifield where the contents begin with the view.                *)
NoMemberRemains ==
    status = "fields" =>
    \A F \in Args : F.range # 0 /\ ~Skewed(F) =>
        Seen(DeleteMember(value, F)) = Without(shown, Seen(F))

(* What the functions on multifields answer, on every view.                *)
FieldsInv ==
    /\ FieldsTypeOK
    /\ PlacesAreRelative
    /\ MembersAreFound
    /\ ReplacedOnce
    /\ SetsKeepOrder
    /\ NoMemberRemains
=============================================================================
