----------------------------- MODULE NameValues -----------------------------
(***************************************************************************)
(* What cFCOName promises (fco/fconame.h): each name is a value of its     *)
(* own, a list of parts.  A call changes the name it is made on, and no    *)
(* other one.  Nothing here is shared and nothing is counted.              *)
(***************************************************************************)
EXTENDS SequencesExt

CONSTANTS
    Handles,     \* the cFCOName objects
    Texts,       \* the strings names are made from: sequences of characters
    Parts,       \* the strings that are pushed
    Slash,       \* the delimiting character
    Leading,     \* how many empty parts a name may begin with
    MaxLen,      \* bound on the parts of a name
    NoName       \* the object does not exist

VARIABLE value   \* Handles -> sequence of parts, or NoName

Live == {h \in Handles : value[h] # NoName}

(* The parts of a string: its longest runs without a delimiter, from left  *)
(* to right, after one empty part for each delimiter it begins with.       *)
Starts(t) == {i \in DOMAIN t : t[i] # Slash /\ (i = 1 \/ t[i - 1] = Slash)}
RunFrom(t, i) == LET ends == {j \in i .. Len(t) : \A k \in i .. j : t[k] # Slash}
                 IN SubSeq(t, i, CHOOSE j \in ends : \A k \in ends : k <= j)
Begins(t) == {n \in 0 .. Leading : n <= Len(t) /\ \A i \in 1 .. n : t[i] = Slash}
PartsOf(t) ==
    LET starts == SetToSortSeq(Starts(t), <)
        n      == CHOOSE k \in Begins(t) : \A j \in Begins(t) : j <= k
    IN [i \in 1 .. n |-> <<>>] \o [i \in DOMAIN starts |-> RunFrom(t, starts[i])]

Init == value = [h \in Handles |-> NoName]

\* The calls on h, and what its value is after them.
Make(h) == h \notin Live /\ value'[h] \in {<<>>} \cup {PartsOf(t) : t \in Texts}
Copy(h) == h \notin Live /\ value'[h] \in {value[g] : g \in Live}
Drop(h) == h \in Live /\ value'[h] = NoName
Assign(h) == h \in Live /\ value'[h] \in {value[g] : g \in Live} \cup {PartsOf(t) : t \in Texts}
Push(h) == h \in Live /\ Len(value[h]) < MaxLen /\ value'[h] \in {Append(value[h], p) : p \in Parts}
Pop(h) == h \in Live /\ value[h] # <<>> /\ value'[h] = Front(value[h])
PopFront(h) == h \in Live /\ value[h] # <<>> /\ value'[h] = Tail(value[h])
Clear(h) == h \in Live /\ value'[h] = <<>>

Next == \E h \in Handles :
    /\ value' = [value EXCEPT ![h] = value'[h]]
    /\ \/ Make(h) \/ Copy(h) \/ Drop(h) \/ Assign(h)
       \/ Push(h) \/ Pop(h) \/ PopFront(h) \/ Clear(h)

Spec == Init /\ [][Next]_value
=============================================================================
