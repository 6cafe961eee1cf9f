------------------------------ MODULE HierTree ------------------------------
(* What a hierarchical database promises its clients: a tree of named       *)
(* entries.  A path is a non-empty sequence of names; an entry may carry    *)
(* data, and may have an array of children, which may be empty.  The root   *)
(* array, the path <<>>, always exists.                                     *)
EXTENDS Naturals, Sequences, SequencesExt, FiniteSets

CONSTANTS Name,       \* names of entries
          Payload,    \* what the data of an entry can be
          NoPayload,  \* the entry carries no data
          MaxDepth    \* bound on the length of a path

VARIABLES data,    \* [the paths that exist -> Payload or NoPayload]
          arrays   \* the paths that have an array of children

vars == <<data, arrays>>

Path == SeqOf(Name, MaxDepth) \ {<<>>}
Entries == DOMAIN data
ChildrenOf(p) == {q \in Entries : Front(q) = p}

Init == data = <<>> /\ arrays = {<<>>}

CreateEntry(p) == /\ p \notin Entries /\ Front(p) \in arrays
                  /\ data' = [q \in Entries \cup {p} |->
                                IF q = p THEN NoPayload ELSE data[q]]
                  /\ UNCHANGED arrays
SetData(p, d)  == /\ p \in Entries
                  /\ data' = [data EXCEPT ![p] = d]
                  /\ UNCHANGED arrays
DeleteEntry(p) == /\ p \in Entries \ arrays
                  /\ data[p] = NoPayload
                  /\ data' = [q \in Entries \ {p} |-> data[q]]
                  /\ UNCHANGED arrays
CreateChildArray(p) == /\ p \in Entries \ arrays
                       /\ arrays' = arrays \cup {p}
                       /\ UNCHANGED data
DeleteChildArray(p) == /\ p \in Entries \cap arrays
                       /\ ChildrenOf(p) = {}
                       /\ arrays' = arrays \ {p}
                       /\ UNCHANGED data

(* The paths whose entry, data or array of children a step changes.         *)
Touched == LET before == data
               after  == data'
           IN  {p \in Path : \/ (p \in DOMAIN before) # (p \in DOMAIN after)
                             \/ p \in DOMAIN before /\ before[p] # after[p]}
                 \cup ((arrays \ arrays') \cup (arrays' \ arrays))

Next == \E p \in Touched \cap Path : \/ CreateEntry(p)
                                     \/ DeleteEntry(p)
                                     \/ CreateChildArray(p)
                                     \/ DeleteChildArray(p)
                                     \/ \E d \in Payload \cup {NoPayload} : SetData(p, d)

Spec == Init /\ [][Next]_vars

(* Every entry hangs from an array that exists.                             *)
Rooted == /\ \A p \in Entries : Front(p) \in arrays
          /\ arrays \ {<<>>} \subseteq Entries
=============================================================================
