------------------------------ MODULE FcoName ------------------------------
(***************************************************************************)
(* cFCOName and its name table (fco/fconame.cpp, fco/fconametbl.cpp).  A   *)
(* name is a counted list of nodes that several cFCOName objects share     *)
(* until one of them changes it; a node is a counted string that every     *)
(* name with this part shares, so that names are compared by the           *)
(* addresses of their nodes.                                               *)
(***************************************************************************)
EXTENDS SequencesExt, FiniteSetsExt

CONSTANTS
    Handles,        \* the cFCOName objects
    Texts,          \* the strings names are made from: sequences of characters
    Parts,          \* the strings that are pushed
    Slash,          \* the delimiting character
    LowerChar,      \* character -> character, tolower
    DoubleSlash,    \* SUPPORTS_DOUBLE_SLASH_PATH
    HeapOrders,     \* node -> address: what the heap may return, node by node
    MaxLen,         \* bound on the parts of a name that is pushed to
    NoName          \* the object does not exist

VARIABLES
    pathName,    \* Handles -> list, or 0: mpPathName of the objects that exist
    sensitive,   \* Handles -> BOOLEAN, mbCaseSensitive
    lists,       \* list -> [count, names], the cFCOName_i objects
    nodes,       \* node -> [count, str, lower], in the order they were created
    table,       \* the hash table of names: string -> node
    heap,        \* the one of HeapOrders this heap follows
    cleared      \* ClearNameTable was called

vars == <<pathName, sensitive, lists, nodes, table, heap, cleared>>

NoList == [count |-> 0, names |-> <<>>]
Lists == 1 .. Cardinality(Handles)
Live == {h \in Handles : pathName[h] # 0}
List(h) == lists[pathName[h]]
Names(h) == List(h).names

Lower(s) == [i \in DOMAIN s |-> LowerChar[s[i]]]

Init ==
    /\ pathName = [h \in Handles |-> 0]
    /\ sensitive = [h \in Handles |-> TRUE]
    /\ lists = [l \in Lists |-> NoList]
    /\ nodes = <<>>
    /\ table = <<>>
    /\ heap \in HeapOrders
    /\ cleared = FALSE

-----------------------------------------------------------------------------
(* The table of nodes; t is a record [nodes, table] *)

AddRef(ns, n) == [ns EXCEPT ![n].count = @ + 1]

(* Variant: the last reference leaves the lower-case node as it is.        *)
ReleaseKeepingLower(ns, n) == [ns EXCEPT ![n].count = @ - 1]
(* cRefCountObj::Release and ~cFCONameTblNode: the last reference of a     *)
(* node takes the node's reference of its lower-case node along, which has *)
(* none itself.                                                            *)
Release(ns, n) ==
    LET low == ns[n].lower
        dec == [ns EXCEPT ![n].count = @ - 1]
    IN IF dec[n].count = 0 /\ low # 0 THEN [dec EXCEPT ![low].count = @ - 1] ELSE dec

\* A node the table alone refers to.
Added(t, s) == [nodes |-> Append(t.nodes, [count |-> 1, str |-> s, lower |-> 0]),
                table |-> t.table @@ (s :> Len(t.nodes) + 1)]

\* SetLowercaseNode; a node that would be its own is left without one.
WithLower(t, n, low) ==
    IF low = n THEN t
    ELSE [t EXCEPT !.nodes = [AddRef(t.nodes, low) EXCEPT ![n].lower = low]]

(* Variant: the node of the lower-case form is not made.                   *)
CreateNodeAlone(t, s) ==
    LET own == IF s \in DOMAIN t.table THEN t ELSE Added(t, s)
    IN [own EXCEPT !.nodes = AddRef(@, own.table[s])]
(* cFCONameTbl::CreateNode: the node of string s, created with that of its *)
(* lower-case form if the table has none, and referred to once more.       *)
CreateNode(t, s) ==
    LET own  == IF s \in DOMAIN t.table THEN t ELSE Added(t, s)
        both == IF Lower(s) \in DOMAIN own.table THEN own ELSE Added(own, Lower(s))
        full == IF s \in DOMAIN t.table THEN t
                ELSE WithLower(both, both.table[s], both.table[Lower(s)])
    IN [full EXCEPT !.nodes = AddRef(@, full.table[s])]

Table == [nodes |-> nodes, table |-> table]
ReleaseAll(ns, names) == FoldLeft(Release, ns, names)

-----------------------------------------------------------------------------
(* Strings *)

Leading == IF DoubleSlash THEN 2 ELSE 1

\* ParseString: each delimiter ends a part; an empty one counts only in front.
EndPart(acc) ==
    [names |-> IF acc.part # <<>> \/ acc.components < Leading
               THEN Append(acc.names, acc.part) ELSE acc.names,
     part |-> <<>>, components |-> acc.components + 1]

ParseString(text) ==
    LET step(acc, c) == IF c = Slash THEN EndPart(acc) ELSE [acc EXCEPT !.part = Append(@, c)]
        scanned == FoldLeft(step, [names |-> <<>>, part |-> <<>>, components |-> 0], text)
    IN IF text = <<>> \/ Last(text) = Slash THEN scanned.names ELSE EndPart(scanned).names

\* AsString: a name of one part ends with a delimiter.
AsString(h) ==
    LET strs == [i \in DOMAIN Names(h) |-> nodes[Names(h)[i]].str]
    IN IF Len(strs) = 1 THEN Append(strs[1], Slash)
       ELSE FlattenSeq([i \in DOMAIN strs |-> IF i = 1 THEN strs[1] ELSE <<Slash>> \o strs[i]])

-----------------------------------------------------------------------------
(* The calls on names *)

NewList == CHOOSE l \in Lists : lists[l] = NoList /\ \A k \in Lists : k < l => lists[k] # NoList

\* The list of h afterwards is a new one, or its own, with parts strs.
HoldsParts(h, l, strs, rest, ns) ==
    LET create(acc, s) == LET t == CreateNode(acc.t, s)
                          IN [t |-> t, names |-> Append(acc.names, t.table[s])]
        made == FoldLeft(create, [t |-> [nodes |-> ns, table |-> table], names |-> <<>>], strs)
    IN /\ lists' = [rest EXCEPT ![l] = [count |-> 1, names |-> made.names]]
       /\ pathName' = [pathName EXCEPT ![h] = l]
       /\ nodes' = made.t.nodes
       /\ table' = made.t.table

\* cFCOName_i::Release: the last one gives the nodes back.
ListReleased(l) == IF lists[l].count = 1 THEN [lists EXCEPT ![l] = NoList]
                   ELSE [lists EXCEPT ![l].count = @ - 1]
NodesReleased(l) == IF lists[l].count = 1 THEN ReleaseAll(nodes, lists[l].names) ELSE nodes

\* cFCOName(): an empty name with the flag of the name info.
MakeEmpty(h) ==
    /\ h \notin Live
    /\ lists' = [lists EXCEPT ![NewList] = [count |-> 1, names |-> <<>>]]
    /\ pathName' = [pathName EXCEPT ![h] = NewList]
    /\ sensitive' = [sensitive EXCEPT ![h] = TRUE]
    /\ UNCHANGED <<nodes, table>>

\* cFCOName(string)
Make(h) ==
    /\ h \notin Live
    /\ \E t \in Texts : HoldsParts(h, NewList, ParseString(t), lists, nodes)
    /\ sensitive' = [sensitive EXCEPT ![h] = TRUE]

\* Read, of a name that was just made, of what Write wrote of name g.
ReadBack(h) ==
    /\ h \notin Live
    /\ \E g \in Live : /\ HoldsParts(h, NewList, ParseString(AsString(g)), lists, nodes)
                       /\ sensitive' = [sensitive EXCEPT ![h] = sensitive[g]]

\* cFCOName(name)
Copy(h) ==
    /\ h \notin Live
    /\ \E g \in Live :
          /\ lists' = [lists EXCEPT ![pathName[g]].count = @ + 1]
          /\ pathName' = [pathName EXCEPT ![h] = pathName[g]]
          /\ sensitive' = [sensitive EXCEPT ![h] = sensitive[g]]
    /\ UNCHANGED <<nodes, table>>

Drop(h) ==
    /\ h \in Live
    /\ lists' = ListReleased(pathName[h])
    /\ nodes' = NodesReleased(pathName[h])
    /\ pathName' = [pathName EXCEPT ![h] = 0]
    /\ sensitive' = [sensitive EXCEPT ![h] = TRUE]
    /\ UNCHANGED table

(* operator=(name) releases the list it has before it looks at that of the *)
(* other name: a name with a list of its own is never assigned to itself.  *)
Assign(h) ==
    /\ h \in Live
    /\ \E g \in Live :
          /\ g = h => List(h).count > 1
          /\ LET l == pathName[h]
             IN lists' = [ListReleased(l) EXCEPT ![pathName[g]].count = @ + 1]
          /\ nodes' = NodesReleased(pathName[h])
          /\ pathName' = [pathName EXCEPT ![h] = pathName[g]]
          /\ sensitive' = [sensitive EXCEPT ![h] = sensitive[g]]
    /\ UNCHANGED table

\* operator=(string) uses its list again if no other name has it.
AssignText(h) ==
    /\ h \in Live
    /\ \E t \in Texts :
          IF List(h).count # 1
          THEN HoldsParts(h, NewList, ParseString(t), ListReleased(pathName[h]), nodes)
          ELSE HoldsParts(h, pathName[h], ParseString(t), lists, ReleaseAll(nodes, Names(h)))
    /\ UNCHANGED sensitive

(* Variant: the list is changed where it is.                               *)
OwnListShared(h) == pathName[h]
(* CopyOnModify: the list of h with what it holds, for h alone.  The calls *)
(* that change a name go on with this list.                                *)
OwnList(h) == IF List(h).count > 1 THEN NewList ELSE pathName[h]
ListsOwned(h) == IF List(h).count > 1 THEN ListReleased(pathName[h]) ELSE lists
NodesOwned(h) == IF List(h).count > 1 THEN FoldLeft(AddRef, nodes, Names(h)) ELSE nodes

Modified(h, names) ==
    /\ lists' = [ListsOwned(h) EXCEPT ![OwnList(h)] = [count |-> 1, names |-> names]]
    /\ pathName' = [pathName EXCEPT ![h] = OwnList(h)]
    /\ UNCHANGED sensitive

Push(h) ==
    /\ h \in Live
    /\ Len(Names(h)) < MaxLen
    /\ \E s \in Parts :
          LET t == CreateNode([Table EXCEPT !.nodes = NodesOwned(h)], s)
          IN /\ Modified(h, Append(Names(h), t.table[s]))
             /\ nodes' = t.nodes
             /\ table' = t.table

Pop(h) ==
    /\ h \in Live /\ Names(h) # <<>>
    /\ Modified(h, Front(Names(h)))
    /\ nodes' = Release(NodesOwned(h), Last(Names(h)))
    /\ UNCHANGED table

PopFront(h) ==
    /\ h \in Live /\ Names(h) # <<>>
    /\ Modified(h, Tail(Names(h)))
    /\ nodes' = Release(NodesOwned(h), Head(Names(h)))
    /\ UNCHANGED table

\* Clear pops until nothing is left; an empty name keeps its list.
Clear(h) ==
    /\ h \in Live /\ Names(h) # <<>>
    /\ Modified(h, <<>>)
    /\ nodes' = ReleaseAll(NodesOwned(h), Reverse(Names(h)))
    /\ UNCHANGED table

SetCaseSensitive(h) ==
    /\ h \in Live
    /\ sensitive' = [sensitive EXCEPT ![h] = ~@]
    /\ UNCHANGED <<pathName, lists, nodes, table>>

\* ClearNameTable, when the program is done with its names.
ClearNameTable ==
    /\ Live = {}
    /\ nodes' = FoldLeft(Release, nodes, SetToSeq({table[s] : s \in DOMAIN table}))
    /\ table' = <<>>
    /\ cleared' = TRUE
    /\ UNCHANGED <<pathName, sensitive, lists, heap>>

Next ==
    /\ ~cleared
    /\ \/ /\ \E h \in Handles :
                \/ MakeEmpty(h) \/ Make(h) \/ ReadBack(h) \/ Copy(h) \/ Drop(h)
                \/ Assign(h) \/ AssignText(h) \/ Push(h) \/ Pop(h) \/ PopFront(h)
                \/ Clear(h) \/ SetCaseSensitive(h)
          /\ UNCHANGED <<heap, cleared>>
       \/ ClearNameTable

Spec == Init /\ [][Next]_vars

-----------------------------------------------------------------------------
(* Comparing names *)

\* GetLowercaseNode
LowercaseNode(n) == IF nodes[n].lower = 0 THEN n ELSE nodes[n].lower

Sensitive(g, h) == sensitive[g] \/ sensitive[h]
Key(n, s) == IF s THEN n ELSE LowercaseNode(n)
Keys(g, h) == [i \in DOMAIN Names(g) |-> Key(Names(g)[i], Sensitive(g, h))]

\* GetRelationship
Relationship(g, h) ==
    LET mine == Keys(g, h)
        his  == Keys(h, g)
    IN IF pathName[g] = pathName[h] THEN "equal"
       ELSE IF \E i \in DOMAIN mine \cap DOMAIN his : mine[i] # his[i] THEN "unrelated"
       ELSE IF Len(mine) = Len(his) THEN "equal"
       ELSE IF Len(mine) < Len(his) THEN "above" ELSE "below"

\* operator<, by the addresses of the nodes
Less(g, h) ==
    LET mine == Keys(g, h)
        his  == Keys(h, g)
        diff == {i \in DOMAIN mine \cap DOMAIN his : mine[i] # his[i]}
    IN /\ pathName[g] # pathName[h]
       /\ IF diff # {} THEN heap[mine[Min(diff)]] < heap[his[Min(diff)]]
          ELSE Len(mine) < Len(his)

-----------------------------------------------------------------------------
(* Properties *)

Value(h) == IF h \in Live THEN [i \in DOMAIN Names(h) |-> nodes[Names(h)[i]].str] ELSE NoName

V == INSTANCE NameValues WITH value <- [h \in Handles |-> Value(h)]

(* Sharing lists and nodes is never seen: a call changes the name it is    *)
(* made on, and a name that is written and read is the name it was.        *)
ImplementsNameValues == V!Spec

(* Every count is the number of references there are: of the objects to a  *)
(* list; of the table, of the lists and of the other nodes to a node.  So  *)
(* none is released too early, and nothing is left after ClearNameTable.   *)
CountsExact ==
    /\ \A l \in Lists : lists[l].count = Cardinality({h \in Live : pathName[h] = l})
    /\ \A n \in DOMAIN nodes :
          nodes[n].count = Cardinality({s \in DOMAIN table : table[s] = n})
              + Cardinality({m \in DOMAIN nodes : nodes[m].count > 0 /\ nodes[m].lower = n})
              + Cardinality(UNION {{<<l, i>> : i \in {j \in DOMAIN lists[l].names :
                                        lists[l].names[j] = n}} : l \in Lists})

Folded(g, h) == IF Sensitive(g, h) THEN Value(g) ELSE [i \in DOMAIN Value(g) |-> Lower(Value(g)[i])]

(* What two names are to each other by the addresses of their nodes is     *)
(* what their strings are, and operator< orders names that are compared    *)
(* the same way: a set of names holds each once and finds it again.        *)
ComparisonsRight ==
    \A g, h \in Live :
        /\ Relationship(g, h) = CASE Folded(g, h) = Folded(h, g) -> "equal"
                                  [] IsStrictPrefix(Folded(g, h), Folded(h, g)) -> "above"
                                  [] IsStrictPrefix(Folded(h, g), Folded(g, h)) -> "below"
                                  [] OTHER -> "unrelated"
        /\ (Less(g, h) \/ Less(h, g)) <=> Folded(g, h) # Folded(h, g)
        /\ ~(Less(g, h) /\ Less(h, g))
        /\ \A k \in Live : sensitive[g] = sensitive[h] /\ sensitive[h] = sensitive[k]
                               /\ Less(g, h) /\ Less(h, k) => Less(g, k)
=============================================================================
