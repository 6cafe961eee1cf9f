----------------------------- MODULE HierDatabase -----------------------------
(* cHierDatabase and cHierDatabaseIter (db/hierdatabase.cpp).  The tree is  *)
(* kept in records of a record file: one record per array of children (its  *)
(* parent and its first entry), one per entry, in a linked list sorted by   *)
(* name, one per payload.  An iterator holds a copy of the array it is in   *)
(* and finds the address of an entry in that copy; it is never told of a    *)
(* change made through another.  The program passes iterators by value down *)
(* its recursions, so the state holds a stack of them.                      *)
EXTENDS Naturals, Sequences, SequencesExt, FiniteSets

CONSTANTS Addr,       \* the addresses the record file can hand out
          Root,       \* mRootArrayAddr, the root array's record
          Null,       \* the null address
          Name,       \* names; their order is <, a set of integers
          TreePayload, NoPayload,
          MaxDepth    \* bound on the depth of the tree

ASSUME HierAssumption == /\ Root \in Addr /\ Null \notin Addr
                         /\ Name \subseteq Nat /\ NoPayload \notin TreePayload
                         /\ MaxDepth \in Nat \ {0}

VARIABLES records,  \* [the addresses in use -> the node stored there]
          iters,    \* the stack of iterators, innermost last
          checked   \* paths that were entered by ProcessChangedFCO in this pass

treeVars == <<records, iters, checked>>

-----------------------------------------------------------------------------
(* Nodes.                                                                   *)
ArrayInfo(parent, array) == [type |-> "info", parent |-> parent, array |-> array]
Entry(name, data, child, next) ==
  [type |-> "entry", name |-> name, data |-> data, child |-> child, next |-> next]
Data(d) == [type |-> "data", value |-> d]

Link == Addr \cup {Null}
Node == [type : {"info"}, parent : Link, array : Link]
          \cup [type : {"entry"}, name : Name, data : Link, child : Link, next : Link]
          \cup [type : {"data"}, value : TreePayload]

Used == DOMAIN records
Holds(recs, a, type) == a \in DOMAIN recs /\ recs[a].type = type

(* AddItem, RemoveItem and rewriting in place, of the record file.          *)
Add(recs, a, node)     == [b \in DOMAIN recs \cup {a} |-> IF b = a THEN node ELSE recs[b]]
Drop(recs, a)          == [b \in DOMAIN recs \ {a} |-> recs[b]]
Rewrite(recs, a, node) == [recs EXCEPT ![a] = node]

-----------------------------------------------------------------------------
(* Iterators.  iter is the position in entries, Len(entries) + 1 when done. *)
Done(f)       == f.iter > Len(f.entries)
Current(f)    == f.entries[f.iter]
CanDescend(f) == ~Done(f) /\ Current(f).child # Null
HasData(f)    == ~Done(f) /\ Current(f).data # Null
AtRoot(f)     == f.infoAddr = Root
CurrentAddr(f) == IF f.iter = 1 THEN f.info.array ELSE f.entries[f.iter - 1].next
PathOf(f)     == Append(f.path, Current(f).name)

(* The addresses of the list that starts at a, as far as entries can be     *)
(* read: LoadArrayAt reports a record it cannot read and keeps what came    *)
(* before it.                                                               *)
AddrsFrom(recs, a) ==
  LET list[n \in Nat] ==
        [b \in Link |-> IF n = 0 \/ ~Holds(recs, b, "entry")
                       THEN <<>>
                       ELSE <<b>> \o list[n - 1][recs[b].next]]
  IN  list[Cardinality(DOMAIN recs)][a]
ListFrom(recs, a) == LET addrs == AddrsFrom(recs, a)
                     IN  [k \in DOMAIN addrs |-> recs[addrs[k]]]

LoadArrayAt(recs, a, path, call) ==
  [info |-> recs[a], infoAddr |-> a, entries |-> ListFrom(recs, recs[a].array),
   iter |-> 1, path |-> path, call |-> call]

UpperBound(f, name) ==
  1 + Cardinality({k \in DOMAIN f.entries : f.entries[k].name < name})
Names(f) == {f.entries[k].name : k \in DOMAIN f.entries}

Top == Last(iters)
SetTop(f) == iters' = [iters EXCEPT ![Len(iters)] = f]

(* The part of an entry in the iterator's own copy that an update changes,  *)
(* and the entry on disk it is then written over.                           *)
UpdateCurrent(recs, f, entry) ==
  /\ records' = Rewrite(recs, CurrentAddr(f), entry)
  /\ SetTop([f EXCEPT !.entries[f.iter] = entry])

-----------------------------------------------------------------------------
(* "edit": database generation, update and pruning.  "dir" and "fco": the   *)
(* recursion ProcessDir -> ProcessChangedFCO -> ProcessDir of a check that  *)
(* is made for a policy update.                                             *)
TreeInit == /\ records = [a \in {Root} |-> ArrayInfo(Null, Null)]
            /\ iters = <<LoadArrayAt(records, Root, <<>>, "edit")>>
            /\ checked = {}

(* A new iterator, when no call is in progress.                             *)
NewIterator(call) ==
  /\ Len(iters) = 1
  /\ iters' = <<LoadArrayAt(records, Root, <<>>, call)>>
  /\ checked' = {}
  /\ UNCHANGED records

Edits == Top.call = "edit"

Descend == /\ Len(iters) = 1 /\ CanDescend(Top)
           /\ SetTop(LoadArrayAt(records, Current(Top).child, PathOf(Top), Top.call))
           /\ UNCHANGED <<records, checked>>
(* Variant: the path keeps its last name.                                   *)
AscendKeepingPath ==
  /\ Len(iters) = 1 /\ ~AtRoot(Top)
  /\ SetTop(LoadArrayAt(records, Top.info.parent, Top.path, Top.call))
  /\ UNCHANGED <<records, checked>>
Ascend  == /\ Len(iters) = 1 /\ ~AtRoot(Top)
           /\ SetTop(LoadArrayAt(records, Top.info.parent, Front(Top.path), Top.call))
           /\ UNCHANGED <<records, checked>>
SeekBegin == /\ Top.call # "fco"
             /\ SetTop([Top EXCEPT !.iter = 1])
             /\ UNCHANGED <<records, checked>>
SeekTo(name) ==
  /\ Top.call # "fco"
  /\ SetTop([Top EXCEPT !.iter = IF name \in Names(Top)
                                 THEN UpperBound(Top, name) ELSE Len(Top.entries) + 1])
  /\ UNCHANGED <<records, checked>>
NextEntry == /\ Top.call # "fco" /\ ~Done(Top)
             /\ SetTop([Top EXCEPT !.iter = @ + 1])
             /\ UNCHANGED <<records, checked>>

CreateChildArray(a) ==
  /\ Edits /\ ~Done(Top) /\ ~CanDescend(Top)
  /\ Len(PathOf(Top)) < MaxDepth
  /\ a \notin Used
  /\ UpdateCurrent(Add(records, a, ArrayInfo(Top.infoAddr, Null)), Top,
                   [Current(Top) EXCEPT !.child = a])
  /\ UNCHANGED checked

(* Variant: the iterator's own copy is not updated.                         *)
LinkOnDiskOnly(recs, f, a) ==
  /\ records' = IF f.iter = 1
                THEN Rewrite(recs, f.infoAddr, [f.info EXCEPT !.array = a])
                ELSE Rewrite(recs, CurrentAddr([f EXCEPT !.iter = @ - 1]),
                             [f.entries[f.iter - 1] EXCEPT !.next = a])
  /\ SetTop(f)
(* The new entry is written first, then the link to it: in the array's      *)
(* record, or in the entry before it.                                       *)
LinkTo(recs, f, a) ==
  IF f.iter = 1
  THEN /\ records' = Rewrite(recs, f.infoAddr, [f.info EXCEPT !.array = a])
       /\ SetTop([f EXCEPT !.info.array = a])
  ELSE LET before == [f EXCEPT !.iter = @ - 1]
           linked == [Current(before) EXCEPT !.next = a]
       IN  /\ records' = Rewrite(recs, CurrentAddr(before), linked)
           /\ SetTop([f EXCEPT !.entries[f.iter - 1] = linked])

CreateEntry(name, a) ==
  LET f == [Top EXCEPT !.iter = UpperBound(Top, name)]
      entry == Entry(name, Null, Null, IF Done(f) THEN Null ELSE CurrentAddr(f))
  IN  /\ Edits /\ a \notin Used /\ name \notin Names(Top)
      /\ LinkTo(Add(records, a, entry),
                [f EXCEPT !.entries = InsertAt(@, f.iter, entry)], a)
      /\ UNCHANGED checked

CreateExistingEntry(name) ==
  /\ Edits /\ name \in Names(Top)
  /\ SetTop([Top EXCEPT !.iter = UpperBound(Top, name)])
  /\ UNCHANGED <<records, checked>>

RemoveData ==
  /\ Top.call # "dir" /\ HasData(Top)
  /\ UpdateCurrent(Drop(records, Current(Top).data), Top,
                   [Current(Top) EXCEPT !.data = Null])
  /\ UNCHANGED checked

(* Variant: the old data's record is not removed.                           *)
SetDataOverOld(d, a) ==
  /\ Top.call # "dir" /\ ~Done(Top)
  /\ a \notin Used
  /\ UpdateCurrent(Add(records, a, Data(d)), Top, [Current(Top) EXCEPT !.data = a])
  /\ UNCHANGED checked
SetData(d, a) ==
  LET recs == IF HasData(Top) THEN Drop(records, Current(Top).data) ELSE records
  IN  /\ Top.call # "dir" /\ ~Done(Top)
      /\ a \notin DOMAIN recs
      /\ UpdateCurrent(Add(recs, a, Data(d)), Top, [Current(Top) EXCEPT !.data = a])
      /\ UNCHANGED checked

(* Variant: what follows the deleted entry is not linked to again.          *)
DeleteEntryAndRest ==
  LET without == [Top EXCEPT !.entries = RemoveAt(@, Top.iter)]
  IN  /\ Edits /\ ~Done(Top) /\ ~CanDescend(Top) /\ ~HasData(Top)
      /\ LinkTo(Drop(records, CurrentAddr(Top)), without, Null)
      /\ UNCHANGED checked
(* RemoveFCO, the only caller, does not delete an entry that has data.      *)
DeleteEntry ==
  LET next == Current(Top).next
      without == [Top EXCEPT !.entries = RemoveAt(@, Top.iter)]
  IN  /\ Edits /\ ~Done(Top) /\ ~CanDescend(Top) /\ ~HasData(Top)
      /\ LinkTo(Drop(records, CurrentAddr(Top)), without, next)
      /\ UNCHANGED checked

ChildArrayEmpty(f) == records[Current(f).child].array = Null

DeleteChildArray ==
  /\ Edits /\ CanDescend(Top) /\ ChildArrayEmpty(Top)
  /\ UpdateCurrent(Drop(records, Current(Top).child), Top,
                   [Current(Top) EXCEPT !.child = Null])
  /\ UNCHANGED checked

-----------------------------------------------------------------------------
(* Calls that take an iterator by value.                                    *)

(* util_ProcessDir, util_PruneExtraObjects, ProcessDir: the copy descends.  *)
EnterDirectory ==
  /\ Top.call \in {"edit", "fco"} /\ CanDescend(Top)
  /\ iters' = Append(iters, LoadArrayAt(records, Current(Top).child, PathOf(Top),
                                        IF Edits THEN "edit" ELSE "dir"))
  /\ UNCHANGED <<records, checked>>

(* ProcessChangedFCO: no object belongs to two rules, so none is entered    *)
(* twice in a pass.                                                         *)
EnterFCO ==
  /\ Top.call = "dir" /\ ~Done(Top) /\ PathOf(Top) \notin checked
  /\ iters' = Append(iters, [Top EXCEPT !.call = "fco"])
  /\ checked' = checked \cup {PathOf(Top)}
  /\ UNCHANGED records

(* The caller goes on with its own copy; ProcessDir with the next entry.    *)
Return ==
  /\ Len(iters) > 1
  /\ LET caller == iters[Len(iters) - 1]
     IN  iters' = Append(SubSeq(iters, 1, Len(iters) - 2),
                         IF Top.call = "fco" THEN [caller EXCEPT !.iter = @ + 1] ELSE caller)
  /\ UNCHANGED <<records, checked>>

TreeNext == \/ \E call \in {"edit", "dir"} : NewIterator(call)
            \/ Descend \/ Ascend \/ SeekBegin \/ NextEntry
            \/ \E name \in Name : SeekTo(name) \/ CreateExistingEntry(name)
            \/ \E a \in Addr : \/ CreateChildArray(a)
                               \/ \E name \in Name : CreateEntry(name, a)
                               \/ \E d \in TreePayload : SetData(d, a)
            \/ RemoveData \/ DeleteEntry \/ DeleteChildArray
            \/ EnterDirectory \/ EnterFCO \/ Return

TreeSpec == TreeInit /\ [][TreeNext]_treeVars

-----------------------------------------------------------------------------
(* The bounds of the variables.                                             *)
IteratorType ==
  [info : [type : {"info"}, parent : Link, array : Link], infoAddr : Addr,
   entries : Seq([type : {"entry"}, name : Name, data : Link, child : Link, next : Link]),
   iter : Nat \ {0}, path : SeqOf(Name, MaxDepth), call : {"edit", "dir", "fco"}]
TreeTypeOK ==
  /\ Used \subseteq Addr /\ \A a \in Used : records[a] \in Node
  /\ \A n \in DOMAIN iters : iters[n] \in IteratorType /\ iters[n].iter <= Len(iters[n].entries) + 1
  /\ checked \subseteq SeqOf(Name, MaxDepth)

Infos      == {a \in Used : records[a].type = "info"}
EntryAddrs == {a \in Used : records[a].type = "entry"}
ArrayOf(recs, a) == AddrsFrom(recs, recs[a].array)

(* The list of every array ends, and its names are in strictly increasing   *)
(* order, which is what SeekTo's binary search and the merge of two         *)
(* iterators in ProcessDir rely on; together the lists hold every entry.    *)
ListsSorted ==
  /\ \A a \in Infos : LET list == ArrayOf(records, a)
                      IN  /\ list # <<>> => records[Last(list)].next = Null
                          /\ \A j, k \in DOMAIN list :
                               j < k => records[list[j]].name < records[list[k]].name
  /\ EntryAddrs = UNION {ToSet(ArrayOf(records, a)) : a \in Infos}

(* No record is leaked, shared or freed while something points to it: every *)
(* record but the root array's is the target of exactly one link, of the    *)
(* kind that fits it, and no link leads anywhere else.                      *)
Links == {<<a, "array", records[a].array>> : a \in Infos}
           \cup {<<a, "data", records[a].data>> : a \in EntryAddrs}
           \cup {<<a, "child", records[a].child>> : a \in EntryAddrs}
           \cup {<<a, "next", records[a].next>> : a \in EntryAddrs}
Target == [array |-> "entry", next |-> "entry", child |-> "info", data |-> "data"]
OneOwner ==
  LET set == {l \in Links : l[3] # Null}
  IN  /\ \A l \in set : Holds(records, l[3], Target[l[2]])
      /\ \A a \in Used \ {Root} : Cardinality({l \in set : l[3] = a}) = 1

(* Ascend follows mParent: it leads to the array that holds the entry whose *)
(* children these are.                                                      *)
ParentsRight ==
  /\ records[Root].parent = Null
  /\ \A a \in Infos : \A e \in ToSet(ArrayOf(records, a)) :
       records[e].child # Null => records[records[e].child].parent = a

(* The records of the file are a tree of sorted lists, whatever has been    *)
(* inserted, deleted and rewritten through any of the iterators.            *)
WellFormed == OneOwner /\ ParentsRight /\ ListsSorted

(* Every iterator on the stack, whatever the calls above it have done, has  *)
(* the array as it is on disk.  The one thing it may have missed is the new *)
(* address of the data of an entry that a ProcessChangedFCO has rewritten,  *)
(* and never that of the entry it is itself about to rewrite.               *)
Agree(f, k, disk) ==
  \/ f.entries[k] = disk
  \/ /\ Append(f.path, disk.name) \in checked
     /\ f.call = "dir" \/ (f.call = "fco" /\ k # f.iter)
     /\ f.entries[k] = [disk EXCEPT !.data = f.entries[k].data]
CopiesCurrent ==
  \A n \in DOMAIN iters :
    LET f == iters[n]
        disk == ListFrom(records, records[f.infoAddr].array)
    IN  /\ f.info = records[f.infoAddr]
        /\ Len(f.entries) = Len(disk)
        /\ \A k \in DOMAIN disk : Agree(f, k, disk[k])

-----------------------------------------------------------------------------
(* The tree that the records hold: the entries, each at its path, from the  *)
(* root array's down, and the arrays of children.                           *)
EntriesIn(recs, path, array) ==
  {[path |-> Append(path, recs[e].name), addr |-> e] : e \in ToSet(ArrayOf(recs, array))}
Placed(recs) ==
  LET at[n \in 1..MaxDepth] ==
        IF n = 1
        THEN EntriesIn(recs, <<>>, Root)
        ELSE UNION {IF recs[x.addr].child = Null THEN {} ELSE EntriesIn(recs, x.path, recs[x.addr].child)
                    : x \in at[n - 1]}
  IN  UNION {at[n] : n \in 1..MaxDepth}
Arrays(recs) ==
  {[path |-> <<>>, array |-> Root]}
    \cup {[path |-> x.path, array |-> recs[x.addr].child]
          : x \in {y \in Placed(recs) : recs[y.addr].child # Null}}

PayloadAt(recs, e) == IF recs[e].data = Null THEN NoPayload ELSE recs[recs[e].data].value
DataOf(recs) == LET placed == Placed(recs)
                IN  [p \in {x.path : x \in placed} |->
                       PayloadAt(recs, (CHOOSE x \in placed : x.path = p).addr)]
TreeData   == DataOf(records)
TreeArrays == {x.path : x \in Arrays(records)}

(* An iterator is in the array its path names: GetName of an object is made *)
(* from the path, its data from the array.                                  *)
PathMatchesArray ==
  \A n \in DOMAIN iters :
    [path |-> iters[n].path, array |-> iters[n].infoAddr] \in Arrays(records)

(* The records are a tree of sorted lists in which each has one owner; an   *)
(* iterator is in the array its path names, and its copies are as on disk,  *)
(* but for what its caller cannot need.                                     *)
TreeWellFormed == TreeTypeOK /\ WellFormed /\ PathMatchesArray /\ CopiesCurrent

(* Seen from outside, the records are a tree of named entries: each call    *)
(* changes the one entry the iterator is at and no other.                   *)
Tree == INSTANCE HierTree WITH Payload <- TreePayload, data <- TreeData, arrays <- TreeArrays
ImplementsHierTree == Tree!Spec
=============================================================================
