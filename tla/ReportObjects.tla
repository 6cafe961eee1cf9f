--------------------------- MODULE ReportObjects ---------------------------
(* The objects a report is made of, who owns them, and the file it is       *)
(* written to: rules, their attributes and the objects found different      *)
(* count their references (core/refcountobj.cpp); the list of rules         *)
(* (fco/fcospeclist.cpp), the nodes of the report (tw/fcoreport.cpp) and    *)
(* their sets (fco/fcosetimpl.cpp, fcosetws.h) hold them; the check         *)
(* (tripwire/integritycheck.cpp) makes and releases them; and a serializer  *)
(* (core/serializerimpl.cpp) writes each once and makes it again.           *)
EXTENDS Integers, FiniteSetsExt, SequencesExt

CONSTANTS Rule,       \* the start points of the rules, in the order of the policy
          Name,       \* the names of objects
          MaxFound    \* bound: objects looked at

VARIABLES phase,
          heap,        \* the objects ever made: what each is and how many refer to it
          mAddedList,  \* of the rules: pairs of a rule and its attributes
          todo,        \* the rules not checked yet
          found,       \* how many objects were looked at
          mSpecList,   \* the nodes of the report
          lost,        \* references that were dropped and not released
          stream,      \* the report's file
          was          \* what the report said when it was written

vars == <<phase, heap, mAddedList, todo, found, mSpecList, lost, stream, was>>

-----------------------------------------------------------------------------
(* Objects.  One that nobody refers to is gone: its count is 0.             *)
Make(h, kind, value) == Append(h, [kind |-> kind, value |-> value, count |-> 1])
AddRef(h, o)  == [h EXCEPT ![o].count = @ + 1]
Release(h, o) == [h EXCEPT ![o].count = @ - 1]
AddRefs(h, os)  == FoldLeft(AddRef, h, os)
Releases(h, os) == FoldLeft(Release, h, os)

(* A set holds one object of a name.                                        *)
NameOf(h, o) == h[o].value.name
Holds(h, set, o) == \E p \in set : NameOf(h, p) = NameOf(h, o)
ByName(h, set) == SetToSortSeq(set, LAMBDA p, q : NameOf(h, p) < NameOf(h, q))

NodeObjects(h, node) ==
  <<node.mpSpec, node.mpSpecAttr>> \o ByName(h, node.mAdded) \o ByName(h, node.mRemoved)
    \o FlattenSeq([i \in 1 .. Len(node.mChanged) |-> <<node.mChanged[i].old, node.mChanged[i].new>>])

(* Both sets of a node refer to its rule, too.                              *)
NodeRefs(h, node) == <<node.mpSpec, node.mpSpec>> \o NodeObjects(h, node)

-----------------------------------------------------------------------------
Init == /\ phase = "policy" /\ heap = <<>> /\ mAddedList = <<>> /\ todo = <<>> /\ found = 0
        /\ mSpecList = <<>> /\ lost = <<>> /\ stream = <<>> /\ was = <<>>

(* The parser makes a rule and its attributes, adds both to the list and    *)
(* releases them.                                                           *)
Add(h, spec, attr) == AddRef(AddRef(h, spec), attr)
ParsePolicy ==
  LET MakeRule(h, r) ==
        LET spec == Len(h) + 1
            attr == Len(h) + 2
            made == Make(Make(h, "spec", [start |-> r]), "attr", [of |-> r])
        IN Releases(Add(made, spec, attr), <<spec, attr>>)
  IN /\ phase = "policy" /\ phase' = "trim"
     /\ heap' = FoldLeft(MakeRule, <<>>, Rule)
     /\ mAddedList' = [i \in 1 .. Len(Rule) |-> [spec |-> 2 * i - 1, attr |-> 2 * i]]
     /\ UNCHANGED <<todo, found, mSpecList, lost, stream, was>>

(* The command may be told to check some of the rules.  The iterator that   *)
(* takes the others from the list does not release them.                    *)
TrimSpecs ==
  /\ phase = "trim" /\ phase' = "check"
  /\ \E kept \in SUBSET ToSet(mAddedList) :
       LET trimmed == SelectSeq(mAddedList, LAMBDA pair : pair \notin kept)
       IN /\ mAddedList' = SelectSeq(mAddedList, LAMBDA pair : pair \in kept)
          /\ lost' = FlattenSeq([i \in 1 .. Len(trimmed) |-> <<trimmed[i].spec, trimmed[i].attr>>])
  /\ todo' = mAddedList'
  /\ UNCHANGED <<heap, found, mSpecList, stream, was>>

(* A node of the report has a copy of the rule, which its two sets refer to *)
(* as well, and the attributes of the rule.                                 *)
SetSpecs(h, spec) == AddRefs(h, <<spec, spec>>)
EmptyNode(spec, attr) == [mpSpec |-> spec, mpSpecAttr |-> attr, mAdded |-> {}, mRemoved |-> {}, mChanged |-> <<>>]
AddSpec ==
  /\ phase = "check" /\ todo # <<>> /\ todo' = Tail(todo)
  /\ LET attr == Head(todo).attr
         copy == Len(heap) + 1
     IN /\ heap' = SetSpecs(AddRef(Make(heap, "spec", heap[Head(todo).spec].value), attr), copy)
        /\ mSpecList' = Append(mSpecList, EmptyNode(copy, attr))
  /\ UNCHANGED <<phase, mAddedList, found, lost, stream, was>>

LastNode == Len(mSpecList)
Checking == phase = "check" /\ mSpecList # <<>> /\ found < MaxFound
Looked == found' = found + 1 /\ UNCHANGED <<phase, mAddedList, todo, stream, was>>
Fco(name, from) == [name |-> name, from |-> from]

(* Variant: what the set already holds is counted, too.                     *)
InsertCounting(h, set, o) == AddRef(h, o)

Insert(h, set, o) == IF Holds(h, set, o) THEN h ELSE AddRef(h, o)
Inserted(h, set, o) == IF Holds(h, set, o) THEN set ELSE set \cup {o}

ProcessAddedFCO(name) ==
  /\ Checking
  /\ LET pFCO == Len(heap) + 1
         made == Make(heap, "fco", Fco(name, "disk"))
         set  == mSpecList[LastNode].mAdded
     IN /\ heap' = Release(Insert(made, set, pFCO), pFCO)
        /\ mSpecList' = [mSpecList EXCEPT ![LastNode].mAdded = Inserted(made, set, pFCO)]
  /\ Looked /\ UNCHANGED lost

ProcessRemovedFCO(name) ==
  /\ Checking
  /\ LET pFCO == Len(heap) + 1
         made == Make(heap, "fco", Fco(name, "db"))
         set  == mSpecList[LastNode].mRemoved
     IN /\ heap' = Release(Insert(made, set, pFCO), pFCO)
        /\ mSpecList' = [mSpecList EXCEPT ![LastNode].mRemoved = Inserted(made, set, pFCO)]
  /\ Looked /\ UNCHANGED lost

(* What cannot be made from the disk is processed as removed; the object    *)
(* made from the database before is not released.                           *)
ProcessPhantom(name) ==
  /\ Checking
  /\ LET pOldFCO == Len(heap) + 1
         pFCO == Len(heap) + 2
         made == Make(Make(heap, "fco", Fco(name, "db")), "fco", Fco(name, "db"))
         set  == mSpecList[LastNode].mRemoved
     IN /\ heap' = Release(Insert(made, set, pFCO), pFCO)
        /\ mSpecList' = [mSpecList EXCEPT ![LastNode].mRemoved = Inserted(made, set, pFCO)]
        /\ lost' = Append(lost, pOldFCO)
  /\ Looked

(* Of a changed object both are added; of an unchanged one neither.         *)
AddChangedFCO(h, old, new) == AddRef(AddRef(h, old), new)
ProcessChangedFCO(name, differ) ==
  /\ Checking
  /\ LET new  == Len(heap) + 1
         old  == Len(heap) + 2
         made == Make(Make(heap, "fco", Fco(name, "disk")), "fco", Fco(name, "db"))
     IN /\ heap' = Releases(IF differ THEN AddChangedFCO(made, old, new) ELSE made, <<new, old>>)
        /\ mSpecList' = IF differ
                        THEN [mSpecList EXCEPT ![LastNode].mChanged = Append(@, [old |-> old, new |-> new])]
                        ELSE mSpecList
  /\ Looked /\ UNCHANGED lost

(* In the editor names are taken out of all nodes.                          *)
RemoveFCOs(names) ==
  LET Gone(o) == NameOf(heap, o) \in names
      Released(h, node) == Releases(h, SelectSeq(Tail(Tail(NodeObjects(heap, node))), Gone))
  IN /\ phase = "check" /\ todo = <<>> /\ phase' = "edited"
     /\ heap' = FoldLeft(Released, heap, mSpecList)
     /\ mSpecList' = [i \in 1 .. Len(mSpecList) |->
          [mSpecList[i] EXCEPT !.mAdded = {o \in @ : ~Gone(o)}, !.mRemoved = {o \in @ : ~Gone(o)},
                               !.mChanged = SelectSeq(@, LAMBDA c : ~Gone(c.old))]]
     /\ UNCHANGED <<mAddedList, todo, found, lost, stream, was>>

-----------------------------------------------------------------------------
(* WriteObjectDynCreate: an object that was written before is its index     *)
(* only.  The table gives each object the next index.                       *)
Table(tokens) == [o \in {t.object : t \in ToSet(tokens)} |->
                    (CHOOSE t \in ToSet(tokens) : t.object = o).idx]
WriteObject(h, tokens, o) ==
  LET tbl == Table(tokens)
      next == 1 + Cardinality(DOMAIN tbl)
  IN Append(tokens, IF o \in DOMAIN tbl
                    THEN [object |-> o, idx |-> tbl[o], kind |-> h[o].kind, body |-> <<>>]
                    ELSE [object |-> o, idx |-> next, kind |-> h[o].kind, body |-> <<h[o].value>>])

(* What a node says.                                                        *)
Says(h, node) ==
  [spec |-> h[node.mpSpec].value, attr |-> h[node.mpSpecAttr].value,
   added |-> {h[o].value : o \in node.mAdded}, removed |-> {h[o].value : o \in node.mRemoved},
   changed |-> [i \in 1 .. Len(node.mChanged) |->
                  [old |-> h[node.mChanged[i].old].value, new |-> h[node.mChanged[i].new].value]]]

(* cFCOReport::Write: the sizes of the parts of a node, and its objects.    *)
Sizes(node) == <<Cardinality(node.mAdded), Cardinality(node.mRemoved), Len(node.mChanged)>>
WriteReport ==
  /\ phase = "edited" /\ phase' = "written"
  /\ LET objects == FlattenSeq([i \in 1 .. Len(mSpecList) |-> NodeObjects(heap, mSpecList[i])])
         Written(tokens, o) == WriteObject(heap, tokens, o)
         tokens == FoldLeft(Written, <<>>, objects)
     IN stream' = [sizes  |-> [i \in 1 .. Len(mSpecList) |-> Sizes(mSpecList[i])],
                   tokens |-> [i \in 1 .. Len(tokens) |-> [idx |-> tokens[i].idx, kind |-> tokens[i].kind,
                                                           body |-> tokens[i].body]]]
  /\ was' = [i \in 1 .. Len(mSpecList) |-> Says(heap, mSpecList[i])]
  /\ UNCHANGED <<heap, mAddedList, todo, found, mSpecList, lost>>

(* The report and the list of rules are destroyed.                          *)
ClearReport ==
  /\ phase \in {"written", "read"} /\ phase' = IF phase = "written" THEN "cleared" ELSE "end"
  /\ LET Cleared(h, node) == Releases(h, NodeRefs(heap, node))
         Dropped(h, pair) == Releases(h, <<pair.spec, pair.attr>>)
     IN heap' = FoldLeft(Dropped, FoldLeft(Cleared, heap, mSpecList), mAddedList)
  /\ mSpecList' = <<>> /\ mAddedList' = <<>>
  /\ UNCHANGED <<todo, found, lost, stream, was>>

(* ReadObjectDynCreate: an index seen before is one more reference to its   *)
(* object, any other is a new object.                                       *)
ReadObject(r, t) ==
  IF t.idx \in DOMAIN r.tbl
  THEN [r EXCEPT !.heap = AddRef(@, r.tbl[t.idx]), !.objects = Append(@, r.tbl[t.idx])]
  ELSE LET o == Len(r.heap) + 1
       IN [heap    |-> Make(r.heap, t.kind, t.body[1]),
           tbl     |-> [i \in DOMAIN r.tbl \cup {t.idx} |-> IF i = t.idx THEN o ELSE r.tbl[i]],
           objects |-> Append(r.objects, o)]

(* Variant: old and new of a changed object are read in the other order.    *)
ReadNodeSwapped(os, sizes) ==
  LET added   == 2 + sizes[1]
      removed == added + sizes[2]
  IN [mpSpec |-> os[1], mpSpecAttr |-> os[2],
      mAdded |-> ToSet(SubSeq(os, 3, added)), mRemoved |-> ToSet(SubSeq(os, added + 1, removed)),
      mChanged |-> [i \in 1 .. sizes[3] |-> [old |-> os[removed + 2 * i], new |-> os[removed + 2 * i - 1]]]]

(* The node of the given sizes that these objects make.                     *)
ReadNode(os, sizes) ==
  LET added   == 2 + sizes[1]
      removed == added + sizes[2]
  IN [mpSpec |-> os[1], mpSpecAttr |-> os[2],
      mAdded |-> ToSet(SubSeq(os, 3, added)), mRemoved |-> ToSet(SubSeq(os, added + 1, removed)),
      mChanged |-> [i \in 1 .. sizes[3] |-> [old |-> os[removed + 2 * i - 1], new |-> os[removed + 2 * i]]]]

(* cFCOReport::Read, by another process.  The sets refer to the rules; then *)
(* the node of the genre is copied into the list, and the copied one        *)
(* released.                                                                *)
ReadReport ==
  LET length == [i \in 1 .. Len(stream.sizes) |-> 2 + stream.sizes[i][1] + stream.sizes[i][2] + 2 * stream.sizes[i][3]]
      before == [i \in 1 .. Len(stream.sizes) |-> FoldLeft(+, 0, SubSeq(length, 1, i - 1))]
      all    == FoldLeft(ReadObject, [heap |-> <<>>, tbl |-> <<>>, objects |-> <<>>], stream.tokens)
      nodes  == [i \in 1 .. Len(stream.sizes) |->
                   ReadNode(SubSeq(all.objects, before[i] + 1, before[i] + length[i]), stream.sizes[i])]
      SetNodeSpecs(h, node) == SetSpecs(h, node.mpSpec)
      owned  == FoldLeft(SetNodeSpecs, all.heap, nodes)
      refs   == FlattenSeq([i \in 1 .. Len(nodes) |-> NodeRefs(owned, nodes[i])])
  IN /\ phase = "cleared" /\ phase' = "read"
     /\ heap' = Releases(AddRefs(owned, refs), refs)
     /\ mSpecList' = nodes /\ lost' = <<>>
     /\ UNCHANGED <<mAddedList, todo, found, stream, was>>

Next ==
  \/ ParsePolicy \/ TrimSpecs \/ AddSpec
  \/ \E name \in Name : \/ ProcessAddedFCO(name) \/ ProcessRemovedFCO(name) \/ ProcessPhantom(name)
                        \/ \E differ \in BOOLEAN : ProcessChangedFCO(name, differ)
  \/ \E names \in SUBSET Name : RemoveFCOs(names)
  \/ WriteReport \/ ClearReport \/ ReadReport

Finished == phase = "end"

-----------------------------------------------------------------------------
Times(o, seq) == Cardinality({i \in 1 .. Len(seq) : seq[i] = o})
References ==
  FlattenSeq([i \in 1 .. Len(mSpecList) |-> NodeRefs(heap, mSpecList[i])])
    \o FlattenSeq([i \in 1 .. Len(mAddedList) |-> <<mAddedList[i].spec, mAddedList[i].attr>>])

(* Between any two steps every object has exactly the references that       *)
(* somebody holds, and those that were dropped: nothing held is gone, and   *)
(* of what is no longer held nothing is left but the trimmed rules and the  *)
(* objects that could not be made again.                                    *)
ReferencesOwned ==
  /\ \A o \in 1 .. Len(heap) : heap[o].count = Times(o, References) + Times(o, lost)
  /\ phase \in {"cleared", "end"} => \A o \in 1 .. Len(heap) : heap[o].count > 0 => o \in ToSet(lost)

(* A report that is read says what the one that was written said.           *)
ReportReadBack ==
  phase = "read" => [i \in 1 .. Len(mSpecList) |-> Says(heap, mSpecList[i])] = was
=============================================================================
