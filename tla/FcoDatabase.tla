---------------------------- MODULE FcoDatabase ----------------------------
(* Objects, the file system they are in as cFSDataSourceIter sees it        *)
(* (fs/fsdatasourceiter.cpp), and the database of them that a               *)
(* cDbDataSourceIter works on (tw/dbdatasource.cpp,                         *)
(* tripwire/tripwireutil.cpp).                                              *)
(*                                                                          *)
(* An object of a file system is a record of its type and of a version that *)
(* stands for all its other properties; an FCO, what Tripwire keeps of it,  *)
(* is a function from the properties that are valid to their values.  A     *)
(* database has the two parts that HierTree promises: the entries, each     *)
(* with an FCO or NoData, and the set of those that have a child array.     *)
EXTENDS FcoSpec

CONSTANTS NoData,           \* the entry has no data
          Path,             \* the names of objects that may exist
          Version,          \* what an object may be like
          Mounts,           \* those where another file system is mounted
          CrossFileSystems  \* gCrossFileSystems

ASSUME FileTreeAssumption == /\ IsFiniteSet(Path)
                             /\ Path \subseteq Seq(Int) \ {<<>>}
                             /\ Mounts \subseteq Path
                             /\ CrossFileSystems \in BOOLEAN

-----------------------------------------------------------------------------
Object == [type : {"file", "dir"}, version : Version]

(* What InitializeTypeInfo leaves of an object that it cannot stat, or that *)
(* is on another file system than the start point.                          *)
InvalidObject == [type |-> "invalid", version |-> 0]

PropValue(o, x) == IF x = "type" THEN o.type ELSE o.version

(* CalcProps: an invalid object keeps its type only, any other gets what    *)
(* the rule asks for.                                                       *)
CalcProps(o, props) ==
  [x \in IF o = InvalidObject THEN {"type"} ELSE props |-> PropValue(o, x)]

IsDirectory(f) == f["type"] = "dir"

(* cFCOCompare::Compare: the properties, among those given, that differ or  *)
(* are not valid on both sides.                                             *)
Differing(old, new, props) ==
  {x \in props : ~(x \in DOMAIN old /\ x \in DOMAIN new /\ old[x] = new[x])}

KeepProps(f, props)    == [x \in DOMAIN f \cap props |-> f[x]]
AddProps(f, from)      == [x \in DOMAIN f \cup DOMAIN from |->
                             IF x \in DOMAIN f THEN f[x] ELSE from[x]]

(* What an FCO with properties among these may be: what is calculated, with *)
(* what only an earlier one has.  None is NoData.                           *)
Fcos(props) ==
  LET calculated == {CalcProps(o, ps) : o \in Object \cup {InvalidObject}, ps \in SUBSET props}
  IN {AddProps(f, from) : f, from \in calculated}
DataAssumption(policy) == \A s \in CreateFCOSpecs(policy) : NoData \notin Fcos(s.props)

-----------------------------------------------------------------------------
EmptyDb == [data |-> <<>>, arrays |-> {<<>>}]

Entries(db)       == DOMAIN db.data
HasFCOData(db, p) == p \in Entries(db) /\ db.data[p] # NoData
CanDescend(db, p) == p \in Entries(db) /\ p \in db.arrays
Children(db, p)   == {q \in Entries(db) : Front(q) = p}
Contents(db)      == {p \in Entries(db) : HasFCOData(db, p)}

(* p and the names above it.                                                *)
PathsTo(p) == Prefixes(p) \ {<<>>}

WithEntries(db, new) == [p \in Entries(db) \cup new |->
                           IF p \in Entries(db) THEN db.data[p] ELSE NoData]

(* AddChildArray, where the caller has asked CanDescend.                    *)
AddChildArray(db, p) == [db EXCEPT !.arrays = @ \cup {p}]
SetFCOData(db, p, f) == [db EXCEPT !.data[p] = f]
(* AddFCO takes the entry that is there if one is.                          *)
AddFCO(db, p, f)     == SetFCOData([db EXCEPT !.data = WithEntries(db, {p})], p, f)

(* CreatePath: the entries down to p and the child arrays above it.         *)
CreatePath(db, p) == [data   |-> WithEntries(db, PathsTo(p)),
                      arrays |-> db.arrays \cup Prefixes(Front(p))]

CanRemoveChildArray(db, p) == CanDescend(db, p) /\ Children(db, p) = {}
RemoveChildArray(db, p)    == [db EXCEPT !.arrays = @ \ {p}]
RemoveFCO(db, p)           == [db EXCEPT !.data = [q \in Entries(db) \ {p} |-> db.data[q]]]

(* One turn of the loop that climbs to the root.  Where the code leaves the *)
(* loop the entry at p stays, and no parent above it is empty.              *)
RemoveIfEmpty(db, p) ==
  IF ~CanRemoveChildArray(db, p) THEN db
  ELSE IF HasFCOData(db, p) THEN RemoveChildArray(db, p)
       ELSE RemoveFCO(RemoveChildArray(db, p), p)

(* Variant: the parents are left, empty as they may be.                     *)
RemoveOnlyFCOFromDb(db, p) ==
  LET cleared == SetFCOData(db, p, NoData)
  IN IF CanDescend(db, p) THEN cleared ELSE RemoveFCO(cleared, p)
(* RemoveFCOFromDb, of an entry with data: the entry goes unless it has a   *)
(* child array, and so do the parents that this leaves empty.               *)
RemoveFCOFromDb(db, p) ==
  LET cleared == SetFCOData(db, p, NoData)
      removed == IF CanDescend(db, p) THEN cleared ELSE RemoveFCO(cleared, p)
      parents == [n \in 1..Len(p) - 1 |-> SubSeq(p, 1, Len(p) - n)]
  IN FoldLeft(RemoveIfEmpty, removed, parents)

-----------------------------------------------------------------------------
(* Every entry hangs from an array of an entry.                             *)
Rooted(db) == /\ \A p \in Entries(db) : Front(p) \in db.arrays
              /\ db.arrays \ {<<>>} \subseteq Entries(db)
(* No child array is empty, and no entry is there for nothing.              *)
Tidy(db) == \A p \in Entries(db) : /\ CanDescend(db, p) => Children(db, p) # {}
                                   /\ CanDescend(db, p) \/ HasFCOData(db, p)

(* The database with the given FCOs and no more.                            *)
DbOf(fcos) == LET ps == UNION {PathsTo(p) : p \in DOMAIN fcos}
              IN [data   |-> [p \in ps |-> IF p \in DOMAIN fcos THEN fcos[p] ELSE NoData],
                  arrays |-> {<<>>} \cup {Front(p) : p \in ps}]

-----------------------------------------------------------------------------
(* A file system at one moment: a function from the names of the objects    *)
(* that exist to their type and version.                                    *)
IsDir(f, p) == p \in DOMAIN f /\ f[p].type = "dir"
IsTree(f)   == \A p \in DOMAIN f : Len(p) = 1 \/ IsDir(f, Front(p))
TreeAssumption(f) == IsTree(f) /\ DOMAIN f \subseteq Path /\ f \in [DOMAIN f -> Object]
ChildrenIn(f, p) == {q \in DOMAIN f : Front(q) = p}

-----------------------------------------------------------------------------
(* An iterator takes the device of the start point it seeks to as mDev and  *)
(* fills in no object of another device.                                    *)
Crosses(s, p) == /\ ~CrossFileSystems
                 /\ \E m \in Mounts : Above(s.start, m) /\ AtOrAbove(m, p)

(* InitializeTypeInfo, for an object of the file system f below the start   *)
(* point of rule s.                                                         *)
InitializeTypeInfo(f, s, p) == IF p \in DOMAIN f /\ ~Crosses(s, p)
                               THEN f[p] ELSE InvalidObject

(* The last components of these names in the order of the peers.            *)
Ascending(names) == CHOOSE s \in [1 .. Cardinality(names) -> names] :
                      \A i, j \in DOMAIN s : i < j => s[i] < s[j]
Peers(ps) == Ascending({p[Len(p)] : p \in ps})

GetChildrenNames(f, p) == Peers(ChildrenIn(f, p))

-----------------------------------------------------------------------------
(* What is there to be seen by a rule if nothing changes and nothing fails. *)
Seen(f, s, p) == p \in DOMAIN f /\ (p = s.start \/ ~Crosses(s, Front(p)))
FcoOf(f, s, p) == CalcProps(InitializeTypeInfo(f, s, p), s.props)
Snapshot(f, specs) ==
  [p \in {q \in DOMAIN f : \E s \in specs : Reaches(s, q) /\ Seen(f, s, q)} |->
     FcoOf(f, CHOOSE s \in specs : Reaches(s, p) /\ Seen(f, s, p), p)]
=============================================================================
