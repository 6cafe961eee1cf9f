-------------------------- MODULE HierDatabase_proofs --------------------------
(* The records of a hierarchical database stay a tree of sorted lists, seen *)
(* from outside as a tree of named entries, for any addresses, names and    *)
(* payloads, whatever stack of iterators works on it.  The invariant names  *)
(* what the records only imply: the list of every array, and its path.      *)
EXTENDS HierDatabase, FiniteSetTheorems, NaturalsInduction, TLAPS

-----------------------------------------------------------------------------
(* The records.  L: the addresses of the entries of each array; P: its path.*)

InfosOf(R)   == {a \in DOMAIN R : R[a].type = "info"}
EntriesOf(R) == {a \in DOMAIN R : R[a].type = "entry"}
DatasOf(R)   == {a \in DOMAIN R : R[a].type = "data"}

InfoNode  == [type : {"info"}, parent : Link, array : Link]
EntryNode == [type : {"entry"}, name : Name, data : Link, child : Link, next : Link]
DataNode  == [type : {"data"}, value : TreePayload]

At(l, k) == IF k \in DOMAIN l THEN l[k] ELSE Null

Nodes(R) == /\ R \in [DOMAIN R -> Node]
            /\ DOMAIN R \subseteq Addr /\ IsFiniteSet(DOMAIN R)

(* The entries of an array are linked in the order of L and of their names, *)
(* and every entry is in one list.                                          *)
Lists(R, L) ==
  /\ L \in [InfosOf(R) -> Seq(EntriesOf(R))]
  /\ \A i \in InfosOf(R) : R[i].array = At(L[i], 1)
  /\ \A i \in InfosOf(R) : \A k \in DOMAIN L[i] : R[L[i][k]].next = At(L[i], k + 1)
  /\ \A i \in InfosOf(R) : \A j, k \in DOMAIN L[i] :
       j < k => R[L[i][j]].name < R[L[i][k]].name
  /\ \A e \in EntriesOf(R) : \E i \in InfosOf(R) : \E k \in DOMAIN L[i] : L[i][k] = e
  /\ \A i, j \in InfosOf(R) : \A k \in DOMAIN L[i], m \in DOMAIN L[j] :
       L[i][k] = L[j][m] => i = j

(* An array lies where the entry that it belongs to says.                   *)
Paths(R, L, P) ==
  /\ Root \in InfosOf(R) /\ R[Root].parent = Null
  /\ P \in [InfosOf(R) -> Seq(Name)] /\ P[Root] = <<>>
  /\ \A i \in InfosOf(R) : Len(P[i]) < MaxDepth
  /\ \A i \in InfosOf(R) : \A k \in DOMAIN L[i] :
       R[L[i][k]].child # Null =>
         /\ R[L[i][k]].child \in InfosOf(R)
         /\ R[R[L[i][k]].child].parent = i
         /\ P[R[L[i][k]].child] = Append(P[i], R[L[i][k]].name)
  /\ \A c \in InfosOf(R) \ {Root} :
       \E i \in InfosOf(R) : \E k \in DOMAIN L[i] : R[L[i][k]].child = c
  /\ \A i, j \in InfosOf(R) : P[i] = P[j] => i = j

(* Every payload belongs to one entry.                                      *)
Datas(R) ==
  /\ \A e \in EntriesOf(R) : R[e].data # Null => R[e].data \in DatasOf(R)
  /\ \A e, g \in EntriesOf(R) : R[e].data = R[g].data /\ R[e].data # Null => e = g
  /\ \A d \in DatasOf(R) : \E e \in EntriesOf(R) : R[e].data = d

Forest(R, L, P) == Nodes(R) /\ Lists(R, L) /\ Paths(R, L, P) /\ Datas(R)

-----------------------------------------------------------------------------
(* The iterators.                                                           *)

IterShape == [info : InfoNode, infoAddr : Addr, entries : Seq(EntryNode),
              iter : Nat \ {0}, path : Seq(Name), call : {"edit", "dir", "fco"}]

(* The iterator's copy of an entry, and the one on disk.                    *)
Copies(C, f, k, entry) ==
  \/ f.entries[k] = entry
  \/ /\ Append(f.path, entry.name) \in C
     /\ f.call = "dir" \/ (f.call = "fco" /\ k # f.iter)
     /\ f.entries[k] = [entry EXCEPT !.data = f.entries[k].data]

Fits(R, L, P, C, f) ==
  /\ f.infoAddr \in InfosOf(R) /\ f.info = R[f.infoAddr] /\ f.path = P[f.infoAddr]
  /\ f.iter <= Len(f.entries) + 1 /\ Len(f.entries) = Len(L[f.infoAddr])
  /\ \A k \in DOMAIN f.entries : Copies(C, f, k, R[L[f.infoAddr][k]])

(* The iterators below the top are in arrays above its own, but for the     *)
(* ProcessDir that a ProcessChangedFCO has its copy from.                   *)
Nested(S, C) ==
  /\ S \in Seq(IterShape) /\ S # <<>> /\ S[1].call # "fco"
  /\ \A n \in DOMAIN S : S[n].call = "fco" =>
       S[n].iter <= Len(S[n].entries) /\ PathOf(S[n]) \in C
  /\ \A n \in DOMAIN S : S[n].call = "fco" =>
       S[n - 1].call = "dir" /\ S[n - 1].infoAddr = S[n].infoAddr /\ S[n - 1].iter = S[n].iter
  /\ \A m, n \in DOMAIN S : S[m].call = "edit" => S[n].call = "edit"
  /\ \A m, n \in DOMAIN S : m < n =>
       Len(S[m].path) < Len(S[n].path) \/ (m = n - 1 /\ S[n].call = "fco")

TreeHolds(L, P) ==
  /\ Forest(records, L, P)
  /\ \A n \in DOMAIN iters : Fits(records, L, P, checked, iters[n])
  /\ Nested(iters, checked)
  /\ checked \subseteq SeqOf(Name, MaxDepth)
TreeInv == \E L, P : TreeHolds(L, P)

-----------------------------------------------------------------------------
(* Nodes.                                                                   *)

(* What kind an address in use is of fixes the fields of its record.        *)
LEMMA NodeKinds ==
  ASSUME NEW R, Nodes(R)
  PROVE  /\ \A a \in InfosOf(R) : R[a] \in InfoNode /\ a \in Addr /\ a # Null
         /\ \A a \in EntriesOf(R) : R[a] \in EntryNode /\ a \in Addr /\ a # Null
         /\ \A a \in DatasOf(R) : R[a] \in DataNode /\ a \in Addr /\ a # Null
         /\ DOMAIN R = InfosOf(R) \cup EntriesOf(R) \cup DatasOf(R)
         /\ InfosOf(R) \cap EntriesOf(R) = {} /\ InfosOf(R) \cap DatasOf(R) = {}
         /\ EntriesOf(R) \cap DatasOf(R) = {}
<1>1. \A a \in DOMAIN R : R[a] \in Node /\ a \in Addr
  BY DEF Nodes
<1>2. /\ \A x \in InfoNode : x.type = "info"
      /\ \A x \in EntryNode : x.type = "entry"
      /\ \A x \in DataNode : x.type = "data"
      /\ Node = InfoNode \cup EntryNode \cup DataNode
  BY DEF Node, InfoNode, EntryNode, DataNode
<1>. QED
  BY <1>1, <1>2, HierAssumption DEF InfosOf, EntriesOf, DatasOf

(* Names in a list tell its entries apart.                                  *)
LEMMA OnePlace ==
  ASSUME NEW R, NEW L, Nodes(R), Lists(R, L),
         NEW i \in InfosOf(R), NEW j \in InfosOf(R), NEW k \in DOMAIN L[i], NEW m \in DOMAIN L[j]
  PROVE  /\ L[i] \in Seq(EntriesOf(R)) /\ k \in Nat /\ 1 <= k /\ k <= Len(L[i])
         /\ L[i][k] \in EntriesOf(R) /\ R[L[i][k]] \in EntryNode
         /\ R[L[i][k]].name \in Nat
         /\ L[i][k] = L[j][m] => i = j /\ k = m
         /\ i = j /\ R[L[i][k]].name = R[L[j][m]].name => k = m
<1>1. L[i] \in Seq(EntriesOf(R)) /\ L[j] \in Seq(EntriesOf(R))
  BY DEF Lists
<1>2. k \in 1 .. Len(L[i]) /\ m \in 1 .. Len(L[j]) /\ L[i][k] \in EntriesOf(R)
                           /\ L[j][m] \in EntriesOf(R)
  BY <1>1
<1>3. R[L[i][k]] \in EntryNode /\ R[L[j][m]] \in EntryNode
  BY <1>2, NodeKinds
<1>4. R[L[i][k]].name \in Nat /\ R[L[j][m]].name \in Nat
  BY <1>3, HierAssumption DEF EntryNode
<1>5. L[i][k] = L[j][m] => i = j
  BY DEF Lists
<1>6. ASSUME i = j, R[L[i][k]].name = R[L[j][m]].name PROVE k = m
  <2>1. k \in DOMAIN L[i] /\ m \in DOMAIN L[i] /\ R[L[i][k]].name = R[L[i][m]].name
    BY <1>6
  <2>2. \A a, b \in DOMAIN L[i] : a < b => R[L[i][a]].name < R[L[i][b]].name
    BY DEF Lists
  <2>3. \A x, y \in Nat : x < y => x # y
    OBVIOUS
  <2>4. R[L[i][k]].name \in Nat /\ R[L[i][m]].name \in Nat
    BY <1>4, <1>6
  <2>5. ~ (k < m) /\ ~ (m < k)
    BY <2>1, <2>2, <2>3, <2>4
  <2>. QED BY <2>5, <1>2
<1>. QED BY <1>1, <1>2, <1>3, <1>4, <1>5, <1>6

-----------------------------------------------------------------------------
(* The list that is read from an array is the one it has.                   *)

(* A set of naturals that is not empty has a least element.                 *)
LEMMA LeastNatural ==
  ASSUME NEW S \in SUBSET Nat, NEW s \in S
  PROVE  \E n \in S : \A m \in S : n <= m
<1>. DEFINE less == {ss \in Nat \X Nat : ss[1] < ss[2]}
<1>1. IsWellFoundedOn(less, Nat)
  BY NatLessThanWellFounded, Zenon DEF OpToRel
<1>2. PICK n \in S : \A m \in S : ~ (<<m, n>> \in less)
  <2>. HIDE DEF less
  <2>. QED BY <1>1, WFMin
<1>3. ASSUME NEW m \in S PROVE n <= m
  <2>1. m \in Nat /\ n \in Nat
    OBVIOUS
  <2>2. m < n => <<m, n>> \in less
    BY <2>1
  <2>. QED BY <2>1, <2>2, <1>2
<1>. QED BY <1>3

(* A list has no more entries than there are records, so reading it ends.   *)
LEMMA ListFits ==
  ASSUME NEW R, NEW L, Nodes(R), Lists(R, L), NEW i \in InfosOf(R)
  PROVE  /\ Cardinality(DOMAIN R) \in Nat
         /\ Len(L[i]) <= Cardinality(DOMAIN R)
<1>. DEFINE n == Len(L[i])
<1>1. L[i] \in Seq(EntriesOf(R))
  BY DEF Lists
<1>2. n \in Nat /\ DOMAIN L[i] = 1 .. n
  BY <1>1
<1>3. \A k, m \in 1 .. n : L[i][k] = L[i][m] => k = m
  BY <1>2, OnePlace
<1>4. L[i] \in [1 .. n -> DOMAIN R]
  BY <1>1 DEF EntriesOf
<1>5. L[i] \in Injection(1 .. n, DOMAIN R)
  BY <1>3, <1>4, Zenon DEF Injection, IsInjective
<1>6. IsFiniteSet(DOMAIN R)
  BY DEF Nodes
<1>7. Cardinality(1 .. n) <= Cardinality(DOMAIN R)
  BY <1>5, <1>6, FS_Injection
<1>8. Cardinality(1 .. n) = n
  <2>1. Cardinality(1 .. n) = IF 1 > n THEN 0 ELSE n - 1 + 1
    BY SMTT(30), <1>2, FS_Interval
  <2>. HIDE DEF n
  <2>. QED BY <1>2, <2>1
<1>9. Cardinality(DOMAIN R) \in Nat
  BY <1>6, FS_CardinalityType
<1>. QED BY <1>7, <1>8, <1>9

(* At most n entries of l, from the k-th on.                                *)
Segment(l, k, n) == SubSeq(l, k, IF k + n - 1 <= Len(l) THEN k + n - 1 ELSE Len(l))

(* A tail of a list is its first entry and the tail behind that.            *)
LEMMA SegmentStep ==
  ASSUME NEW S, NEW l \in Seq(S), NEW k \in DOMAIN l, NEW n \in Nat \ {0}
  PROVE  Segment(l, k, n) = <<l[k]>> \o (IF k + 1 \in DOMAIN l THEN Segment(l, k + 1, n - 1) ELSE <<>>)
<1>1. k \in Nat /\ 1 <= k /\ k <= Len(l) /\ Len(l) \in Nat /\ DOMAIN l = 1 .. Len(l)
  OBVIOUS
<1>. DEFINE last == IF k + n - 1 <= Len(l) THEN k + n - 1 ELSE Len(l)
            next == IF k + 1 \in DOMAIN l THEN Segment(l, k + 1, n - 1) ELSE <<>>
<1>2. last \in Nat /\ k <= last /\ last <= Len(l)
  BY <1>1
<1>3. /\ SubSeq(l, k, last) \in Seq(S)
      /\ Len(SubSeq(l, k, last)) = last - k + 1
      /\ \A j \in 1 .. (last - k + 1) : SubSeq(l, k, last)[j] = l[k + j - 1]
  <2>. HIDE DEF last
  <2>. QED BY <1>1, <1>2
<1>4. /\ next \in Seq(S) /\ Len(next) = last - k
      /\ \A j \in 1 .. (last - k) : next[j] = l[k + j]
  <2>1. CASE k + 1 \in DOMAIN l
    <3>1. k + 1 <= Len(l) /\ (k + 1) + (n - 1) - 1 = k + n - 1 /\ next = SubSeq(l, k + 1, last)
      BY SMTT(30), <1>1, <2>1 DEF Segment
    <3>2. k + 1 <= last + 1
      BY <1>1, <1>2
    <3>. HIDE DEF last, next
    <3>3. /\ SubSeq(l, k + 1, last) \in Seq(S)
          /\ Len(SubSeq(l, k + 1, last)) = last - k
          /\ \A j \in 1 .. (last - k) : SubSeq(l, k + 1, last)[j] = l[k + j]
      BY <1>1, <1>2, <3>1, <3>2
    <3>. QED BY <3>1, <3>3
  <2>2. CASE k + 1 \notin DOMAIN l
    <3>1. k = Len(l) /\ last = k /\ next = <<>>
      BY <1>1, <1>2, <2>2
    <3>. QED BY <3>1
  <2>. QED BY <2>1, <2>2
<1>5. Segment(l, k, n) = SubSeq(l, k, last)
  BY DEF Segment
<1>6. SubSeq(l, k, last) = <<l[k]>> \o next
  <2>. HIDE DEF last, next
  <2>1. l[k] \in S
    OBVIOUS
  <2>2. /\ <<l[k]>> \o next \in Seq(S) /\ Len(<<l[k]>> \o next) = last - k + 1
        /\ \A j \in 1 .. (last - k + 1) : (<<l[k]>> \o next)[j] = l[k + j - 1]
    BY <1>1, <1>2, <1>4, <2>1
  <2>. QED BY <1>2, <1>3, <2>2
<1>. QED BY <1>5, <1>6

Reads(R, f) ==
  f = [n \in Nat |->
         [b \in Link |-> IF n = 0 \/ ~Holds(R, b, "entry")
                         THEN <<>>
                         ELSE <<b>> \o f[n - 1][R[b].next]]]

(* n links followed from an entry read the n entries that begin there.      *)
LEMMA ReadsSegments ==
  ASSUME NEW R, NEW L, Nodes(R), Lists(R, L)
  PROVE  \E g : /\ Reads(R, g)
                /\ \A n \in Nat : g[n][Null] = <<>>
                /\ \A n \in Nat, i \in InfosOf(R) : \A k \in DOMAIN L[i] :
                     g[n][L[i][k]] = Segment(L[i], k, n)
<1>. DEFINE at(b) == CHOOSE p \in InfosOf(R) \X Nat : p[2] \in DOMAIN L[p[1]] /\ L[p[1]][p[2]] = b
            g == [n \in Nat |-> [b \in Link |-> IF b \in EntriesOf(R)
                                                THEN Segment(L[at(b)[1]], at(b)[2], n) ELSE <<>>]]
<1>1. ASSUME NEW i \in InfosOf(R), NEW k \in DOMAIN L[i]
      PROVE  at(L[i][k])[1] = i /\ at(L[i][k])[2] = k
  <2>. DEFINE q == at(L[i][k])
  <2>1. <<i, k>> \in InfosOf(R) \X Nat
    BY OnePlace
  <2>2. q \in InfosOf(R) \X Nat /\ q[2] \in DOMAIN L[q[1]] /\ L[q[1]][q[2]] = L[i][k]
    BY <2>1
  <2>. HIDE DEF q
  <2>3. q[1] \in InfosOf(R)
    BY <2>2
  <2>4. q[1] = i /\ q[2] = k
    BY <2>2, <2>3, OnePlace
  <2>. QED BY <2>4 DEF q
<1>2. Null \in Link /\ Null \notin EntriesOf(R) /\ EntriesOf(R) \subseteq Link
  BY NodeKinds DEF Link
<1>3. \A n \in Nat : g[n][Null] = <<>>
  BY <1>2
<1>4. ASSUME NEW n \in Nat, NEW i \in InfosOf(R), NEW k \in DOMAIN L[i]
      PROVE  g[n][L[i][k]] = Segment(L[i], k, n)
  <2>1. L[i][k] \in EntriesOf(R)
    BY OnePlace
  <2>. HIDE DEF at
  <2>2. g[n][L[i][k]] = Segment(L[at(L[i][k])[1]], at(L[i][k])[2], n)
    BY <1>2, <2>1
  <2>. QED BY <1>1, <2>2
<1>5. ASSUME NEW n \in Nat, NEW b \in Link
      PROVE  g[n][b] = IF n = 0 \/ ~Holds(R, b, "entry") THEN <<>> ELSE <<b>> \o g[n - 1][R[b].next]
  <2>. HIDE DEF g
  <2>1. CASE b \notin EntriesOf(R)
    <3>1. g[n][b] = <<>>
      BY <2>1 DEF g
    <3>. QED BY <2>1, <3>1 DEF Holds, EntriesOf
  <2>2. CASE b \in EntriesOf(R)
    <3>1. PICK i \in InfosOf(R) : \E k \in DOMAIN L[i] : L[i][k] = b
      BY <2>2 DEF Lists
    <3>2. PICK k \in DOMAIN L[i] : L[i][k] = b
      BY <3>1
    <3>3. g[n][b] = Segment(L[i], k, n)
      BY <1>4, <3>2
    <3>4. L[i] \in Seq(EntriesOf(R)) /\ k \in Nat /\ k >= 1
      BY OnePlace
    <3>5. CASE n = 0
      <4>1. Segment(L[i], k, 0) = <<>>
        BY <3>4 DEF Segment
      <4>. QED BY <3>3, <3>5, <4>1
    <3>6. CASE n # 0
      <4>1. Segment(L[i], k, n) = <<b>> \o (IF k + 1 \in DOMAIN L[i] THEN Segment(L[i], k + 1, n - 1) ELSE <<>>)
        BY <3>2, <3>4, <3>6, SegmentStep
      <4>2. R[b].next = At(L[i], k + 1)
        BY <3>2 DEF Lists
      <4>3. g[n - 1][R[b].next] = IF k + 1 \in DOMAIN L[i] THEN Segment(L[i], k + 1, n - 1) ELSE <<>>
        <5>1. n - 1 \in Nat
          BY <3>6
        <5>. QED BY <1>3, <1>4, <4>2, <5>1 DEF At
      <4>4. Holds(R, b, "entry")
        BY <2>2 DEF Holds, EntriesOf
      <4>. QED BY <3>3, <3>6, <4>1, <4>3, <4>4
    <3>. QED BY <3>5, <3>6
  <2>. QED BY <2>1, <2>2
<1>6. Reads(R, g)
  <2>1. g = [n \in Nat |-> [b \in Link |-> g[n][b]]]
    OBVIOUS
  <2>. HIDE DEF g
  <2>. QED BY <1>5, <2>1 DEF Reads
<1>. HIDE DEF g
<1>. QED BY <1>3, <1>4, <1>6

(* Whatever follows links so reads the same.                                *)
LEMMA ReadsOnce ==
  ASSUME NEW R, NEW f, NEW g, Reads(R, f), Reads(R, g),
         \A b \in Link : Holds(R, b, "entry") => R[b].next \in Link, NEW n \in Nat
  PROVE  f[n] = g[n]
<1>. DEFINE S == {m \in Nat : f[m] # g[m]}
<1>0. ASSUME NEW h, Reads(R, h), NEW m \in Nat
      PROVE  h[m] = [b \in Link |-> IF m = 0 \/ ~Holds(R, b, "entry")
                                    THEN <<>> ELSE <<b>> \o h[m - 1][R[b].next]]
  BY <1>0 DEF Reads
<1>1. ASSUME n \in S PROVE FALSE
  <2>1. PICK m \in S : \A j \in S : m <= j
    <3>. HIDE DEF S
    <3>1. S \subseteq Nat
      BY DEF S
    <3>. QED BY <1>1, <3>1, LeastNatural
  <2>2. CASE m = 0
    <3>1. f[m] = [b \in Link |-> <<>>] /\ g[m] = [b \in Link |-> <<>>]
      BY <1>0, <2>2
    <3>. QED BY <3>1
  <2>3. CASE m # 0
    <3>1. m - 1 \in Nat /\ ~ (m <= m - 1)
      BY <2>3
    <3>2. f[m - 1] = g[m - 1]
      BY <2>1, <3>1
    <3>3. f[m] = [b \in Link |-> IF m = 0 \/ ~Holds(R, b, "entry")
                                 THEN <<>> ELSE <<b>> \o f[m - 1][R[b].next]]
      BY <1>0
    <3>4. g[m] = [b \in Link |-> IF m = 0 \/ ~Holds(R, b, "entry")
                                 THEN <<>> ELSE <<b>> \o g[m - 1][R[b].next]]
      BY <1>0
    <3>5. f[m] = g[m]
      BY <3>2, <3>3, <3>4, Zenon
    <3>. QED BY <2>1, <3>5
  <2>. QED BY <2>2, <2>3
<1>. QED BY <1>1

(* LoadArrayAt reads the whole list of an array, and nothing else.          *)
LEMMA ListRead ==
  ASSUME NEW R, NEW L, Nodes(R), Lists(R, L), NEW i \in InfosOf(R)
  PROVE  ArrayOf(R, i) = L[i]
<1>. DEFINE C == Cardinality(DOMAIN R)
            f == CHOOSE f : Reads(R, f)
<1>1. PICK g : /\ Reads(R, g)
               /\ \A n \in Nat : g[n][Null] = <<>>
               /\ \A n \in Nat, j \in InfosOf(R) : \A k \in DOMAIN L[j] :
                    g[n][L[j][k]] = Segment(L[j], k, n)
  BY ReadsSegments
<1>2. Reads(R, f)
  BY <1>1
<1>3. C \in Nat /\ Len(L[i]) <= C
  BY ListFits
<1>4. \A b \in Link : Holds(R, b, "entry") => R[b].next \in Link
  BY NodeKinds DEF Holds, EntriesOf, EntryNode
<1>5. ArrayOf(R, i) = f[C][R[i].array]
  BY DEF ArrayOf, AddrsFrom, Reads
<1>. HIDE DEF C, f
<1>6. f[C] = g[C]
  BY <1>1, <1>2, <1>3, <1>4, ReadsOnce
<1>7. L[i] \in Seq(EntriesOf(R)) /\ R[i].array = At(L[i], 1)
  BY DEF Lists
<1>8. CASE L[i] = <<>>
  BY <1>1, <1>3, <1>5, <1>6, <1>7, <1>8 DEF At
<1>9. CASE L[i] # <<>>
  <2>1. 1 \in DOMAIN L[i] /\ Len(L[i]) >= 1
    BY <1>7, <1>9
  <2>2. ArrayOf(R, i) = Segment(L[i], 1, C)
    BY <1>1, <1>3, <1>5, <1>6, <1>7, <2>1 DEF At
  <2>3. Segment(L[i], 1, C) = L[i]
    <3>1. (IF 1 + C - 1 <= Len(L[i]) THEN 1 + C - 1 ELSE Len(L[i])) = Len(L[i])
      BY <1>3, <1>7
    <3>2. SubSeq(L[i], 1, Len(L[i])) = L[i]
      BY <1>7
    <3>. QED BY <3>1, <3>2 DEF Segment
  <2>. QED BY <2>2, <2>3
<1>. QED BY <1>8, <1>9

-----------------------------------------------------------------------------
(* The tree that is read from the root's array is the one of L and P.       *)

PathAt(R, L, P, i, k) == Append(P[i], R[L[i][k]].name)
Place(R, L, P, i, k)  == [path |-> PathAt(R, L, P, i, k), addr |-> L[i][k]]

(* The path of an entry is one longer than its array's.                     *)
LEMMA PathFacts ==
  ASSUME NEW R, NEW L, NEW P, Forest(R, L, P), NEW i \in InfosOf(R)
  PROVE  /\ P[i] \in Seq(Name) /\ Len(P[i]) \in Nat /\ Len(P[i]) < MaxDepth
         /\ Len(P[i]) = 0 <=> i = Root
         /\ \A k \in DOMAIN L[i] :
              /\ PathAt(R, L, P, i, k) \in Seq(Name) /\ PathAt(R, L, P, i, k) # <<>>
              /\ Len(PathAt(R, L, P, i, k)) = Len(P[i]) + 1
              /\ Front(PathAt(R, L, P, i, k)) = P[i] /\ Last(PathAt(R, L, P, i, k)) = R[L[i][k]].name
<1>1. P[i] \in Seq(Name) /\ Len(P[i]) < MaxDepth
  BY DEF Forest, Paths
<1>2. Len(P[i]) = 0 <=> i = Root
  <2>1. Len(P[i]) = 0 <=> P[i] = P[Root]
    BY <1>1 DEF Forest, Paths
  <2>. QED BY <2>1 DEF Forest, Paths
<1>3. ASSUME NEW k \in DOMAIN L[i]
      PROVE  /\ PathAt(R, L, P, i, k) \in Seq(Name) /\ PathAt(R, L, P, i, k) # <<>>
             /\ Len(PathAt(R, L, P, i, k)) = Len(P[i]) + 1
             /\ Front(PathAt(R, L, P, i, k)) = P[i] /\ Last(PathAt(R, L, P, i, k)) = R[L[i][k]].name
  <2>1. R[L[i][k]].name \in Name
    <3>1. R[L[i][k]] \in EntryNode
      BY OnePlace DEF Forest
    <3>. QED BY <3>1 DEF EntryNode
  <2>2. \A p \in Seq(Name), x \in Name : /\ Append(p, x) \in Seq(Name) /\ Append(p, x) # <<>>
                                         /\ Len(Append(p, x)) = Len(p) + 1
                                         /\ Front(Append(p, x)) = p /\ Last(Append(p, x)) = x
    BY DEF Front, Last
  <2>. QED BY <1>1, <2>1, <2>2 DEF PathAt
<1>. QED BY <1>1, <1>2, <1>3

(* The entries that are seen in an array are those of its list.             *)
LEMMA EntriesRead ==
  ASSUME NEW R, NEW L, NEW P, Forest(R, L, P), NEW i \in InfosOf(R)
  PROVE  EntriesIn(R, P[i], i) = {Place(R, L, P, i, k) : k \in DOMAIN L[i]}
<1>1. ArrayOf(R, i) = L[i]
  BY ListRead DEF Forest
<1>2. ToSet(L[i]) = {L[i][k] : k \in DOMAIN L[i]}
  BY DEF ToSet
<1>. QED BY <1>1, <1>2 DEF EntriesIn, Place, PathAt

Levels(R, f) ==
  f = [n \in 1..MaxDepth |->
         IF n = 1
         THEN EntriesIn(R, <<>>, Root)
         ELSE UNION {IF R[x.addr].child = Null THEN {} ELSE EntriesIn(R, x.path, R[x.addr].child)
                     : x \in f[n - 1]}]

(* What is seen n names below the root is what P puts there.                *)
LEMMA LevelsOfPaths ==
  ASSUME NEW R, NEW L, NEW P, Forest(R, L, P)
  PROVE  Levels(R, [n \in 1..MaxDepth |->
                      UNION {EntriesIn(R, P[i], i) : i \in {j \in InfosOf(R) : Len(P[j]) = n - 1}}])
<1>. DEFINE g == [n \in 1..MaxDepth |->
                    UNION {EntriesIn(R, P[i], i) : i \in {j \in InfosOf(R) : Len(P[j]) = n - 1}}]
<1>0. MaxDepth \in Nat
  BY HierAssumption
<1>1. ASSUME NEW n \in 1..MaxDepth, n = 1 PROVE g[n] = EntriesIn(R, <<>>, Root)
  <2>1. {j \in InfosOf(R) : Len(P[j]) = 0} = {Root}
    BY PathFacts DEF Forest, Paths
  <2>2. g[1] = UNION {EntriesIn(R, P[i], i) : i \in {j \in InfosOf(R) : Len(P[j]) = 0}}
    BY <1>1
  <2>3. P[Root] = <<>>
    BY DEF Forest, Paths
  <2>. HIDE DEF g
  <2>. QED BY <1>1, <2>1, <2>2, <2>3
<1>2. ASSUME NEW n \in 1..MaxDepth, n # 1
      PROVE  g[n] = UNION {IF R[x.addr].child = Null THEN {} ELSE EntriesIn(R, x.path, R[x.addr].child)
                           : x \in g[n - 1]}
  <2>. DEFINE Under(x) == IF R[x.addr].child = Null THEN {} ELSE EntriesIn(R, x.path, R[x.addr].child)
  <2>1. n - 1 \in 1..MaxDepth /\ n \in Nat
    BY <1>0, <1>2
  <2>2. ASSUME NEW y PROVE y \in g[n - 1] <=>
          \E j \in InfosOf(R) : \E k \in DOMAIN L[j] : Len(P[j]) = n - 2 /\ y = Place(R, L, P, j, k)
    <3>1. y \in g[n - 1] <=> \E j \in InfosOf(R) : Len(P[j]) = n - 1 - 1 /\ y \in EntriesIn(R, P[j], j)
      BY <2>1
    <3>2. \A j \in InfosOf(R) : y \in EntriesIn(R, P[j], j) <=> \E k \in DOMAIN L[j] : y = Place(R, L, P, j, k)
      BY EntriesRead
    <3>3. n - 1 - 1 = n - 2
      BY <2>1
    <3>. HIDE DEF g
    <3>. QED BY <3>1, <3>2, <3>3
  <2>3. ASSUME NEW y PROVE y \in g[n] <=> \E i \in InfosOf(R) : Len(P[i]) = n - 1 /\ y \in EntriesIn(R, P[i], i)
    OBVIOUS
  <2>. HIDE DEF g
  <2>4. ASSUME NEW j \in InfosOf(R), NEW k \in DOMAIN L[j], Len(P[j]) = n - 2,
               R[L[j][k]].child # Null
        PROVE  /\ R[L[j][k]].child \in InfosOf(R)
               /\ Len(P[R[L[j][k]].child]) = n - 1
               /\ Under(Place(R, L, P, j, k)) = EntriesIn(R, P[R[L[j][k]].child], R[L[j][k]].child)
    <3>1. R[L[j][k]].child \in InfosOf(R) /\ P[R[L[j][k]].child] = PathAt(R, L, P, j, k)
      BY <2>4 DEF Forest, Paths, PathAt
    <3>2. Len(PathAt(R, L, P, j, k)) = n - 1
      BY <2>1, <2>4, PathFacts
    <3>. QED BY <2>4, <3>1, <3>2 DEF Place
  <2>5. ASSUME NEW i \in InfosOf(R), Len(P[i]) = n - 1
        PROVE  \E x \in g[n - 1] : Under(x) = EntriesIn(R, P[i], i)
    <3>1. i # Root
      BY <1>2, <2>1, <2>5, PathFacts
    <3>2. PICK j \in InfosOf(R) : \E k \in DOMAIN L[j] : R[L[j][k]].child = i
      BY <3>1 DEF Forest, Paths
    <3>3. PICK k \in DOMAIN L[j] : R[L[j][k]].child = i
      BY <3>2
    <3>4. i # Null
      BY NodeKinds DEF Forest
    <3>5. P[i] = PathAt(R, L, P, j, k)
      BY <3>3, <3>4 DEF Forest, Paths, PathAt
    <3>6. Len(P[j]) = n - 2
      BY <2>1, <2>5, <3>5, PathFacts
    <3>7. Place(R, L, P, j, k) \in g[n - 1]
      BY <2>2, <3>6
    <3>. HIDE DEF Under
    <3>. QED BY <2>4, <3>3, <3>4, <3>6, <3>7
  <2>6. \A y : y \in g[n] <=> \E x \in g[n - 1] : y \in Under(x)
    <3>1. ASSUME NEW y \in g[n] PROVE \E x \in g[n - 1] : y \in Under(x)
      <4>. HIDE DEF Under
      <4>. QED BY <2>3, <2>5
    <3>2. ASSUME NEW x \in g[n - 1], NEW y \in Under(x) PROVE y \in g[n]
      <4>1. PICK j \in InfosOf(R) : \E k \in DOMAIN L[j] : Len(P[j]) = n - 2 /\ x = Place(R, L, P, j, k)
        BY <2>2
      <4>2. PICK k \in DOMAIN L[j] : Len(P[j]) = n - 2 /\ x = Place(R, L, P, j, k)
        BY <4>1
      <4>3. R[L[j][k]].child # Null
        BY <4>2 DEF Place
      <4>. HIDE DEF Under
      <4>. QED BY <2>3, <2>4, <4>2, <4>3
    <3>. QED BY <3>1, <3>2
  <2>. HIDE DEF Under
  <2>7. g[n] = UNION {Under(x) : x \in g[n - 1]}
    BY <2>6
  <2>. QED BY <2>7 DEF Under
<1>3. g = [n \in 1..MaxDepth |-> g[n]]
  OBVIOUS
<1>. HIDE DEF g
<1>4. Levels(R, g)
  BY <1>1, <1>2, <1>3, Zenon DEF Levels
<1>. QED BY <1>4 DEF g

(* Whatever walks down level by level finds the same.                       *)
LEMMA LevelsOnce ==
  ASSUME NEW R, NEW f, NEW g, Levels(R, f), Levels(R, g)
  PROVE  f = g
<1>. DEFINE S == {m \in 1..MaxDepth : f[m] # g[m]}
<1>0. MaxDepth \in Nat
  BY HierAssumption
<1>1. ASSUME NEW n \in S PROVE FALSE
  <2>1. PICK m \in S : \A j \in S : m <= j
    <3>1. S \in SUBSET Nat
      OBVIOUS
    <3>. HIDE DEF S
    <3>. QED BY <3>1, LeastNatural
  <2>2. m \in 1..MaxDepth
    OBVIOUS
  <2>3. m # 1 => f[m - 1] = g[m - 1]
    <3>1. m # 1 => m - 1 \in 1..MaxDepth /\ ~ (m <= m - 1)
      BY <1>0, <2>2
    <3>. QED BY <2>1, <3>1
  <2>4. f[m] = IF m = 1 THEN EntriesIn(R, <<>>, Root)
               ELSE UNION {IF R[x.addr].child = Null THEN {} ELSE EntriesIn(R, x.path, R[x.addr].child)
                           : x \in f[m - 1]}
    BY <2>2, Zenon DEF Levels
  <2>5. g[m] = IF m = 1 THEN EntriesIn(R, <<>>, Root)
               ELSE UNION {IF R[x.addr].child = Null THEN {} ELSE EntriesIn(R, x.path, R[x.addr].child)
                           : x \in g[m - 1]}
    BY <2>2, Zenon DEF Levels
  <2>6. f[m] = g[m]
    BY <2>3, <2>4, <2>5, Zenon
  <2>. QED BY <2>1, <2>6
<1>2. f = [n \in 1..MaxDepth |-> f[n]] /\ g = [n \in 1..MaxDepth |-> g[n]]
  BY DEF Levels
<1>. QED BY <1>1, <1>2

(* The entries seen are those of all lists, each at the path that P gives   *)
(* its array.                                                               *)
LEMMA PlacedIs ==
  ASSUME NEW R, NEW L, NEW P, Forest(R, L, P), NEW x
  PROVE  x \in Placed(R) <=> \E i \in InfosOf(R) : \E k \in DOMAIN L[i] : x = Place(R, L, P, i, k)
<1>. DEFINE f == CHOOSE f : Levels(R, f)
            g == [n \in 1..MaxDepth |->
                    UNION {EntriesIn(R, P[i], i) : i \in {j \in InfosOf(R) : Len(P[j]) = n - 1}}]
<1>1. Levels(R, g)
  BY LevelsOfPaths
<1>2. Placed(R) = UNION {f[n] : n \in 1..MaxDepth}
  BY DEF Placed, Levels
<1>3. f = g
  <2>. HIDE DEF g
  <2>. QED BY <1>1, LevelsOnce
<1>4. x \in Placed(R) <=> \E n \in 1..MaxDepth : x \in g[n]
  <2>. HIDE DEF f, g
  <2>. QED BY <1>2, <1>3
<1>5. x \in Placed(R) <=> \E n \in 1..MaxDepth : \E i \in InfosOf(R) : Len(P[i]) = n - 1 /\ x \in EntriesIn(R, P[i], i)
  BY <1>4
<1>6. \A i \in InfosOf(R) : \E n \in 1..MaxDepth : Len(P[i]) = n - 1
  <2>1. ASSUME NEW i \in InfosOf(R) PROVE Len(P[i]) + 1 \in 1..MaxDepth /\ Len(P[i]) = Len(P[i]) + 1 - 1
    BY PathFacts, HierAssumption
  <2>. QED BY <2>1
<1>7. \A i \in InfosOf(R) : x \in EntriesIn(R, P[i], i) <=> \E k \in DOMAIN L[i] : x = Place(R, L, P, i, k)
  BY EntriesRead
<1>. QED BY <1>5, <1>6, <1>7

(* The arrays seen are those of P.                                          *)
LEMMA ArraysAre ==
  ASSUME NEW R, NEW L, NEW P, Forest(R, L, P), NEW x
  PROVE  x \in Arrays(R) <=> \E i \in InfosOf(R) : x = [path |-> P[i], array |-> i]
<1>1. x \in Arrays(R) <=>
        \/ x = [path |-> <<>>, array |-> Root]
        \/ \E y \in Placed(R) : R[y.addr].child # Null /\ x = [path |-> y.path, array |-> R[y.addr].child]
  BY DEF Arrays
<1>2. Root \in InfosOf(R) /\ P[Root] = <<>>
  BY DEF Forest, Paths
<1>3. ASSUME NEW y \in Placed(R), R[y.addr].child # Null
      PROVE  R[y.addr].child \in InfosOf(R) /\ y.path = P[R[y.addr].child]
  <2>1. PICK i \in InfosOf(R) : \E k \in DOMAIN L[i] : y = Place(R, L, P, i, k)
    BY PlacedIs
  <2>2. PICK k \in DOMAIN L[i] : y = Place(R, L, P, i, k)
    BY <2>1
  <2>3. y.addr = L[i][k] /\ y.path = Append(P[i], R[L[i][k]].name)
    BY <2>2 DEF Place, PathAt
  <2>. QED BY <1>3, <2>3 DEF Forest, Paths
<1>4. ASSUME NEW i \in InfosOf(R), i # Root
      PROVE  \E y \in Placed(R) : R[y.addr].child = i
  <2>1. PICK j \in InfosOf(R) : \E k \in DOMAIN L[j] : R[L[j][k]].child = i
    BY <1>4 DEF Forest, Paths
  <2>2. PICK k \in DOMAIN L[j] : R[L[j][k]].child = i
    BY <2>1
  <2>3. Place(R, L, P, j, k) \in Placed(R) /\ Place(R, L, P, j, k).addr = L[j][k]
    BY PlacedIs DEF Place
  <2>. QED BY <2>2, <2>3
<1>5. \A i \in InfosOf(R) : i # Null
  BY NodeKinds DEF Forest
<1>6. ASSUME x \in Arrays(R) PROVE \E i \in InfosOf(R) : x = [path |-> P[i], array |-> i]
  BY <1>1, <1>2, <1>3, <1>6
<1>7. ASSUME NEW i \in InfosOf(R), x = [path |-> P[i], array |-> i] PROVE x \in Arrays(R)
  <2>1. CASE i = Root
    BY <1>1, <1>2, <1>7, <2>1
  <2>2. CASE i # Root
    <3>1. PICK y \in Placed(R) : R[y.addr].child = i
      BY <1>4, <2>2
    <3>. QED BY <1>1, <1>3, <1>5, <1>7, <3>1
  <2>. QED BY <2>1, <2>2
<1>. QED BY <1>6, <1>7

(* Two entries at one path are one.                                         *)
LEMMA PathsDiffer ==
  ASSUME NEW R, NEW L, NEW P, Forest(R, L, P),
         NEW i \in InfosOf(R), NEW j \in InfosOf(R), NEW k \in DOMAIN L[i], NEW m \in DOMAIN L[j],
         PathAt(R, L, P, i, k) = PathAt(R, L, P, j, m)
  PROVE  i = j /\ k = m
<1>1. P[i] = P[j] /\ R[L[i][k]].name = R[L[j][m]].name
  <2>1. Front(PathAt(R, L, P, i, k)) = P[i] /\ Last(PathAt(R, L, P, i, k)) = R[L[i][k]].name
    BY PathFacts
  <2>2. Front(PathAt(R, L, P, j, m)) = P[j] /\ Last(PathAt(R, L, P, j, m)) = R[L[j][m]].name
    BY PathFacts
  <2>. QED BY <2>1, <2>2
<1>2. i = j
  BY <1>1 DEF Forest, Paths
<1>. QED BY <1>1, <1>2, OnePlace DEF Forest

(* What an entry is seen to hold.                                           *)
LEMMA DataRead ==
  ASSUME NEW R, NEW L, NEW P, Forest(R, L, P)
  PROVE  /\ DataOf(R) = [p \in DOMAIN DataOf(R) |-> DataOf(R)[p]]
         /\ \A p : p \in DOMAIN DataOf(R) <=>
              \E i \in InfosOf(R) : \E k \in DOMAIN L[i] : p = PathAt(R, L, P, i, k)
         /\ \A i \in InfosOf(R) : \A k \in DOMAIN L[i] :
              DataOf(R)[PathAt(R, L, P, i, k)] = PayloadAt(R, L[i][k])
<1>. DEFINE at(p) == CHOOSE x \in Placed(R) : x.path = p
            dom == {x.path : x \in Placed(R)}
<1>1. DataOf(R) = [p \in dom |-> PayloadAt(R, at(p).addr)]
  BY Zenon DEF DataOf
<1>2. ASSUME NEW p PROVE p \in dom <=> \E i \in InfosOf(R) : \E k \in DOMAIN L[i] : p = PathAt(R, L, P, i, k)
  <2>1. p \in dom <=> \E x \in Placed(R) : x.path = p
    OBVIOUS
  <2>2. \A i \in InfosOf(R) : \A k \in DOMAIN L[i] : Place(R, L, P, i, k).path = PathAt(R, L, P, i, k)
    BY DEF Place
  <2>. QED BY <2>1, <2>2, PlacedIs
<1>3. ASSUME NEW i \in InfosOf(R), NEW k \in DOMAIN L[i]
      PROVE  at(PathAt(R, L, P, i, k)).addr = L[i][k]
  <2>. DEFINE y == at(PathAt(R, L, P, i, k))
  <2>1. Place(R, L, P, i, k) \in Placed(R) /\ Place(R, L, P, i, k).path = PathAt(R, L, P, i, k)
    BY PlacedIs DEF Place
  <2>2. y \in Placed(R) /\ y.path = PathAt(R, L, P, i, k)
    BY <2>1
  <2>. HIDE DEF y
  <2>3. PICK j \in InfosOf(R) : \E m \in DOMAIN L[j] : y = Place(R, L, P, j, m)
    BY <2>2, PlacedIs
  <2>4. PICK m \in DOMAIN L[j] : y = Place(R, L, P, j, m)
    BY <2>3
  <2>5. PathAt(R, L, P, i, k) = PathAt(R, L, P, j, m) /\ y.addr = L[j][m]
    BY <2>2, <2>4 DEF Place
  <2>6. i = j /\ k = m
    BY <2>5, PathsDiffer
  <2>7. y.addr = L[i][k]
    BY <2>5, <2>6
  <2>. QED BY <2>7 DEF y
<1>. HIDE DEF at, dom
<1>4. DOMAIN DataOf(R) = dom /\ \A p \in dom : DataOf(R)[p] = PayloadAt(R, at(p).addr)
  BY <1>1
<1>5. DataOf(R) = [p \in DOMAIN DataOf(R) |-> DataOf(R)[p]]
  BY <1>1
<1>. QED BY <1>2, <1>3, <1>4, <1>5

-----------------------------------------------------------------------------
(* What the invariant says of the records and the iterators.                *)

(* Each record is the array, child, next or payload of one other.           *)
LEMMA OwnersAre ==
  ASSUME NEW L, NEW P, Forest(records, L, P)
  PROVE  OneOwner
<1>. DEFINE set == {l \in Links : l[3] # Null}
            owners(a) == {l \in set : l[3] = a}
<1>0. Infos = InfosOf(records) /\ EntryAddrs = EntriesOf(records) /\ Used = DOMAIN records
  BY DEF Infos, EntryAddrs, InfosOf, EntriesOf, Used
<1>1. ASSUME NEW l \in set
      PROVE  \/ /\ l[1] \in InfosOf(records) /\ l = <<l[1], "array", records[l[1]].array>>
             \/ /\ l[1] \in EntriesOf(records)
                /\ \/ l = <<l[1], "data", records[l[1]].data>>
                   \/ l = <<l[1], "child", records[l[1]].child>>
                   \/ l = <<l[1], "next", records[l[1]].next>>
  BY <1>0 DEF Links
<1>2. ASSUME NEW a \in InfosOf(records), records[a].array # Null
      PROVE  1 \in DOMAIN L[a] /\ L[a][1] = records[a].array
  BY <1>2 DEF Forest, Lists, At
<1>3. ASSUME NEW e \in EntriesOf(records), records[e].next # Null
      PROVE  \E i \in InfosOf(records) : \E k \in DOMAIN L[i] :
               k + 1 \in DOMAIN L[i] /\ L[i][k] = e /\ L[i][k + 1] = records[e].next
  <2>1. PICK i \in InfosOf(records) : \E k \in DOMAIN L[i] : L[i][k] = e
    BY DEF Forest, Lists
  <2>2. PICK k \in DOMAIN L[i] : L[i][k] = e
    BY <2>1
  <2>3. records[e].next = At(L[i], k + 1)
    BY <2>2 DEF Forest, Lists
  <2>. QED BY <1>3, <2>2, <2>3 DEF At
<1>4. ASSUME NEW e \in EntriesOf(records), records[e].child # Null
      PROVE  /\ records[e].child \in InfosOf(records) \ {Root}
             /\ \E i \in InfosOf(records) : \E k \in DOMAIN L[i] :
                  L[i][k] = e /\ P[records[e].child] = PathAt(records, L, P, i, k)
  <2>1. PICK i \in InfosOf(records) : \E k \in DOMAIN L[i] : L[i][k] = e
    BY DEF Forest, Lists
  <2>2. PICK k \in DOMAIN L[i] : L[i][k] = e
    BY <2>1
  <2>3. records[e].child \in InfosOf(records) /\ P[records[e].child] = PathAt(records, L, P, i, k)
    BY <1>4, <2>2 DEF Forest, Paths, PathAt
  <2>4. PathAt(records, L, P, i, k) # <<>>
    BY PathFacts
  <2>5. P[Root] = <<>>
    BY DEF Forest, Paths
  <2>. QED BY <2>2, <2>3, <2>4, <2>5
<1>5. ASSUME NEW e \in EntriesOf(records), records[e].data # Null
      PROVE  records[e].data \in DatasOf(records)
  BY <1>5 DEF Forest, Datas
<1>6. \A l \in set : Holds(records, l[3], Target[l[2]])
  <2>1. Target["array"] = "entry" /\ Target["next"] = "entry" /\ Target["child"] = "info" /\ Target["data"] = "data"
    BY DEF Target
  <2>2. \A i \in InfosOf(records) : \A k \in DOMAIN L[i] : L[i][k] \in EntriesOf(records)
    BY OnePlace DEF Forest
  <2>3. /\ \A a \in EntriesOf(records) : Holds(records, a, "entry")
        /\ \A a \in InfosOf(records) : Holds(records, a, "info")
        /\ \A a \in DatasOf(records) : Holds(records, a, "data")
    BY DEF EntriesOf, InfosOf, DatasOf, Holds
  <2>4. ASSUME NEW l \in set PROVE Holds(records, l[3], Target[l[2]])
    <3>1. l[3] # Null
      OBVIOUS
    <3>. HIDE DEF set
    <3>2. CASE l[1] \in InfosOf(records) /\ l = <<l[1], "array", records[l[1]].array>>
      BY <1>2, <2>1, <2>2, <2>3, <3>1, <3>2
    <3>3. CASE l[1] \in EntriesOf(records) /\ l = <<l[1], "data", records[l[1]].data>>
      BY <1>5, <2>1, <2>3, <3>1, <3>3
    <3>4. CASE l[1] \in EntriesOf(records) /\ l = <<l[1], "child", records[l[1]].child>>
      BY <1>4, <2>1, <2>3, <3>1, <3>4
    <3>5. CASE l[1] \in EntriesOf(records) /\ l = <<l[1], "next", records[l[1]].next>>
      BY <1>3, <2>1, <2>2, <2>3, <3>1, <3>5
    <3>. QED BY <1>1, <3>2, <3>3, <3>4, <3>5
  <2>. QED BY <2>4
<1>7. ASSUME NEW l \in set, NEW a, l[3] = a
      PROVE  /\ a \in EntriesOf(records) =>
                  \E i \in InfosOf(records) : \E k \in DOMAIN L[i] :
                    /\ L[i][k] = a
                    /\ l = IF k = 1 THEN <<i, "array", a>> ELSE <<L[i][k - 1], "next", a>>
             /\ a \in InfosOf(records) =>
                  \E e \in EntriesOf(records) : records[e].child = a /\ l = <<e, "child", a>>
             /\ a \in DatasOf(records) =>
                  \E e \in EntriesOf(records) : records[e].data = a /\ l = <<e, "data", a>>
  <2>0. l[3] # Null
    OBVIOUS
  <2>. HIDE DEF set
  <2>1. /\ InfosOf(records) \cap EntriesOf(records) = {} /\ InfosOf(records) \cap DatasOf(records) = {}
        /\ EntriesOf(records) \cap DatasOf(records) = {}
    BY NodeKinds DEF Forest
  <2>2. CASE l[1] \in InfosOf(records) /\ l = <<l[1], "array", records[l[1]].array>>
    <3>1. 1 \in DOMAIN L[l[1]] /\ L[l[1]][1] = a
      BY <1>2, <1>7, <2>0, <2>2
    <3>2. a \in EntriesOf(records)
      BY <2>2, <3>1, OnePlace DEF Forest
    <3>. QED BY <1>7, <2>1, <2>2, <3>1, <3>2
  <2>3. CASE l[1] \in EntriesOf(records) /\ l = <<l[1], "data", records[l[1]].data>>
    <3>1. a \in DatasOf(records) /\ records[l[1]].data = a
      BY <1>5, <1>7, <2>0, <2>3
    <3>. QED BY <1>7, <2>1, <2>3, <3>1
  <2>4. CASE l[1] \in EntriesOf(records) /\ l = <<l[1], "child", records[l[1]].child>>
    <3>1. a \in InfosOf(records) /\ records[l[1]].child = a
      BY <1>4, <1>7, <2>0, <2>4
    <3>. QED BY <1>7, <2>1, <2>4, <3>1
  <2>5. CASE l[1] \in EntriesOf(records) /\ l = <<l[1], "next", records[l[1]].next>>
    <3>1. PICK i \in InfosOf(records) : \E m \in DOMAIN L[i] :
            m + 1 \in DOMAIN L[i] /\ L[i][m] = l[1] /\ L[i][m + 1] = a
      BY <1>3, <1>7, <2>0, <2>5
    <3>2. PICK m \in DOMAIN L[i] : m + 1 \in DOMAIN L[i] /\ L[i][m] = l[1] /\ L[i][m + 1] = a
      BY <3>1
    <3>3. a \in EntriesOf(records) /\ m \in Nat /\ m >= 1
      BY <3>2, OnePlace DEF Forest
    <3>4. m + 1 # 1 /\ (m + 1) - 1 = m
      BY <3>3
    <3>. QED BY <1>7, <2>1, <2>5, <3>2, <3>3, <3>4
  <2>. QED BY <1>1, <2>2, <2>3, <2>4, <2>5
<1>8. ASSUME NEW a \in Used, a # Root PROVE \E l0 : owners(a) = {l0}
  <2>1. CASE a \in EntriesOf(records)
    <3>1. PICK i \in InfosOf(records) : \E k \in DOMAIN L[i] : L[i][k] = a
      BY <2>1 DEF Forest, Lists
    <3>2. PICK k \in DOMAIN L[i] : L[i][k] = a
      BY <3>1
    <3>. DEFINE l0 == IF k = 1 THEN <<i, "array", a>> ELSE <<L[i][k - 1], "next", a>>
    <3>3. a # Null /\ k \in Nat /\ k >= 1 /\ L[i] \in Seq(EntriesOf(records))
      <4>1. a # Null
        BY <2>1, NodeKinds DEF Forest
      <4>2. k \in Nat /\ k >= 1 /\ L[i] \in Seq(EntriesOf(records))
        BY OnePlace DEF Forest
      <4>. QED BY <4>1, <4>2
    <3>4. l0 \in owners(a)
      <4>1. CASE k = 1
        <5>1. records[i].array = a
          BY <3>2, <4>1 DEF Forest, Lists, At
        <5>. QED BY <1>0, <3>3, <4>1, <5>1 DEF Links
      <4>2. CASE k # 1
        <5>1. k - 1 \in DOMAIN L[i] /\ (k - 1) + 1 = k
          BY <3>3, <4>2
        <5>2. records[L[i][k - 1]].next = a /\ L[i][k - 1] \in EntriesOf(records)
          <6>1. L[i][k - 1] \in EntriesOf(records)
            BY <5>1, OnePlace DEF Forest
          <6>2. records[L[i][k - 1]].next = At(L[i], (k - 1) + 1)
            BY <5>1 DEF Forest, Lists
          <6>. QED BY <3>2, <5>1, <6>1, <6>2 DEF At
        <5>. QED BY <1>0, <3>3, <4>2, <5>2 DEF Links
      <4>. QED BY <4>1, <4>2
    <3>5. ASSUME NEW l \in owners(a) PROVE l = l0
      <4>1. PICK j \in InfosOf(records) : \E m \in DOMAIN L[j] :
              /\ L[j][m] = a
              /\ l = IF m = 1 THEN <<j, "array", a>> ELSE <<L[j][m - 1], "next", a>>
        BY <1>7, <2>1
      <4>2. PICK m \in DOMAIN L[j] :
              /\ L[j][m] = a
              /\ l = IF m = 1 THEN <<j, "array", a>> ELSE <<L[j][m - 1], "next", a>>
        BY <4>1
      <4>3. i = j /\ k = m
        BY <3>2, <4>2, OnePlace DEF Forest
      <4>. QED BY <4>2, <4>3
    <3>. HIDE DEF owners, l0
    <3>. QED BY <3>4, <3>5
  <2>2. CASE a \in InfosOf(records)
    <3>1. PICK i \in InfosOf(records) : \E k \in DOMAIN L[i] : records[L[i][k]].child = a
      BY <1>8, <2>2 DEF Forest, Paths
    <3>2. PICK k \in DOMAIN L[i] : records[L[i][k]].child = a
      BY <3>1
    <3>3. L[i][k] \in EntriesOf(records) /\ a # Null
      BY <2>2, NodeKinds, OnePlace DEF Forest
    <3>4. <<L[i][k], "child", a>> \in owners(a)
      BY <1>0, <3>2, <3>3 DEF Links
    <3>5. ASSUME NEW l \in owners(a) PROVE l = <<L[i][k], "child", a>>
      <4>1. PICK e \in EntriesOf(records) : records[e].child = a /\ l = <<e, "child", a>>
        BY <1>7, <2>2
      <4>2. PICK j \in InfosOf(records) : \E m \in DOMAIN L[j] : L[j][m] = e
        BY DEF Forest, Lists
      <4>3. PICK m \in DOMAIN L[j] : L[j][m] = e
        BY <4>2
      <4>4. P[a] = PathAt(records, L, P, j, m) /\ P[a] = PathAt(records, L, P, i, k)
        <5>1. \A h \in InfosOf(records) : \A n \in DOMAIN L[h] :
                records[L[h][n]].child # Null => P[records[L[h][n]].child] = PathAt(records, L, P, h, n)
          BY DEF Forest, Paths, PathAt
        <5>2. records[L[j][m]].child = a
          BY <4>1, <4>3
        <5>. QED BY <3>2, <3>3, <5>1, <5>2
      <4>5. PathAt(records, L, P, i, k) = PathAt(records, L, P, j, m)
        BY <4>4
      <4>6. i = j /\ k = m
        BY <4>5, PathsDiffer
      <4>. QED BY <4>1, <4>3, <4>6
    <3>. HIDE DEF owners
    <3>. QED BY <3>4, <3>5
  <2>3. CASE a \in DatasOf(records)
    <3>1. PICK e \in EntriesOf(records) : records[e].data = a
      BY <2>3 DEF Forest, Datas
    <3>2. a # Null
      BY <2>3, NodeKinds DEF Forest
    <3>3. <<e, "data", a>> \in owners(a)
      BY <1>0, <3>1, <3>2 DEF Links
    <3>4. ASSUME NEW l \in owners(a) PROVE l = <<e, "data", a>>
      <4>1. PICK g \in EntriesOf(records) : records[g].data = a /\ l = <<g, "data", a>>
        BY <1>7, <2>3
      <4>2. g = e
        BY <3>1, <3>2, <4>1 DEF Forest, Datas
      <4>. QED BY <4>1, <4>2
    <3>. HIDE DEF owners
    <3>. QED BY <3>3, <3>4
  <2>. QED BY <1>0, <2>1, <2>2, <2>3, NodeKinds DEF Forest
<1>9. ASSUME NEW a \in Used \ {Root} PROVE Cardinality(owners(a)) = 1
  <2>1. PICK l0 : owners(a) = {l0}
    BY <1>8
  <2>. HIDE DEF owners
  <2>. QED BY <2>1, FS_Singleton
<1>. QED BY <1>6, <1>9 DEF OneOwner

(* A sequence of names that is not too long is one of the paths.            *)
LEMMA BoundedPath ==
  ASSUME NEW p \in Seq(Name), Len(p) <= MaxDepth
  PROVE  p \in SeqOf(Name, MaxDepth)
<1>1. Len(p) \in 0..MaxDepth /\ p \in [1..Len(p) -> Name]
  BY HierAssumption
<1>. QED BY <1>1 DEF SeqOf

(* What an iterator loads of an array is its list, as it is on disk.        *)
LEMMA ListLoaded ==
  ASSUME NEW R, NEW L, Nodes(R), Lists(R, L), NEW i \in InfosOf(R)
  PROVE  /\ ListFrom(R, R[i].array) \in Seq(EntryNode)
         /\ Len(ListFrom(R, R[i].array)) = Len(L[i])
         /\ DOMAIN ListFrom(R, R[i].array) = DOMAIN L[i]
         /\ \A k \in DOMAIN L[i] : ListFrom(R, R[i].array)[k] = R[L[i][k]]
<1>1. ListFrom(R, R[i].array) = [k \in DOMAIN L[i] |-> R[L[i][k]]]
  BY ListRead DEF ListFrom, ArrayOf
<1>2. L[i] \in Seq(EntriesOf(R))
  BY DEF Lists
<1>3. DOMAIN L[i] = 1..Len(L[i]) /\ Len(L[i]) \in Nat
  BY <1>2
<1>4. \A k \in DOMAIN L[i] : R[L[i][k]] \in EntryNode
  BY OnePlace
<1>5. [k \in DOMAIN L[i] |-> R[L[i][k]]] \in [1..Len(L[i]) -> EntryNode]
  BY <1>3, <1>4
<1>6. ListFrom(R, R[i].array) \in [1..Len(L[i]) -> EntryNode]
  BY <1>1, <1>5
<1>7. \A n \in Nat : \A s \in [1..n -> EntryNode] : s \in Seq(EntryNode) /\ Len(s) = n
  OBVIOUS
<1>. QED BY <1>1, <1>3, <1>6, <1>7

(* The entries that the lists give are sorted by name and each in one list. *)
LEMMA ListsAreSorted ==
  ASSUME NEW L, NEW P, Forest(records, L, P)
  PROVE  ListsSorted /\ ParentsRight
<1>0. Infos = InfosOf(records) /\ EntryAddrs = EntriesOf(records)
  BY DEF Infos, EntryAddrs, InfosOf, EntriesOf, Used
<1>1. \A i \in InfosOf(records) : ArrayOf(records, i) = L[i]
  BY ListRead DEF Forest
<1>2. ASSUME NEW i \in InfosOf(records)
      PROVE  /\ L[i] # <<>> => records[Last(L[i])].next = Null
             /\ \A j, k \in DOMAIN L[i] : j < k => records[L[i][j]].name < records[L[i][k]].name
  <2>1. L[i] \in Seq(EntriesOf(records))
    BY DEF Forest, Lists
  <2>2. ASSUME L[i] # <<>> PROVE records[Last(L[i])].next = Null
    <3>1. Len(L[i]) \in DOMAIN L[i] /\ Len(L[i]) + 1 \notin DOMAIN L[i] /\ Last(L[i]) = L[i][Len(L[i])]
      BY <2>1, <2>2 DEF Last
    <3>2. records[L[i][Len(L[i])]].next = At(L[i], Len(L[i]) + 1)
      BY <3>1 DEF Forest, Lists
    <3>. QED BY <3>1, <3>2 DEF At
  <2>. QED BY <2>2 DEF Forest, Lists
<1>3. EntryAddrs = UNION {ToSet(ArrayOf(records, a)) : a \in Infos}
  <2>1. \A i \in InfosOf(records) : \A k \in DOMAIN L[i] : L[i][k] \in EntriesOf(records)
    BY OnePlace DEF Forest
  <2>2. \A e \in EntriesOf(records) : \E i \in InfosOf(records) : \E k \in DOMAIN L[i] : L[i][k] = e
    BY DEF Forest, Lists
  <2>3. EntriesOf(records) = UNION {ToSet(L[i]) : i \in InfosOf(records)}
    BY <2>1, <2>2 DEF ToSet
  <2>4. UNION {ToSet(L[i]) : i \in InfosOf(records)} = UNION {ToSet(ArrayOf(records, i)) : i \in InfosOf(records)}
    BY <1>1
  <2>. QED BY <1>0, <2>3, <2>4
<1>4. ListsSorted
  BY <1>0, <1>1, <1>2, <1>3 DEF ListsSorted
<1>5. ASSUME NEW a \in Infos, NEW e \in ToSet(ArrayOf(records, a)), records[e].child # Null
      PROVE  records[records[e].child].parent = a
  <2>1. PICK k \in DOMAIN L[a] : L[a][k] = e
    BY <1>0, <1>1 DEF ToSet
  <2>. QED BY <1>0, <1>5, <2>1 DEF Forest, Paths
<1>6. records[Root].parent = Null
  BY DEF Forest, Paths
<1>. QED BY <1>4, <1>5, <1>6 DEF ParentsRight

(* The invariant implies the property.                                      *)
LEMMA TreeHeldIsWellFormed ==
  ASSUME NEW L, NEW P, TreeHolds(L, P)
  PROVE  TreeWellFormed
<1>. USE DEF TreeHolds
<1>1. WellFormed
  BY OwnersAre, ListsAreSorted DEF WellFormed
<1>2. \A n \in DOMAIN iters : Fits(records, L, P, checked, iters[n]) /\ iters[n] \in IterShape
  BY DEF Nested
<1>3. PathMatchesArray
  BY <1>2, ArraysAre DEF PathMatchesArray, Fits
<1>4. TreeTypeOK
  <2>1. Used \subseteq Addr /\ \A a \in Used : records[a] \in Node
    BY DEF Forest, Nodes, Used
  <2>2. ASSUME NEW n \in DOMAIN iters
        PROVE  iters[n] \in IteratorType /\ iters[n].iter <= Len(iters[n].entries) + 1
    <3>1. iters[n].path \in SeqOf(Name, MaxDepth)
      <4>1. iters[n].path = P[iters[n].infoAddr] /\ iters[n].infoAddr \in InfosOf(records)
        BY <1>2 DEF Fits
      <4>2. iters[n].path \in Seq(Name) /\ Len(iters[n].path) < MaxDepth /\ Len(iters[n].path) \in Nat
        BY <4>1, PathFacts
      <4>. QED BY <4>2, BoundedPath, HierAssumption
    <3>2. iters[n] \in IteratorType
      BY <1>2, <3>1 DEF IterShape, IteratorType, InfoNode, EntryNode
    <3>. QED BY <1>2, <3>2 DEF Fits
  <2>. QED BY <2>1, <2>2 DEF TreeTypeOK
<1>5. CopiesCurrent
  <2>1. ASSUME NEW n \in DOMAIN iters
        PROVE  LET f == iters[n]
                   disk == ListFrom(records, records[f.infoAddr].array)
               IN  /\ f.info = records[f.infoAddr]
                   /\ Len(f.entries) = Len(disk)
                   /\ \A k \in DOMAIN disk : Agree(f, k, disk[k])
    <3>. DEFINE f == iters[n]
                disk == ListFrom(records, records[f.infoAddr].array)
    <3>1. Fits(records, L, P, checked, f) /\ f \in IterShape
      BY <1>2
    <3>2. f.infoAddr \in InfosOf(records)
      BY <3>1 DEF Fits
    <3>3. /\ Len(disk) = Len(L[f.infoAddr]) /\ DOMAIN disk = DOMAIN L[f.infoAddr]
          /\ \A k \in DOMAIN disk : disk[k] = records[L[f.infoAddr][k]]
      BY <3>2, ListLoaded DEF Forest
    <3>4. DOMAIN f.entries = DOMAIN L[f.infoAddr]
      <4>1. f.entries \in Seq(EntryNode) /\ L[f.infoAddr] \in Seq(EntriesOf(records))
        BY <3>1, <3>2 DEF IterShape, Forest, Lists
      <4>2. Len(f.entries) = Len(L[f.infoAddr])
        BY <3>1 DEF Fits
      <4>. HIDE DEF f
      <4>. QED BY <4>1, <4>2
    <3>. HIDE DEF f, disk
    <3>5. \A k \in DOMAIN disk : Agree(f, k, disk[k])
      BY <3>1, <3>3, <3>4 DEF Fits, Copies, Agree
    <3>6. f.info = records[f.infoAddr] /\ Len(f.entries) = Len(disk)
      BY <3>1, <3>3 DEF Fits
    <3>. QED BY <3>5, <3>6 DEF f, disk
  <2>. QED BY <2>1 DEF CopiesCurrent
<1>. QED BY <1>1, <1>3, <1>4, <1>5, Zenon DEF TreeWellFormed

-----------------------------------------------------------------------------
(* An iterator that fits.                                                   *)

(* What an iterator that fits says of the array it is in.                   *)
LEMMA IteratorFacts ==
  ASSUME NEW R, NEW L, NEW P, Forest(R, L, P), NEW C, NEW f \in IterShape, Fits(R, L, P, C, f)
  PROVE  /\ f.infoAddr \in InfosOf(R)
         /\ f.entries \in Seq(EntryNode) /\ DOMAIN f.entries = DOMAIN L[f.infoAddr]
         /\ DOMAIN f.entries = 1..Len(f.entries) /\ Len(f.entries) \in Nat
         /\ f.iter \in Nat /\ f.iter >= 1
         /\ \A k \in DOMAIN f.entries :
              /\ f.entries[k].name = R[L[f.infoAddr][k]].name
              /\ f.entries[k].child = R[L[f.infoAddr][k]].child
              /\ f.entries[k].next = R[L[f.infoAddr][k]].next
              /\ f.call = "edit" => f.entries[k] = R[L[f.infoAddr][k]]
              /\ f.call = "fco" /\ k = f.iter => f.entries[k] = R[L[f.infoAddr][k]]
         /\ ~ Done(f) => /\ f.iter \in DOMAIN f.entries
                         /\ CurrentAddr(f) = L[f.infoAddr][f.iter]
                         /\ PathOf(f) = PathAt(R, L, P, f.infoAddr, f.iter)
<1>. DEFINE i == f.infoAddr
<1>1. i \in InfosOf(R) /\ f.info = R[i] /\ f.path = P[i]
  BY DEF Fits
<1>2. f.entries \in Seq(EntryNode) /\ f.iter \in Nat /\ f.iter >= 1 /\ f.call \in {"edit", "dir", "fco"}
  BY DEF IterShape
<1>3. L[i] \in Seq(EntriesOf(R))
  BY <1>1 DEF Forest, Lists
<1>4. DOMAIN f.entries = DOMAIN L[i] /\ DOMAIN f.entries = 1..Len(f.entries) /\ Len(f.entries) \in Nat
  BY <1>2, <1>3 DEF Fits
<1>5. ASSUME NEW k \in DOMAIN f.entries
      PROVE  /\ f.entries[k].name = R[L[i][k]].name
             /\ f.entries[k].child = R[L[i][k]].child
             /\ f.entries[k].next = R[L[i][k]].next
             /\ f.call = "edit" => f.entries[k] = R[L[i][k]]
             /\ f.call = "fco" /\ k = f.iter => f.entries[k] = R[L[i][k]]
  <2>1. Copies(C, f, k, R[L[i][k]])
    BY DEF Fits
  <2>2. R[L[i][k]] \in EntryNode
    BY <1>1, <1>4, OnePlace DEF Forest
  <2>3. \A e \in EntryNode : \A d : /\ [e EXCEPT !.data = d].name = e.name
                                     /\ [e EXCEPT !.data = d].child = e.child
                                     /\ [e EXCEPT !.data = d].next = e.next
    BY DEF EntryNode
  <2>4. \/ f.entries[k] = R[L[i][k]]
        \/ /\ f.call # "edit" /\ ~ (f.call = "fco" /\ k = f.iter)
           /\ \E d : f.entries[k] = [R[L[i][k]] EXCEPT !.data = d]
    <3>1. "dir" # "edit" /\ "fco" # "edit" /\ "dir" # "fco"
      OBVIOUS
    <3>. HIDE DEF i
    <3>. QED BY <2>1, <3>1, Zenon DEF Copies
  <2>. HIDE DEF i
  <2>5. CASE f.entries[k] = R[L[i][k]]
    BY <2>5
  <2>6. CASE f.entries[k] # R[L[i][k]]
    <3>1. f.call # "edit" /\ ~ (f.call = "fco" /\ k = f.iter)
      BY <2>4, <2>6
    <3>2. PICK d : f.entries[k] = [R[L[i][k]] EXCEPT !.data = d]
      BY <2>4, <2>6
    <3>. QED BY <2>2, <2>3, <3>1, <3>2
  <2>. QED BY <2>5, <2>6
<1>6. ASSUME ~ Done(f)
      PROVE  /\ f.iter \in DOMAIN f.entries
             /\ CurrentAddr(f) = L[i][f.iter]
             /\ PathOf(f) = PathAt(R, L, P, i, f.iter)
  <2>1. f.iter \in DOMAIN f.entries
    BY <1>2, <1>4, <1>6 DEF Done
  <2>2. CurrentAddr(f) = L[i][f.iter]
    <3>1. CASE f.iter = 1
      BY Zenon, <1>1, <1>4, <2>1, <3>1 DEF CurrentAddr, Forest, Lists, At
    <3>2. CASE f.iter # 1
      <4>1. f.iter - 1 \in DOMAIN f.entries /\ (f.iter - 1) + 1 = f.iter
        BY <1>2, <1>4, <2>1, <3>2
      <4>2. R[L[i][f.iter - 1]].next = At(L[i], (f.iter - 1) + 1)
        <5>1. \A k \in DOMAIN L[i] : R[L[i][k]].next = At(L[i], k + 1)
          BY <1>1 DEF Forest, Lists
        <5>. QED BY <1>4, <4>1, <5>1
      <4>3. f.entries[f.iter - 1].next = R[L[i][f.iter - 1]].next
        BY <1>5, <4>1
      <4>4. At(L[i], f.iter) = L[i][f.iter]
        BY <1>4, <2>1 DEF At
      <4>. QED BY <3>2, <4>1, <4>2, <4>3, <4>4 DEF CurrentAddr
    <3>. QED BY <3>1, <3>2
  <2>3. PathOf(f) = PathAt(R, L, P, i, f.iter)
    BY <1>1, <1>5, <2>1 DEF PathOf, PathAt, Current
  <2>. QED BY <2>1, <2>2, <2>3
<1>. QED BY <1>1, <1>2, <1>4, <1>5, <1>6

(* An iterator fits after it has loaded the array at its path.              *)
LEMMA LoadedFits ==
  ASSUME NEW R, NEW L, NEW P, Forest(R, L, P), NEW i \in InfosOf(R),
         NEW call \in {"edit", "dir", "fco"}, NEW C
  PROVE  /\ LoadArrayAt(R, i, P[i], call) \in IterShape
         /\ Fits(R, L, P, C, LoadArrayAt(R, i, P[i], call))
         /\ LoadArrayAt(R, i, P[i], call).infoAddr = i
         /\ LoadArrayAt(R, i, P[i], call).path = P[i]
         /\ LoadArrayAt(R, i, P[i], call).call = call
<1>. DEFINE f == LoadArrayAt(R, i, P[i], call)
            disk == ListFrom(R, R[i].array)
<1>1. f = [info |-> R[i], infoAddr |-> i, entries |-> disk, iter |-> 1, path |-> P[i], call |-> call]
  BY DEF LoadArrayAt
<1>2. /\ disk \in Seq(EntryNode) /\ Len(disk) = Len(L[i]) /\ DOMAIN disk = DOMAIN L[i]
      /\ \A k \in DOMAIN L[i] : disk[k] = R[L[i][k]]
  BY ListLoaded DEF Forest
<1>. HIDE DEF disk, f
<1>3. R[i] \in InfoNode /\ i \in Addr /\ P[i] \in Seq(Name)
  BY NodeKinds, PathFacts DEF Forest
<1>4. f \in IterShape
  BY <1>1, <1>2, <1>3 DEF IterShape
<1>5. Fits(R, L, P, C, f)
  <2>1. 1 <= Len(disk) + 1
    BY <1>2
  <2>. QED BY <1>1, <1>2, <2>1 DEF Fits, Copies
<1>6. f.infoAddr = i /\ f.path = P[i] /\ f.call = call
  BY <1>1
<1>. QED BY <1>4, <1>5, <1>6 DEF f

(* A single iterator is a stack as the calls make it.                       *)
LEMMA OneIterator ==
  ASSUME NEW f \in IterShape, f.call # "fco", NEW C
  PROVE  Nested(<<f>>, C)
<1>1. <<f>> \in Seq(IterShape) /\ <<f>> # <<>> /\ <<f>>[1] = f /\ DOMAIN <<f>> = {1}
  OBVIOUS
<1>. QED BY <1>1 DEF Nested

(* There is an iterator on top, and it fits.                                *)
LEMMA TopFacts ==
  ASSUME NEW L, NEW P, TreeHolds(L, P)
  PROVE  /\ Len(iters) \in Nat \ {0} /\ Len(iters) \in DOMAIN iters /\ DOMAIN iters = 1..Len(iters)
         /\ iters \in Seq(IterShape) /\ Top = iters[Len(iters)]
         /\ Top \in IterShape /\ Fits(records, L, P, checked, Top)
         /\ Forest(records, L, P)
<1>1. iters \in Seq(IterShape) /\ iters # <<>>
  BY DEF TreeHolds, Nested
<1>2. Len(iters) \in Nat \ {0} /\ Len(iters) \in DOMAIN iters /\ DOMAIN iters = 1..Len(iters)
  BY <1>1
<1>. QED BY <1>1, <1>2 DEF Top, Last, TreeHolds

-----------------------------------------------------------------------------
(* Moves of an iterator, which leave the records alone.                     *)

LEMMA StartHolds == TreeInit => TreeInv
<1>. SUFFICES ASSUME TreeInit PROVE TreeInv
  OBVIOUS
<1>a. PICK L : L = [i \in {Root} |-> <<>>]
  OBVIOUS
<1>b. PICK P : P = [i \in {Root} |-> <<>>]
  OBVIOUS
<1>1. /\ records = [a \in {Root} |-> [type |-> "info", parent |-> Null, array |-> Null]]
      /\ iters = <<LoadArrayAt(records, Root, <<>>, "edit")>> /\ checked = {}
  BY DEF TreeInit, ArrayInfo
<1>2. DOMAIN records = {Root} /\ records[Root].type = "info" /\ records[Root].array = Null
                             /\ records[Root].parent = Null
  BY <1>1
<1>3. InfosOf(records) = {Root} /\ EntriesOf(records) = {} /\ DatasOf(records) = {}
  BY <1>2 DEF InfosOf, EntriesOf, DatasOf
<1>4. Forest(records, L, P)
  <2>1. Nodes(records)
    <3>1. records[Root] \in Node
      BY <1>1 DEF Node, Link
    <3>2. IsFiniteSet({Root})
      BY FS_Singleton
    <3>. QED BY <1>1, <1>2, <3>1, <3>2, HierAssumption DEF Nodes
  <2>2. Lists(records, L)
    BY <1>a, <1>2, <1>3 DEF Lists, At
  <2>3. Paths(records, L, P)
    <3>1. \A i \in {Root} : Len(P[i]) = 0 /\ P[i] = <<>> /\ P[i] \in Seq(Name) /\ DOMAIN L[i] = {}
      BY <1>a, <1>b
    <3>2. P \in [{Root} -> Seq(Name)]
      BY <1>b
    <3>3. 0 < MaxDepth
      BY HierAssumption
    <3>. QED BY <1>2, <1>3, <3>1, <3>2, <3>3 DEF Paths
  <2>4. Datas(records)
    BY <1>3 DEF Datas
  <2>. QED BY <2>1, <2>2, <2>3, <2>4 DEF Forest
<1>5. P[Root] = <<>> /\ Root \in InfosOf(records)
  BY <1>b, <1>3
<1>6. PICK f : f = LoadArrayAt(records, Root, P[Root], "edit")
  OBVIOUS
<1>7. f \in IterShape /\ Fits(records, L, P, checked, f) /\ f.call = "edit"
  <2>1. f \in IterShape
    BY <1>4, <1>5, <1>6, LoadedFits
  <2>2. Fits(records, L, P, checked, f)
    BY <1>4, <1>5, <1>6, LoadedFits
  <2>3. f.call = "edit"
    BY <1>6 DEF LoadArrayAt
  <2>. QED BY <2>1, <2>2, <2>3
<1>8. Nested(iters, checked) /\ \A n \in DOMAIN iters : Fits(records, L, P, checked, iters[n])
  <2>1. iters = <<f>>
    BY <1>1, <1>5, <1>6
  <2>. QED BY <1>7, <2>1, OneIterator
<1>9. TreeHolds(L, P)
  BY <1>1, <1>4, <1>8 DEF TreeHolds
<1>. QED BY <1>9 DEF TreeInv


LEMMA OneIteratorHolds ==
  ASSUME NEW L, NEW P, TreeHolds(L, P), UNCHANGED records, checked' \subseteq checked,
         NEW i \in InfosOf(records), NEW call \in {"edit", "dir"},
         iters' = <<LoadArrayAt(records, i, P[i], call)>>
  PROVE  TreeInv'
<1>1. PICK f : f = LoadArrayAt(records, i, P[i], call)
  OBVIOUS
<1>2. f \in IterShape /\ Fits(records, L, P, checked', f) /\ f.call # "fco"
  <2>1. Forest(records, L, P) /\ call \in {"edit", "dir", "fco"}
    BY DEF TreeHolds
  <2>2. f \in IterShape
    BY <1>1, <2>1, LoadedFits
  <2>3. Fits(records, L, P, checked', f)
    BY <1>1, <2>1, LoadedFits
  <2>4. f.call = call
    BY <1>1, <2>1, LoadedFits
  <2>. QED BY <2>2, <2>3, <2>4
<1>3. Nested(iters', checked')
  BY <1>1, <1>2, OneIterator
<1>4. \A n \in DOMAIN iters' : iters'[n] = f
  BY <1>1
<1>5. TreeHolds(L, P)'
  BY <1>2, <1>3, <1>4 DEF TreeHolds
<1>. QED BY <1>5, Zenon DEF TreeInv

(* An iterator that a function has of its own, or that is moved in its      *)
(* array, where no function it was passed to works on it.                   *)
LEMMA OnlyIterator ==
  ASSUME NEW L, NEW P, TreeHolds(L, P), Len(iters) = 1
  PROVE  Top.call \in {"edit", "dir"} /\ \A f : [iters EXCEPT ![Len(iters)] = f] = <<f>>
<1>1. iters \in Seq(IterShape) /\ Top = iters[1] /\ iters[1] \in IterShape
  BY TopFacts
<1>2. iters[1].call # "fco"
  BY DEF TreeHolds, Nested
<1>. QED BY <1>1, <1>2 DEF IterShape

LEMMA NewIteratorHolds ==
  ASSUME NEW L, NEW P, TreeHolds(L, P), NEW call \in {"edit", "dir"}, NewIterator(call)
  PROVE  TreeInv'
<1>1. Root \in InfosOf(records) /\ P[Root] = <<>>
  BY DEF TreeHolds, Forest, Paths
<1>2. iters' = <<LoadArrayAt(records, Root, P[Root], call)>>
  BY <1>1 DEF NewIterator
<1>. QED BY <1>1, <1>2, OneIteratorHolds DEF NewIterator

(* The array below an entry has that entry's path.                          *)
LEMMA ChildBelow ==
  ASSUME NEW L, NEW P, TreeHolds(L, P), CanDescend(Top)
  PROVE  /\ Current(Top).child \in InfosOf(records) /\ P[Current(Top).child] = PathOf(Top)
         /\ Len(PathOf(Top)) = Len(Top.path) + 1 /\ Len(Top.path) \in Nat
<1>1. ~ Done(Top) /\ Current(Top).child # Null
  BY DEF CanDescend
<1>2. Top \in IterShape /\ Fits(records, L, P, checked, Top) /\ Forest(records, L, P)
  BY TopFacts
<1>3. /\ Top.infoAddr \in InfosOf(records) /\ Top.iter \in DOMAIN L[Top.infoAddr]
      /\ PathOf(Top) = PathAt(records, L, P, Top.infoAddr, Top.iter)
      /\ Top.entries[Top.iter].child = records[L[Top.infoAddr][Top.iter]].child
  <2>1. Top.infoAddr \in InfosOf(records)
    BY <1>2, IteratorFacts
  <2>2. DOMAIN Top.entries = DOMAIN L[Top.infoAddr]
    BY <1>2, IteratorFacts
  <2>3. Top.iter \in DOMAIN Top.entries
    BY <1>1, <1>2, IteratorFacts
  <2>4. PathOf(Top) = PathAt(records, L, P, Top.infoAddr, Top.iter)
    BY <1>1, <1>2, IteratorFacts
  <2>5. \A k \in DOMAIN Top.entries : Top.entries[k].child = records[L[Top.infoAddr][k]].child
    BY <1>2, IteratorFacts
  <2>. QED BY <2>1, <2>2, <2>3, <2>4, <2>5
<1>4. \A i \in InfosOf(records) : \A k \in DOMAIN L[i] : records[L[i][k]].child # Null =>
        /\ records[L[i][k]].child \in InfosOf(records)
        /\ P[records[L[i][k]].child] = PathAt(records, L, P, i, k)
  BY <1>2 DEF Forest, Paths, PathAt
<1>5. Top.path = P[Top.infoAddr]
  BY <1>2 DEF Fits
<1>. QED BY <1>1, <1>2, <1>3, <1>4, <1>5, PathFacts DEF Current

LEMMA DescendHolds ==
  ASSUME NEW L, NEW P, TreeHolds(L, P), Descend
  PROVE  TreeInv'
<1>2. Current(Top).child \in InfosOf(records) /\ P[Current(Top).child] = PathOf(Top)
  BY ChildBelow DEF Descend
<1>3. Top.call \in {"edit", "dir"}
  BY OnlyIterator DEF Descend
<1>4. iters' = <<LoadArrayAt(records, Current(Top).child, P[Current(Top).child], Top.call)>>
  BY <1>2, OnlyIterator DEF Descend, SetTop
<1>. QED BY <1>2, <1>3, <1>4, OneIteratorHolds DEF Descend

LEMMA AscendHolds ==
  ASSUME NEW L, NEW P, TreeHolds(L, P), Ascend
  PROVE  TreeInv'
<1>1. Top.infoAddr \in InfosOf(records) /\ Top.info = records[Top.infoAddr] /\ Top.path = P[Top.infoAddr]
  BY TopFacts DEF Fits
<1>2. Top.infoAddr # Root /\ Top.infoAddr # Null
  BY <1>1, NodeKinds DEF Ascend, AtRoot, TreeHolds, Forest
<1>3. PICK i \in InfosOf(records) : \E k \in DOMAIN L[i] : records[L[i][k]].child = Top.infoAddr
  BY <1>1, <1>2 DEF TreeHolds, Forest, Paths
<1>4. PICK k \in DOMAIN L[i] : records[L[i][k]].child = Top.infoAddr
  BY <1>3
<1>5. Top.info.parent = i /\ Top.path = PathAt(records, L, P, i, k)
  BY <1>1, <1>2, <1>4 DEF TreeHolds, Forest, Paths, PathAt
<1>6. Front(Top.path) = P[i]
  BY <1>5, PathFacts DEF TreeHolds
<1>7. Top.call \in {"edit", "dir"}
  BY OnlyIterator DEF Ascend
<1>8. iters' = <<LoadArrayAt(records, i, P[i], Top.call)>>
  BY <1>5, <1>6, OnlyIterator DEF Ascend, SetTop
<1>. QED BY <1>7, <1>8, OneIteratorHolds DEF Ascend

(* The place of an iterator in its array, and the entries before a name.    *)
LEMMA TopMoves ==
  ASSUME NEW L, NEW P, TreeHolds(L, P), Top.call # "fco", NEW k \in 1..(Len(Top.entries) + 1),
         iters' = [iters EXCEPT ![Len(iters)] = [Top EXCEPT !.iter = k]], UNCHANGED <<records, checked>>
  PROVE  TreeInv'
<1>. DEFINE f == [Top EXCEPT !.iter = k]
<1>1. /\ Len(iters) \in Nat \ {0} /\ Len(iters) \in DOMAIN iters /\ DOMAIN iters = 1..Len(iters)
      /\ iters \in Seq(IterShape) /\ Top = iters[Len(iters)]
      /\ Top \in IterShape /\ Fits(records, L, P, checked, Top)
  BY TopFacts
<1>2. /\ f \in IterShape /\ f.iter = k /\ f.infoAddr = Top.infoAddr /\ f.info = Top.info
      /\ f.entries = Top.entries /\ f.path = Top.path /\ f.call = Top.call
  <2>1. k \in Nat \ {0}
    BY <1>1 DEF IterShape
  <2>. QED BY <1>1, <2>1 DEF IterShape
<1>. HIDE DEF f
<1>3. Fits(records, L, P, checked, f)
  <2>1. k <= Len(Top.entries) + 1
    BY <1>1 DEF IterShape
  <2>2. \A j \in DOMAIN Top.entries :
          Copies(checked, Top, j, records[L[Top.infoAddr][j]]) => Copies(checked, f, j, records[L[Top.infoAddr][j]])
    BY <1>2 DEF Copies
  <2>. QED BY <1>1, <1>2, <2>1, <2>2 DEF Fits
<1>4. /\ iters' \in Seq(IterShape) /\ Len(iters') = Len(iters) /\ DOMAIN iters' = DOMAIN iters
      /\ iters'[Len(iters)] = f /\ \A n \in DOMAIN iters : n # Len(iters) => iters'[n] = iters[n]
  BY <1>1, <1>2 DEF f
<1>5. \A n \in DOMAIN iters' : Fits(records, L, P, checked, iters'[n])
  BY <1>3, <1>4 DEF TreeHolds
<1>6. Nested(iters', checked)
  <2>. USE DEF Nested
  <2>0. Nested(iters, checked)
    BY DEF TreeHolds
  <2>1. iters' # <<>>
    BY <1>1, <1>4
  <2>2. \A n \in DOMAIN iters : /\ iters'[n].call = iters[n].call /\ iters'[n].path = iters[n].path
                                /\ iters'[n].infoAddr = iters[n].infoAddr
                                /\ n # Len(iters) => iters'[n] = iters[n]
    BY <1>1, <1>2, <1>4
  <2>3. iters'[1].call # "fco"
    BY <1>1, <2>0, <2>2
  <2>4. ASSUME NEW n \in DOMAIN iters, iters[n].call = "fco"
        PROVE  /\ n # Len(iters) /\ n - 1 # Len(iters)
               /\ iters'[n] = iters[n] /\ n - 1 \in DOMAIN iters /\ iters'[n - 1] = iters[n - 1]
    BY <1>1, <2>0, <2>2, <2>4
  <2>5. ASSUME NEW n \in DOMAIN iters', iters'[n].call = "fco"
        PROVE  /\ iters'[n].iter <= Len(iters'[n].entries) /\ PathOf(iters'[n]) \in checked
               /\ iters'[n - 1].call = "dir" /\ iters'[n - 1].infoAddr = iters'[n].infoAddr
               /\ iters'[n - 1].iter = iters'[n].iter
    <3>1. n \in DOMAIN iters /\ iters[n].call = "fco"
      BY <1>4, <2>2, <2>5
    <3>. QED BY <2>0, <2>4, <3>1
  <2>6. \A m, n \in DOMAIN iters' : iters'[m].call = "edit" => iters'[n].call = "edit"
    BY <1>4, <2>0, <2>2
  <2>7. \A m, n \in DOMAIN iters' : m < n =>
          Len(iters'[m].path) < Len(iters'[n].path) \/ (m = n - 1 /\ iters'[n].call = "fco")
    BY <1>4, <2>0, <2>2
  <2>. QED BY <1>4, <2>1, <2>3, <2>5, <2>6, <2>7
<1>7. TreeHolds(L, P)'
  BY <1>5, <1>6 DEF TreeHolds
<1>. QED BY <1>7, Zenon DEF TreeInv


(* UpperBound finds the place before the first name that is not smaller.    *)
LEMMA BoundIs ==
  ASSUME NEW R, NEW L, NEW P, Forest(R, L, P), NEW C, NEW f \in IterShape, Fits(R, L, P, C, f), NEW name \in Nat
  PROVE  /\ UpperBound(f, name) \in 1..(Len(f.entries) + 1)
         /\ \A k \in DOMAIN f.entries : f.entries[k].name < name <=> k < UpperBound(f, name)
<1>. DEFINE n == Len(f.entries)
            S == {k \in DOMAIN f.entries : f.entries[k].name < name}
            T == {k \in 1..(n + 1) : k = n + 1 \/ ~ (f.entries[k].name < name)}
<1>1. f.infoAddr \in InfosOf(R) /\ f.entries \in Seq(EntryNode)
  BY DEF Fits, IterShape
<1>2. n \in Nat /\ DOMAIN f.entries = 1..n
  BY <1>1
<1>3. DOMAIN f.entries = DOMAIN L[f.infoAddr]
  BY IteratorFacts
<1>4. \A k \in DOMAIN f.entries : f.entries[k].name = R[L[f.infoAddr][k]].name
  BY IteratorFacts
<1>5. \A k \in DOMAIN f.entries : f.entries[k].name \in Nat
  BY <1>1, <1>3, <1>4, OnePlace DEF Forest
<1>6. \A j, k \in DOMAIN f.entries : j < k => f.entries[j].name < f.entries[k].name
  <2>1. \A j, k \in DOMAIN L[f.infoAddr] : j < k => R[L[f.infoAddr][j]].name < R[L[f.infoAddr][k]].name
    BY <1>1 DEF Forest, Lists
  <2>. QED BY <1>3, <1>4, <2>1
<1>. HIDE DEF n
<1>7. PICK m \in T : \A k \in T : m <= k
  <2>1. T \in SUBSET Nat /\ n + 1 \in T
    BY <1>2
  <2>. HIDE DEF T
  <2>. QED BY <2>1, LeastNatural
<1>8. m \in 1..(n + 1) /\ m \in Nat
  BY <1>2
<1>9. ASSUME NEW k \in DOMAIN f.entries PROVE f.entries[k].name < name <=> k < m
  <2>1. k \in Nat /\ k \in 1..n
    BY <1>2
  <2>2. CASE k < m
    <3>1. k \notin T
      <4>. HIDE DEF T
      <4>. QED BY <1>7, <1>8, <2>1, <2>2
    <3>2. k \in 1..(n + 1)
      BY <1>2, <2>1
    <3>. QED BY <2>2, <3>1, <3>2
  <2>3. CASE ~ (k < m)
    <3>1. m \in DOMAIN f.entries /\ ~ (f.entries[m].name < name)
      <4>1. m # n + 1 /\ m \in 1..n
        BY <1>2, <1>8, <2>1, <2>3
      <4>. QED BY <1>2, <1>7, <4>1
    <3>2. k = m \/ f.entries[m].name < f.entries[k].name
      BY <1>6, <1>8, <2>1, <2>3, <3>1
    <3>3. f.entries[k].name \in Nat /\ f.entries[m].name \in Nat
      BY <1>5, <3>1
    <3>4. ~ (f.entries[k].name < name)
      BY <3>1, <3>2, <3>3
    <3>. QED BY <2>3, <3>4
  <2>. QED BY <2>2, <2>3
<1>10. S = 1..(m - 1)
  BY <1>2, <1>8, <1>9
<1>11. Cardinality(S) = m - 1
  <2>1. Cardinality(1..(m - 1)) = IF 1 > m - 1 THEN 0 ELSE m - 1 - 1 + 1
    BY <1>8, FS_Interval
  <2>2. Cardinality(1..(m - 1)) = m - 1
    BY <1>8, <2>1
  <2>. QED BY <1>10, <2>2
<1>12. UpperBound(f, name) = m
  <2>1. UpperBound(f, name) = 1 + Cardinality(S)
    BY DEF UpperBound
  <2>. HIDE DEF S
  <2>. QED BY <1>8, <1>11, <2>1
<1>. QED BY <1>8, <1>9, <1>12 DEF n

LEMMA SeekBeginHolds ==
  ASSUME NEW L, NEW P, TreeHolds(L, P), SeekBegin
  PROVE  TreeInv'
<1>1. 1 \in 1..(Len(Top.entries) + 1)
  BY TopFacts DEF IterShape
<1>. QED BY <1>1, TopMoves DEF SeekBegin, SetTop

LEMMA SeekToHolds ==
  ASSUME NEW L, NEW P, TreeHolds(L, P), NEW name \in Name, SeekTo(name)
  PROVE  TreeInv'
<1>. DEFINE k == IF name \in Names(Top) THEN UpperBound(Top, name) ELSE Len(Top.entries) + 1
<1>1. Top \in IterShape /\ Fits(records, L, P, checked, Top) /\ Forest(records, L, P)
  BY TopFacts
<1>2. name \in Nat
  BY HierAssumption
<1>3. UpperBound(Top, name) \in 1..(Len(Top.entries) + 1)
  BY <1>1, <1>2, BoundIs
<1>4. Len(Top.entries) + 1 \in 1..(Len(Top.entries) + 1)
  BY <1>1 DEF IterShape
<1>5. k \in 1..(Len(Top.entries) + 1)
  BY <1>3, <1>4
<1>6. iters' = [iters EXCEPT ![Len(iters)] = [Top EXCEPT !.iter = k]]
  BY DEF SeekTo, SetTop
<1>. HIDE DEF k
<1>. QED BY <1>5, <1>6, TopMoves DEF SeekTo

LEMMA NextEntryHolds ==
  ASSUME NEW L, NEW P, TreeHolds(L, P), NextEntry
  PROVE  TreeInv'
<1>1. Top \in IterShape /\ Top.iter \in Nat \ {0} /\ Len(Top.entries) \in Nat
  BY TopFacts DEF IterShape
<1>2. Top.iter + 1 \in 1..(Len(Top.entries) + 1)
  BY <1>1 DEF NextEntry, Done
<1>3. iters' = [iters EXCEPT ![Len(iters)] = [Top EXCEPT !.iter = Top.iter + 1]]
  BY DEF NextEntry, SetTop
<1>. QED BY <1>2, <1>3, TopMoves DEF NextEntry

LEMMA CreateExistingEntryHolds ==
  ASSUME NEW L, NEW P, TreeHolds(L, P), NEW name \in Name, CreateExistingEntry(name)
  PROVE  TreeInv'
<1>1. Top \in IterShape /\ Fits(records, L, P, checked, Top) /\ Forest(records, L, P)
  BY TopFacts
<1>2. name \in Nat
  BY HierAssumption
<1>3. UpperBound(Top, name) \in 1..(Len(Top.entries) + 1)
  BY <1>1, <1>2, BoundIs
<1>4. iters' = [iters EXCEPT ![Len(iters)] = [Top EXCEPT !.iter = UpperBound(Top, name)]]
  BY DEF CreateExistingEntry, SetTop
<1>5. Top.call # "fco"
  BY DEF CreateExistingEntry, Edits
<1>. QED BY <1>3, <1>4, <1>5, TopMoves DEF CreateExistingEntry


(* Calls and returns.                                                       *)
LEMMA CallHolds ==
  ASSUME NEW L, NEW P, TreeHolds(L, P), UNCHANGED records,
         checked \subseteq checked', checked' \subseteq SeqOf(Name, MaxDepth),
         NEW f \in IterShape, Fits(records, L, P, checked', f), iters' = Append(iters, f),
         \/ /\ f.call = "fco" /\ f.iter <= Len(f.entries) /\ PathOf(f) \in checked'
            /\ Top.call = "dir" /\ Top.infoAddr = f.infoAddr /\ Top.iter = f.iter /\ Top.path = f.path
         \/ /\ f.call = "edit" <=> Top.call = "edit"
            /\ f.call # "fco" /\ Len(Top.path) < Len(f.path)
  PROVE  TreeInv'
<1>. DEFINE n == Len(iters)
<1>1. /\ n \in Nat \ {0} /\ n \in DOMAIN iters /\ DOMAIN iters = 1..n
      /\ iters \in Seq(IterShape) /\ Top = iters[n]
  BY TopFacts
<1>2. Nested(iters, checked)
  BY DEF TreeHolds
<1>3. /\ iters' \in Seq(IterShape) /\ DOMAIN iters' = 1..(n + 1) /\ iters' # <<>>
      /\ iters'[n + 1] = f /\ \A m \in 1..n : iters'[m] = iters[m]
  BY <1>1
<1>. HIDE DEF n
<1>4. \A m \in DOMAIN iters' : Fits(records, L, P, checked', iters'[m])
  <2>1. ASSUME NEW m \in 1..n PROVE Fits(records, L, P, checked', iters[m])
    <3>1. Fits(records, L, P, checked, iters[m])
      BY <1>1 DEF TreeHolds
    <3>2. \A k, e : Copies(checked, iters[m], k, e) => Copies(checked', iters[m], k, e)
      BY DEF Copies
    <3>. QED BY <3>1, <3>2 DEF Fits
  <2>2. \A m \in 1..(n + 1) : m \in 1..n \/ m = n + 1
    BY <1>1
  <2>. QED BY <1>3, <2>1, <2>2
<1>5. Nested(iters', checked')
  <2>. USE DEF Nested
  <2>0. \A m \in DOMAIN iters' : m \in 1..n \/ m = n + 1
    BY <1>1, <1>3
  <2>1. iters'[1].call # "fco"
    BY <1>1, <1>2, <1>3
  <2>2. ASSUME NEW m \in DOMAIN iters', iters'[m].call = "fco"
        PROVE  /\ iters'[m].iter <= Len(iters'[m].entries) /\ PathOf(iters'[m]) \in checked'
               /\ iters'[m - 1].call = "dir" /\ iters'[m - 1].infoAddr = iters'[m].infoAddr
               /\ iters'[m - 1].iter = iters'[m].iter
    <3>1. CASE m = n + 1
      <4>1. (n + 1) - 1 = n
        BY <1>1
      <4>2. f.call = "fco"
        BY <1>3, <2>2, <3>1
      <4>. QED BY <1>1, <1>3, <3>1, <4>1, <4>2
    <3>2. CASE m \in 1..n
      <4>1. iters'[m] = iters[m] /\ iters[m].call = "fco"
        BY <1>3, <2>2, <3>2
      <4>2. m # 1
        BY <1>2, <4>1
      <4>3. m - 1 \in 1..n
        BY <1>1, <3>2, <4>2
      <4>4. iters'[m - 1] = iters[m - 1]
        BY <1>3, <4>3
      <4>. QED BY <1>1, <1>2, <3>2, <4>1, <4>4
    <3>. QED BY <2>0, <3>1, <3>2
  <2>3. \A j, m \in 1..n : iters[j].call = "edit" => iters[m].call = "edit"
    BY <1>1, <1>2
  <2>4. (f.call = "edit") <=> (Top.call = "edit")
    OBVIOUS
  <2>5. ASSUME NEW j \in DOMAIN iters', NEW m \in DOMAIN iters', iters'[j].call = "edit"
        PROVE  iters'[m].call = "edit"
    <3>1. Top.call = "edit"
      <4>1. CASE j = n + 1
        BY <1>3, <2>4, <2>5, <4>1
      <4>2. CASE j \in 1..n
        BY <1>1, <1>3, <2>3, <2>5, <4>2
      <4>. QED BY <2>0, <4>1, <4>2
    <3>2. CASE m = n + 1
      BY <1>3, <2>4, <3>1, <3>2
    <3>3. CASE m \in 1..n
      BY <1>1, <1>3, <2>3, <3>1, <3>3
    <3>. QED BY <2>0, <3>2, <3>3
  <2>6. ASSUME NEW j \in DOMAIN iters', NEW m \in DOMAIN iters', j < m
        PROVE  Len(iters'[j].path) < Len(iters'[m].path) \/ (j = m - 1 /\ iters'[m].call = "fco")
    <3>1. CASE m \in 1..n
      <4>1. j \in 1..n
        BY <1>1, <1>3, <2>6, <3>1
      <4>. QED BY <1>1, <1>2, <1>3, <2>6, <3>1, <4>1
    <3>2. CASE m = n + 1
      <4>1. j \in 1..n /\ iters'[j] = iters[j] /\ iters'[m] = f
        BY <1>1, <1>3, <2>6, <3>2
      <4>2. Len(iters[j].path) \in Nat /\ Len(Top.path) \in Nat /\ Len(f.path) \in Nat
        <5>1. iters[j] \in IterShape /\ Top \in IterShape
          BY <1>1, <4>1
        <5>2. \A g \in IterShape : g.path \in Seq(Name)
          BY DEF IterShape
        <5>3. iters[j].path \in Seq(Name) /\ Top.path \in Seq(Name) /\ f.path \in Seq(Name)
          BY <5>1, <5>2
        <5>. QED BY <5>3
      <4>3. CASE f.call = "fco"
        <5>1. Top.call = "dir" /\ Top.path = f.path
          BY <4>3
        <5>2. CASE j = n
          BY <1>1, <3>2, <4>1, <4>3, <5>2
        <5>3. CASE j # n
          <6>1. j < n
            BY <1>1, <4>1, <5>3
          <6>2. Len(iters[j].path) < Len(Top.path)
            BY <1>1, <1>2, <4>1, <5>1, <6>1
          <6>. QED BY <4>1, <5>1, <6>2
        <5>. QED BY <5>2, <5>3
      <4>4. CASE f.call # "fco"
        <5>1. Len(Top.path) < Len(f.path)
          BY <4>4
        <5>2. Len(iters[j].path) <= Len(Top.path)
          <6>1. CASE j = n
            BY <1>1, <4>2, <6>1
          <6>2. CASE j # n
            <7>1. j < n
              BY <1>1, <4>1, <6>2
            <7>2. CASE Len(iters[j].path) < Len(iters[n].path)
              BY <1>1, <4>2, <7>2
            <7>3. CASE j = n - 1 /\ iters[n].call = "fco"
              <8>1. iters[n - 1].infoAddr = iters[n].infoAddr
                BY <1>1, <1>2, <7>3
              <8>2. \A i \in 1..n : iters[i].path = P[iters[i].infoAddr]
                BY <1>1 DEF TreeHolds, Fits
              <8>3. iters[j].path = Top.path
                BY <1>1, <4>1, <7>3, <8>1, <8>2
              <8>. QED BY <4>2, <8>3
            <7>. QED BY <1>1, <1>2, <4>1, <7>1, <7>2, <7>3
          <6>. QED BY <6>1, <6>2
        <5>. QED BY <4>1, <4>2, <5>1, <5>2
      <4>. QED BY <4>3, <4>4
    <3>. QED BY <2>0, <3>1, <3>2
  <2>. QED BY <1>3, <2>1, <2>2, <2>5, <2>6
<1>6. TreeHolds(L, P)'
  BY <1>4, <1>5 DEF TreeHolds
<1>. QED BY <1>6, Zenon DEF TreeInv

LEMMA EnterDirectoryHolds ==
  ASSUME NEW L, NEW P, TreeHolds(L, P), EnterDirectory
  PROVE  TreeInv'
<1>1. PICK call : call = IF Top.call = "edit" THEN "edit" ELSE "dir"
  OBVIOUS
<1>2. /\ Current(Top).child \in InfosOf(records) /\ P[Current(Top).child] = PathOf(Top)
      /\ Len(PathOf(Top)) = Len(Top.path) + 1 /\ Len(Top.path) \in Nat
  BY ChildBelow DEF EnterDirectory
<1>3. PICK f : f = LoadArrayAt(records, Current(Top).child, P[Current(Top).child], call)
  OBVIOUS
<1>4. call \in {"edit", "dir", "fco"} /\ call # "fco" /\ (call = "edit" <=> Top.call = "edit")
  BY <1>1
<1>5. Forest(records, L, P)
  BY DEF TreeHolds
<1>6. f \in IterShape
  BY <1>2, <1>3, <1>4, <1>5, LoadedFits
<1>7. Fits(records, L, P, checked', f)
  BY <1>2, <1>3, <1>4, <1>5, LoadedFits
<1>8. f.call = call
  BY <1>3 DEF LoadArrayAt
<1>9. f.path = P[Current(Top).child]
  BY <1>3 DEF LoadArrayAt
<1>10. Len(Top.path) < Len(f.path)
  BY <1>2, <1>9
<1>11. iters' = Append(iters, f)
  BY <1>1, <1>2, <1>3 DEF EnterDirectory, Edits
<1>12. checked' = checked /\ records' = records /\ checked' \subseteq SeqOf(Name, MaxDepth)
  BY DEF EnterDirectory, TreeHolds
<1>. QED BY <1>4, <1>6, <1>7, <1>8, <1>10, <1>11, <1>12, CallHolds

LEMMA EnterFCOHolds ==
  ASSUME NEW L, NEW P, TreeHolds(L, P), EnterFCO
  PROVE  TreeInv'
<1>1. PICK f : f = [Top EXCEPT !.call = "fco"]
  OBVIOUS
<1>2. Top \in IterShape /\ Fits(records, L, P, checked, Top) /\ Forest(records, L, P)
  BY TopFacts
<1>3. Top.call = "dir" /\ ~ Done(Top) /\ PathOf(Top) \notin checked
  BY DEF EnterFCO
<1>4. /\ f \in IterShape /\ f.call = "fco" /\ f.infoAddr = Top.infoAddr /\ f.info = Top.info
      /\ f.entries = Top.entries /\ f.iter = Top.iter /\ f.path = Top.path
  BY <1>1, <1>2 DEF IterShape
<1>5. PathOf(f) = PathOf(Top) /\ f.iter <= Len(f.entries)
  <2>1. Top.iter \in Nat /\ Len(Top.entries) \in Nat
    BY <1>2 DEF IterShape
  <2>. QED BY <1>3, <1>4, <2>1 DEF PathOf, Current, Done
<1>6. checked' = checked \cup {PathOf(Top)}
  BY DEF EnterFCO
<1>7. Fits(records, L, P, checked', f)
  <2>1. DOMAIN Top.entries = DOMAIN L[Top.infoAddr]
    BY <1>2, IteratorFacts
  <2>2. PathOf(Top) = PathAt(records, L, P, Top.infoAddr, Top.iter)
    BY <1>2, <1>3, IteratorFacts
  <2>3. Top.path = P[Top.infoAddr] /\ Top.infoAddr \in InfosOf(records)
    BY <1>2 DEF Fits
  <2>4. ASSUME NEW k \in DOMAIN Top.entries PROVE Copies(checked', f, k, records[L[Top.infoAddr][k]])
    <3>1. Copies(checked, Top, k, records[L[Top.infoAddr][k]])
      BY <1>2 DEF Fits
    <3>2. CASE Top.entries[k] = records[L[Top.infoAddr][k]]
      BY <1>4, <3>2 DEF Copies
    <3>3. CASE Top.entries[k] # records[L[Top.infoAddr][k]]
      <4>1. /\ Append(Top.path, records[L[Top.infoAddr][k]].name) \in checked
            /\ Top.entries[k] = [records[L[Top.infoAddr][k]] EXCEPT !.data = Top.entries[k].data]
        BY <3>1, <3>3, Zenon DEF Copies
      <4>2. k # Top.iter
        BY <1>3, <2>2, <2>3, <4>1 DEF PathAt
      <4>. QED BY <1>4, <1>6, <4>1, <4>2 DEF Copies
    <3>. QED BY <3>2, <3>3
  <2>. QED BY <1>2, <1>4, <2>4 DEF Fits
<1>8. PathOf(Top) \in SeqOf(Name, MaxDepth)
  <2>1. Top.infoAddr \in InfosOf(records)
    BY <1>2, IteratorFacts
  <2>2. DOMAIN Top.entries = DOMAIN L[Top.infoAddr]
    BY <1>2, IteratorFacts
  <2>3. Top.iter \in DOMAIN Top.entries
    BY <1>2, <1>3, IteratorFacts
  <2>4. PathOf(Top) = PathAt(records, L, P, Top.infoAddr, Top.iter)
    BY <1>2, <1>3, IteratorFacts
  <2>5. PathOf(Top) \in Seq(Name) /\ Len(PathOf(Top)) = Len(P[Top.infoAddr]) + 1
    BY <1>2, <2>1, <2>2, <2>3, <2>4, PathFacts
  <2>6. Len(P[Top.infoAddr]) \in Nat /\ Len(P[Top.infoAddr]) < MaxDepth
    BY <1>2, <2>1, PathFacts
  <2>7. Len(PathOf(Top)) <= MaxDepth
    BY <2>5, <2>6, HierAssumption
  <2>. QED BY <2>5, <2>7, BoundedPath
<1>9. iters' = Append(iters, f) /\ records' = records
  BY <1>1 DEF EnterFCO
<1>10. checked \subseteq checked' /\ checked' \subseteq SeqOf(Name, MaxDepth) /\ PathOf(f) \in checked'
  BY <1>5, <1>6, <1>8 DEF TreeHolds
<1>. QED BY <1>3, <1>4, <1>5, <1>7, <1>9, <1>10, CallHolds

LEMMA ReturnHolds ==
  ASSUME NEW L, NEW P, TreeHolds(L, P), Return
  PROVE  TreeInv'
<1>. DEFINE n == Len(iters)
            caller == iters[n - 1]
            f == IF Top.call = "fco" THEN [caller EXCEPT !.iter = @ + 1] ELSE caller
<1>1. /\ n \in Nat /\ n > 1 /\ n - 1 \in 1..n /\ DOMAIN iters = 1..n
      /\ iters \in Seq(IterShape) /\ Top = iters[n]
  BY TopFacts DEF Return
<1>2. Nested(iters, checked)
  BY DEF TreeHolds
<1>3. iters' = Append(SubSeq(iters, 1, n - 2), f)
  BY DEF Return
<1>4. caller \in IterShape /\ Fits(records, L, P, checked, caller)
  BY <1>1 DEF TreeHolds
<1>5. Top.call = "fco" => caller.call = "dir" /\ caller.iter = Top.iter /\ caller.infoAddr = Top.infoAddr
                          /\ Top.iter <= Len(Top.entries)
  BY <1>1, <1>2 DEF Nested
<1>6. Top.call = "fco" => caller.iter + 1 <= Len(caller.entries) + 1
  <2>1. Top.call = "fco" => Len(caller.entries) = Len(L[Top.infoAddr])
    BY <1>4, <1>5 DEF Fits
  <2>2. Len(Top.entries) = Len(L[Top.infoAddr])
    BY TopFacts DEF Fits
  <2>3. caller.iter \in Nat /\ Len(caller.entries) \in Nat
    BY <1>4 DEF IterShape
  <2>. HIDE DEF caller, n
  <2>. QED BY <1>5, <2>1, <2>2, <2>3
<1>. HIDE DEF caller
<1>7. /\ f \in IterShape /\ f.infoAddr = caller.infoAddr /\ f.info = caller.info
      /\ f.entries = caller.entries /\ f.path = caller.path /\ f.call = caller.call
      /\ f.iter <= Len(caller.entries) + 1
      /\ Top.call # "fco" => f = caller
  <2>1. CASE Top.call = "fco"
    <3>1. caller.iter + 1 \in Nat \ {0}
      BY <1>4 DEF IterShape
    <3>. QED BY <1>4, <1>6, <2>1, <3>1 DEF IterShape
  <2>2. CASE Top.call # "fco"
    BY <1>4, <2>2 DEF Fits
  <2>. QED BY <2>1, <2>2
<1>. HIDE DEF f
<1>8. Fits(records, L, P, checked, f)
  <2>1. ASSUME NEW k \in DOMAIN caller.entries
        PROVE  Copies(checked, f, k, records[L[caller.infoAddr][k]])
    <3>1. Copies(checked, caller, k, records[L[caller.infoAddr][k]])
      BY <1>4 DEF Fits
    <3>2. CASE Top.call # "fco"
      BY <1>7, <3>1, <3>2
    <3>3. CASE Top.call = "fco"
      BY <1>5, <1>7, <3>1, <3>3 DEF Copies
    <3>. QED BY <3>2, <3>3
  <2>. QED BY <1>4, <1>7, <2>1 DEF Fits
<1>9. /\ iters' \in Seq(IterShape) /\ iters' # <<>> /\ DOMAIN iters' = 1..(n - 1)
      /\ iters'[n - 1] = f /\ \A m \in 1..(n - 2) : iters'[m] = iters[m]
  <2>. HIDE DEF n
  <2>1. SubSeq(iters, 1, n - 2) \in Seq(IterShape) /\ Len(SubSeq(iters, 1, n - 2)) = n - 2
        /\ \A m \in 1..(n - 2) : SubSeq(iters, 1, n - 2)[m] = iters[m]
    BY <1>1 DEF n
  <2>. QED BY <1>1, <1>3, <1>7, <2>1
<1>. HIDE DEF n
<1>10. \A m \in 1..(n - 1) : /\ m \in 1..n /\ (m \in 1..(n - 2) \/ m = n - 1)
                             /\ iters'[m].call = iters[m].call /\ iters'[m].path = iters[m].path
  BY <1>1, <1>7, <1>9 DEF caller
<1>11. \A m \in DOMAIN iters' : Fits(records, L, P, checked, iters'[m])
  BY <1>1, <1>8, <1>9, <1>10 DEF TreeHolds
<1>12. Nested(iters', checked)
  <2>. USE DEF Nested
  <2>1. iters'[1].call # "fco"
    BY <1>1, <1>2, <1>10
  <2>2. ASSUME NEW m \in 1..(n - 1), iters'[m].call = "fco"
        PROVE  /\ iters'[m].iter <= Len(iters'[m].entries) /\ PathOf(iters'[m]) \in checked
               /\ iters'[m - 1].call = "dir" /\ iters'[m - 1].infoAddr = iters'[m].infoAddr
               /\ iters'[m - 1].iter = iters'[m].iter
    <3>1. iters[m].call = "fco" /\ m # 1 /\ m \in 1..n
      BY <1>2, <1>10, <2>2
    <3>2. iters'[m] = iters[m]
      <4>1. CASE m = n - 1
        BY <1>5, <1>7, <1>9, <3>1, <4>1 DEF caller
      <4>2. CASE m # n - 1
        BY <1>9, <1>10, <4>2
      <4>. QED BY <4>1, <4>2
    <3>3. m - 1 \in 1..(n - 2) /\ iters'[m - 1] = iters[m - 1]
      BY <1>1, <1>9, <3>1
    <3>. QED BY <1>1, <1>2, <3>1, <3>2, <3>3
  <2>3. \A j, m \in 1..(n - 1) : iters'[j].call = "edit" => iters'[m].call = "edit"
    BY <1>1, <1>2, <1>10
  <2>4. \A j, m \in 1..(n - 1) : j < m =>
          Len(iters'[j].path) < Len(iters'[m].path) \/ (j = m - 1 /\ iters'[m].call = "fco")
    BY <1>1, <1>2, <1>10
  <2>. QED BY <1>9, <2>1, <2>2, <2>3, <2>4
<1>13. records' = records /\ checked' = checked
  BY DEF Return
<1>14. TreeHolds(L, P)'
  BY <1>11, <1>12, <1>13 DEF TreeHolds
<1>. QED BY <1>14, Zenon DEF TreeInv

-----------------------------------------------------------------------------
(* Changes of the records.                                                  *)

(* The lists and the paths are kept when only payloads change.              *)
LEMMA ShapeKept ==
  ASSUME NEW R, NEW L, NEW P, Forest(R, L, P), NEW R2,
         InfosOf(R2) = InfosOf(R), EntriesOf(R2) = EntriesOf(R),
         \A i \in InfosOf(R) : R2[i] = R[i],
         \A e \in EntriesOf(R) : R2[e].name = R[e].name /\ R2[e].child = R[e].child /\ R2[e].next = R[e].next
  PROVE  Lists(R2, L) /\ Paths(R2, L, P)
<1>1. \A i \in InfosOf(R) : \A k \in DOMAIN L[i] : L[i][k] \in EntriesOf(R)
  BY OnePlace DEF Forest
<1>2. Lists(R2, L)
  BY <1>1 DEF Forest, Lists
<1>3. Paths(R, L, P)
  BY DEF Forest
<1>4. ASSUME NEW i \in InfosOf(R), NEW k \in DOMAIN L[i], R2[L[i][k]].child # Null
      PROVE  /\ R2[L[i][k]].child \in InfosOf(R2)
             /\ R2[R2[L[i][k]].child].parent = i
             /\ P[R2[L[i][k]].child] = Append(P[i], R2[L[i][k]].name)
  <2>1. R2[L[i][k]].child = R[L[i][k]].child /\ R2[L[i][k]].name = R[L[i][k]].name
    BY <1>1
  <2>2. /\ R[L[i][k]].child \in InfosOf(R) /\ R[R[L[i][k]].child].parent = i
        /\ P[R[L[i][k]].child] = Append(P[i], R[L[i][k]].name)
    BY <1>3, <1>4, <2>1 DEF Paths
  <2>. QED BY <2>1, <2>2
<1>5. \A c \in InfosOf(R) \ {Root} :
        \E i \in InfosOf(R) : \E k \in DOMAIN L[i] : R2[L[i][k]].child = c
  BY <1>1, <1>3 DEF Paths
<1>6. Root \in InfosOf(R2) /\ R2[Root].parent = Null
  BY <1>3 DEF Paths
<1>7. Paths(R2, L, P)
  BY <1>3, <1>4, <1>5, <1>6 DEF Paths
<1>. QED BY <1>2, <1>7

(* The payload of an entry is written to a record a, or removed, when a is  *)
(* null; the record of the payload before is dropped.                       *)
PayloadChange(R, R2, e, a) ==
  /\ R2 = [x \in DOMAIN R2 |-> R2[x]]
  /\ DOMAIN R2 = (DOMAIN R \ {R[e].data}) \cup ({a} \ {Null})
  /\ a \notin DOMAIN R \ {R[e].data}
  /\ a # Null => a \in Addr /\ R2[a] \in DataNode
  /\ R2[e] = [R[e] EXCEPT !.data = a]
  /\ \A x \in DOMAIN R \ {e, R[e].data} : R2[x] = R[x]

(* An entry gets another payload, or none, and the old one's record goes.   *)
LEMMA PayloadChanged ==
  ASSUME NEW R, NEW L, NEW P, Forest(R, L, P), NEW R2, NEW e \in EntriesOf(R), NEW a, PayloadChange(R, R2, e, a)
  PROVE  /\ InfosOf(R2) = InfosOf(R) /\ EntriesOf(R2) = EntriesOf(R)
         /\ \A i \in InfosOf(R) : R2[i] = R[i]
         /\ \A g \in EntriesOf(R) \ {e} : R2[g] = R[g] /\ PayloadAt(R2, g) = PayloadAt(R, g)
         /\ PayloadAt(R2, e) = IF a = Null THEN NoPayload ELSE R2[a].value
         /\ Forest(R2, L, P)
<1>. DEFINE old == R[e].data
<1>0. Nodes(R) /\ Datas(R)
  BY DEF Forest
<1>1. /\ \A x \in InfosOf(R) : R[x] \in InfoNode /\ x \in Addr /\ x # Null
      /\ \A x \in EntriesOf(R) : R[x] \in EntryNode /\ x \in Addr /\ x # Null
      /\ \A x \in DatasOf(R) : R[x] \in DataNode /\ x \in Addr /\ x # Null
      /\ DOMAIN R = InfosOf(R) \cup EntriesOf(R) \cup DatasOf(R)
      /\ InfosOf(R) \cap EntriesOf(R) = {} /\ InfosOf(R) \cap DatasOf(R) = {}
      /\ EntriesOf(R) \cap DatasOf(R) = {}
  BY <1>0, NodeKinds
<1>2. old # Null => old \in DatasOf(R)
  BY <1>0 DEF Datas
<1>3. Null \notin DOMAIN R
  BY <1>1
<1>4. /\ old \notin InfosOf(R) /\ old \notin EntriesOf(R)
      /\ a \notin InfosOf(R) /\ a \notin EntriesOf(R) /\ e # old
  BY <1>1, <1>2, <1>3 DEF PayloadChange
<1>5. R2[e] \in EntryNode /\ R2[e].data = a /\ R2[e].name = R[e].name /\ R2[e].child = R[e].child
                          /\ R2[e].next = R[e].next /\ R2[e].type = "entry"
  <2>1. R[e] \in EntryNode /\ a \in Link
    BY <1>1 DEF PayloadChange, Link
  <2>. QED BY <2>1 DEF PayloadChange, EntryNode
<1>6. /\ \A i \in InfosOf(R) : i \in DOMAIN R2 /\ R2[i] = R[i]
      /\ \A g \in EntriesOf(R) \ {e} : g \in DOMAIN R2 /\ R2[g] = R[g]
      /\ \A x \in DatasOf(R) \ {old} : x \in DOMAIN R2 /\ R2[x] = R[x] /\ x # e /\ x # a
      /\ e \in DOMAIN R2
  BY <1>1, <1>4 DEF PayloadChange
<1>7. DOMAIN R2 = InfosOf(R) \cup EntriesOf(R) \cup ((DatasOf(R) \ {old}) \cup ({a} \ {Null}))
  BY <1>1, <1>4 DEF PayloadChange
<1>8. /\ \A x \in InfosOf(R) : R2[x].type = "info"
      /\ \A x \in EntriesOf(R) : R2[x].type = "entry"
      /\ \A x \in (DatasOf(R) \ {old}) \cup ({a} \ {Null}) : R2[x].type = "data"
  <2>1. a # Null => R2[a].type = "data"
    BY DEF PayloadChange, DataNode
  <2>. QED BY <1>5, <1>6, <2>1 DEF InfosOf, EntriesOf, DatasOf
<1>9. /\ InfosOf(R2) = InfosOf(R) /\ EntriesOf(R2) = EntriesOf(R)
      /\ DatasOf(R2) = (DatasOf(R) \ {old}) \cup ({a} \ {Null})
  <2>1. "info" # "entry" /\ "info" # "data" /\ "entry" # "data"
    OBVIOUS
  <2>2. InfosOf(R2) \subseteq InfosOf(R)
    BY <1>7, <1>8, <2>1 DEF InfosOf
  <2>3. EntriesOf(R2) \subseteq EntriesOf(R)
    BY <1>7, <1>8, <2>1 DEF EntriesOf
  <2>4. DatasOf(R2) \subseteq (DatasOf(R) \ {old}) \cup ({a} \ {Null})
    BY <1>7, <1>8, <2>1 DEF DatasOf
  <2>5. InfosOf(R) \subseteq InfosOf(R2) /\ EntriesOf(R) \subseteq EntriesOf(R2)
    BY <1>7, <1>8 DEF InfosOf, EntriesOf
  <2>6. (DatasOf(R) \ {old}) \cup ({a} \ {Null}) \subseteq DatasOf(R2)
    BY <1>7, <1>8 DEF DatasOf
  <2>. QED BY <2>2, <2>3, <2>4, <2>5, <2>6
<1>10. Nodes(R2)
  <2>1. \A x \in DOMAIN R2 : R2[x] \in Node /\ x \in Addr
    <3>1. \A x \in InfosOf(R) : R2[x] \in InfoNode
      BY <1>1, <1>6
    <3>2. \A x \in EntriesOf(R) : R2[x] \in EntryNode
      BY <1>1, <1>5, <1>6
    <3>3. \A x \in DatasOf(R) \ {old} : R2[x] \in DataNode
      BY <1>1, <1>6
    <3>4. a # Null => R2[a] \in DataNode /\ a \in Addr
      BY DEF PayloadChange
    <3>5. InfoNode \subseteq Node /\ EntryNode \subseteq Node /\ DataNode \subseteq Node
      BY DEF Node, InfoNode, EntryNode, DataNode
    <3>. QED BY <1>1, <1>7, <3>1, <3>2, <3>3, <3>4, <3>5
  <2>2. IsFiniteSet(DOMAIN R2)
    <3>1. IsFiniteSet(DOMAIN R) /\ IsFiniteSet({a})
      BY <1>0, FS_Singleton DEF Nodes
    <3>2. DOMAIN R2 \subseteq DOMAIN R \cup {a}
      BY DEF PayloadChange
    <3>3. IsFiniteSet(DOMAIN R \cup {a})
      BY <3>1, FS_Union
    <3>. QED BY <3>2, <3>3, FS_Subset
  <2>3. R2 = [x \in DOMAIN R2 |-> R2[x]]
    BY DEF PayloadChange
  <2>4. R2 \in [DOMAIN R2 -> Node]
    BY <2>1, <2>3
  <2>5. DOMAIN R2 \subseteq Addr
    BY <2>1
  <2>. QED BY <2>2, <2>4, <2>5 DEF Nodes
<1>11. \A g \in EntriesOf(R) \ {e} : R2[g].data # Null => R2[g].data \in DatasOf(R) \ {old}
  BY <1>0, <1>6 DEF Datas
<1>12. Datas(R2)
  <2>1. \A g \in EntriesOf(R2) : R2[g].data # Null => R2[g].data \in DatasOf(R2)
    BY <1>5, <1>9, <1>11
  <2>2. ASSUME NEW g \in EntriesOf(R), NEW h \in EntriesOf(R), R2[g].data = R2[h].data, R2[g].data # Null
        PROVE  g = h
    <3>1. a \notin DatasOf(R) \ {old}
      BY <1>6
    <3>2. CASE g = e \/ h = e
      BY <1>5, <1>11, <2>2, <3>1, <3>2
    <3>3. CASE g # e /\ h # e
      <4>1. R[g].data = R[h].data /\ R[g].data # Null
        BY <1>6, <2>2, <3>3
      <4>. QED BY <1>0, <4>1 DEF Datas
    <3>. QED BY <3>2, <3>3
  <2>3. ASSUME NEW x \in DatasOf(R2) PROVE \E g \in EntriesOf(R2) : R2[g].data = x
    <3>1. CASE x = a
      BY <1>5, <1>9, <3>1
    <3>2. CASE x # a
      <4>1. x \in DatasOf(R) /\ x # old
        BY <1>9, <3>2
      <4>2. PICK g \in EntriesOf(R) : R[g].data = x
        BY <1>0, <4>1 DEF Datas
      <4>. QED BY <1>6, <1>9, <4>1, <4>2
    <3>. QED BY <3>1, <3>2
  <2>. QED BY <1>9, <2>1, <2>2, <2>3 DEF Datas
<1>13. \A g \in EntriesOf(R) \ {e} : PayloadAt(R2, g) = PayloadAt(R, g)
  BY <1>6, <1>11 DEF PayloadAt
<1>14. PayloadAt(R2, e) = IF a = Null THEN NoPayload ELSE R2[a].value
  BY <1>5 DEF PayloadAt
<1>15. Lists(R2, L) /\ Paths(R2, L, P)
  BY <1>5, <1>6, <1>9, ShapeKept
<1>. QED BY <1>6, <1>9, <1>10, <1>12, <1>13, <1>14, <1>15 DEF Forest

(* Records are nodes again when some are changed to nodes or removed.       *)
LEMMA NodesAre ==
  ASSUME NEW R, Nodes(R), NEW R2, R2 = [x \in DOMAIN R2 |-> R2[x]], NEW a, DOMAIN R2 \subseteq DOMAIN R \cup {a},
         \A x \in DOMAIN R2 : x \in Addr /\ (R2[x] \in InfoNode \/ R2[x] \in EntryNode \/ R2[x] \in DataNode)
  PROVE  Nodes(R2)
<1>1. InfoNode \subseteq Node /\ EntryNode \subseteq Node /\ DataNode \subseteq Node
  BY DEF Node, InfoNode, EntryNode, DataNode
<1>2. R2 \in [DOMAIN R2 -> Node]
  BY <1>1
<1>3. IsFiniteSet(DOMAIN R2)
  <2>1. IsFiniteSet(DOMAIN R) /\ IsFiniteSet({a})
    BY FS_Singleton DEF Nodes
  <2>2. IsFiniteSet(DOMAIN R \cup {a})
    BY <2>1, FS_Union
  <2>. QED BY <2>2, FS_Subset
<1>. QED BY <1>2, <1>3 DEF Nodes

(* An entry gets an array of children, at a, which is empty.                *)
ChildAdded(R, R2, i, e, a) ==
  /\ R2 = [x \in DOMAIN R2 |-> R2[x]]
  /\ DOMAIN R2 = DOMAIN R \cup {a} /\ a \in Addr \ DOMAIN R
  /\ R2[a] = ArrayInfo(i, Null)
  /\ R2[e] = [R[e] EXCEPT !.child = a]
  /\ \A x \in DOMAIN R \ {e} : R2[x] = R[x]

(* The entry loses it again, c.                                             *)
ChildDropped(R, R2, e) ==
  /\ R2 = [x \in DOMAIN R2 |-> R2[x]]
  /\ DOMAIN R2 = DOMAIN R \ {R[e].child}
  /\ R2[e] = [R[e] EXCEPT !.child = Null]
  /\ \A x \in DOMAIN R2 \ {e} : R2[x] = R[x]

With(f, S, a, x) == [j \in S \cup {a} |-> IF j = a THEN x ELSE f[j]]

ArrayAdded(R, R2, e, a, L2, P2) ==
  /\ InfosOf(R2) = InfosOf(R) \cup {a} /\ EntriesOf(R2) = EntriesOf(R) /\ a \notin InfosOf(R)
  /\ \A j \in InfosOf(R) : R2[j] = R[j]
  /\ \A g \in EntriesOf(R) \ {e} : R2[g] = R[g]
  /\ \A g \in EntriesOf(R) : PayloadAt(R2, g) = PayloadAt(R, g) /\ R2[g].name = R[g].name
  /\ Forest(R2, L2, P2)

(* An entry without children gets an empty array.                           *)
LEMMA ChildIsAdded ==
  ASSUME NEW R, NEW L, NEW P, Forest(R, L, P), NEW i \in InfosOf(R), NEW k \in DOMAIN L[i],
         R[L[i][k]].child = Null, Len(PathAt(R, L, P, i, k)) < MaxDepth,
         NEW R2, NEW a, ChildAdded(R, R2, i, L[i][k], a),
         NEW L2, L2 = With(L, InfosOf(R), a, <<>>),
         NEW P2, P2 = With(P, InfosOf(R), a, PathAt(R, L, P, i, k))
  PROVE  ArrayAdded(R, R2, L[i][k], a, L2, P2)
<1>. USE DEF ArrayAdded
<1>. USE DEF With
<1>. DEFINE e == L[i][k]
<1>0. Nodes(R) /\ Lists(R, L) /\ Paths(R, L, P) /\ Datas(R)
  BY DEF Forest
<1>1. /\ \A x \in InfosOf(R) : R[x] \in InfoNode /\ x \in Addr /\ x # Null
      /\ \A x \in EntriesOf(R) : R[x] \in EntryNode /\ x \in Addr /\ x # Null
      /\ \A x \in DatasOf(R) : R[x] \in DataNode /\ x \in Addr /\ x # Null
      /\ DOMAIN R = InfosOf(R) \cup EntriesOf(R) \cup DatasOf(R)
      /\ InfosOf(R) \cap EntriesOf(R) = {} /\ InfosOf(R) \cap DatasOf(R) = {}
      /\ EntriesOf(R) \cap DatasOf(R) = {}
  BY <1>0, NodeKinds
<1>2. e \in EntriesOf(R) /\ e \notin InfosOf(R) /\ e \notin DatasOf(R)
  BY <1>0, <1>1, OnePlace
<1>3. a \in Addr /\ a # Null /\ a \notin DOMAIN R
  BY HierAssumption DEF ChildAdded
<1>4. /\ \A j \in InfosOf(R) : R2[j] = R[j]
      /\ \A g \in EntriesOf(R) \ {e} : R2[g] = R[g]
      /\ \A x \in DatasOf(R) : R2[x] = R[x]
  <2>. HIDE DEF e
  <2>. QED BY <1>1, <1>2 DEF ChildAdded, e
<1>5. R2[a] \in InfoNode /\ R2[a].type = "info" /\ R2[a].parent = i /\ R2[a].array = Null
  BY <1>1 DEF ChildAdded, ArrayInfo, InfoNode, Link
<1>6. /\ R2[e] \in EntryNode /\ R2[e].child = a /\ R2[e].name = R[e].name /\ R2[e].data = R[e].data
      /\ R2[e].next = R[e].next /\ R2[e].type = "entry"
  <2>1. R[e] \in EntryNode /\ a \in Link
    BY <1>1, <1>2, <1>3 DEF Link
  <2>2. R2[e] = [R[e] EXCEPT !.child = a]
    BY DEF ChildAdded
  <2>. HIDE DEF e
  <2>. QED BY <2>1, <2>2 DEF EntryNode
<1>. HIDE DEF e
<1>7. DOMAIN R2 = (InfosOf(R) \cup {a}) \cup EntriesOf(R) \cup DatasOf(R)
  BY <1>1 DEF ChildAdded
<1>8. /\ \A x \in InfosOf(R) \cup {a} : R2[x].type = "info"
      /\ \A x \in EntriesOf(R) : R2[x].type = "entry"
      /\ \A x \in DatasOf(R) : R2[x].type = "data"
  BY <1>4, <1>5, <1>6 DEF InfosOf, EntriesOf, DatasOf
<1>9. InfosOf(R2) = InfosOf(R) \cup {a} /\ EntriesOf(R2) = EntriesOf(R) /\ DatasOf(R2) = DatasOf(R)
  <2>1. "info" # "entry" /\ "info" # "data" /\ "entry" # "data"
    OBVIOUS
  <2>2. InfosOf(R2) = InfosOf(R) \cup {a}
    <3>1. \A x : x \in InfosOf(R2) <=> x \in DOMAIN R2 /\ R2[x].type = "info"
      BY DEF InfosOf
    <3>. QED BY <1>7, <1>8, <2>1, <3>1
  <2>3. EntriesOf(R2) = EntriesOf(R)
    <3>1. \A x : x \in EntriesOf(R2) <=> x \in DOMAIN R2 /\ R2[x].type = "entry"
      BY DEF EntriesOf
    <3>. QED BY <1>7, <1>8, <2>1, <3>1
  <2>4. DatasOf(R2) = DatasOf(R)
    <3>1. \A x : x \in DatasOf(R2) <=> x \in DOMAIN R2 /\ R2[x].type = "data"
      BY DEF DatasOf
    <3>. QED BY <1>7, <1>8, <2>1, <3>1
  <2>. QED BY <2>2, <2>3, <2>4
<1>10. Nodes(R2)
  <2>1. \A x \in DOMAIN R2 : x \in Addr /\ (R2[x] \in InfoNode \/ R2[x] \in EntryNode \/ R2[x] \in DataNode)
    BY <1>1, <1>3, <1>4, <1>5, <1>6, <1>7
  <2>2. R2 = [x \in DOMAIN R2 |-> R2[x]] /\ DOMAIN R2 \subseteq DOMAIN R \cup {a}
    BY DEF ChildAdded
  <2>. QED BY <1>0, <2>1, <2>2, NodesAre
<1>11. \A g \in EntriesOf(R) : R2[g].name = R[g].name /\ R2[g].data = R[g].data /\ R2[g].next = R[g].next
  BY <1>4, <1>6
<1>12. \A j \in InfosOf(R) : j # a /\ L2[j] = L[j] /\ P2[j] = P[j]
  BY <1>1, <1>3
<1>13. L2[a] = <<>> /\ P2[a] = PathAt(R, L, P, i, k)
  OBVIOUS
<1>14. \A j \in InfosOf(R) : \A m \in DOMAIN L[j] : L[j][m] \in EntriesOf(R)
  BY <1>0, OnePlace
<1>15. Lists(R2, L2)
  <2>1. L2 \in [InfosOf(R2) -> Seq(EntriesOf(R2))]
    BY <1>0, <1>9 DEF Lists
  <2>2. DOMAIN L2[a] = {}
    BY <1>13
  <2>3. \A j \in InfosOf(R2) : R2[j].array = At(L2[j], 1)
    <3>1. \A j \in InfosOf(R) : R[j].array = At(L[j], 1)
      BY <1>0 DEF Lists
    <3>2. At(L2[a], 1) = Null
      BY <2>2 DEF At
    <3>. QED BY <1>4, <1>5, <1>9, <1>12, <3>1, <3>2
  <2>4. \A j \in InfosOf(R2) : \A m \in DOMAIN L2[j] : j \in InfosOf(R) /\ m \in DOMAIN L[j] /\ L2[j] = L[j]
    BY <1>9, <1>12, <2>2
  <2>a. /\ \A j \in InfosOf(R) : \A m \in DOMAIN L[j] : R[L[j][m]].next = At(L[j], m + 1)
        /\ \A j \in InfosOf(R) : \A m, n \in DOMAIN L[j] : m < n => R[L[j][m]].name < R[L[j][n]].name
        /\ \A j, n \in InfosOf(R) : \A m \in DOMAIN L[j], q \in DOMAIN L[n] : L[j][m] = L[n][q] => j = n
    BY <1>0 DEF Lists
  <2>b. \A j \in InfosOf(R) : \A m \in DOMAIN L[j] : R2[L[j][m]].next = R[L[j][m]].next /\ R2[L[j][m]].name = R[L[j][m]].name
    BY <1>11, <1>14
  <2>5. ASSUME NEW j \in InfosOf(R2), NEW m \in DOMAIN L2[j] PROVE R2[L2[j][m]].next = At(L2[j], m + 1)
    <3>1. j \in InfosOf(R) /\ L2[j] = L[j]
      BY <2>4
    <3>. QED BY <2>a, <2>b, <3>1
  <2>6. ASSUME NEW j \in InfosOf(R2), NEW m \in DOMAIN L2[j], NEW n \in DOMAIN L2[j], m < n
        PROVE  R2[L2[j][m]].name < R2[L2[j][n]].name
    <3>1. j \in InfosOf(R) /\ L2[j] = L[j]
      BY <2>4
    <3>. QED BY <2>6, <2>a, <2>b, <3>1
  <2>7. ASSUME NEW g \in EntriesOf(R2) PROVE \E j \in InfosOf(R2) : \E m \in DOMAIN L2[j] : L2[j][m] = g
    <3>1. PICK j \in InfosOf(R) : \E m \in DOMAIN L[j] : L[j][m] = g
      BY <1>0, <1>9 DEF Lists
    <3>. QED BY <1>9, <1>12, <3>1
  <2>8. ASSUME NEW j \in InfosOf(R2), NEW n \in InfosOf(R2), NEW m \in DOMAIN L2[j], NEW q \in DOMAIN L2[n],
               L2[j][m] = L2[n][q]
        PROVE  j = n
    <3>1. j \in InfosOf(R) /\ L2[j] = L[j] /\ n \in InfosOf(R) /\ L2[n] = L[n]
      BY Zenon, <2>4
    <3>. QED BY <2>8, <2>a, <3>1
  <2>. QED BY <2>1, <2>3, <2>5, <2>6, <2>7, <2>8 DEF Lists
<1>16. Paths(R2, L2, P2)
  <2>0. /\ P2[a] \in Seq(Name) /\ Len(P2[a]) < MaxDepth /\ P2[a] = Append(P[i], R[e].name)
        /\ P2[a] # <<>>
    BY <1>13, PathFacts DEF PathAt, e
  <2>1. Root \in InfosOf(R2) /\ R2[Root].parent = Null /\ P2[Root] = <<>> /\ Root # a
    BY <1>0, <1>4, <1>9, <1>12 DEF Paths
  <2>2. P2 \in [InfosOf(R2) -> Seq(Name)]
    <3>1. \A j \in InfosOf(R2) : P2[j] \in Seq(Name)
      BY <1>0, <1>9, <1>12, <2>0 DEF Paths
    <3>2. P2 = [j \in InfosOf(R2) |-> P2[j]]
      BY <1>9
    <3>. QED BY <3>1, <3>2
  <2>3. \A j \in InfosOf(R2) : Len(P2[j]) < MaxDepth
    BY Zenon, <1>0, <1>9, <1>12, <2>0 DEF Paths
  <2>4. ASSUME NEW j \in InfosOf(R2), NEW m \in DOMAIN L2[j], R2[L2[j][m]].child # Null
        PROVE  /\ R2[L2[j][m]].child \in InfosOf(R2)
               /\ R2[R2[L2[j][m]].child].parent = j
               /\ P2[R2[L2[j][m]].child] = Append(P2[j], R2[L2[j][m]].name)
    <3>1. j \in InfosOf(R) /\ m \in DOMAIN L[j] /\ L2[j][m] = L[j][m] /\ P2[j] = P[j]
      BY <1>9, <1>12, <1>13
    <3>2. CASE L[j][m] = e
      <4>1. j = i
        BY Zenon, <1>0, <3>1, <3>2 DEF Lists, e
      <4>. QED BY <1>5, <1>6, <1>9, <2>0, <3>1, <3>2, <4>1
    <3>3. CASE L[j][m] # e
      <4>1. R2[L[j][m]] = R[L[j][m]]
        BY <1>4, <1>14, <3>1, <3>3
      <4>2. /\ R[L[j][m]].child \in InfosOf(R) /\ R[R[L[j][m]].child].parent = j
            /\ P[R[L[j][m]].child] = Append(P[j], R[L[j][m]].name)
        BY <1>0, <2>4, <3>1, <4>1 DEF Paths
      <4>. QED BY ZenonT(30), <1>4, <1>9, <1>12, <3>1, <4>1, <4>2
    <3>. QED BY Zenon, <3>2, <3>3
  <2>5. ASSUME NEW c \in InfosOf(R2) \ {Root}
        PROVE  \E j \in InfosOf(R2) : \E m \in DOMAIN L2[j] : R2[L2[j][m]].child = c
    <3>1. CASE c = a
      BY <1>6, <1>9, <1>12, <3>1 DEF e
    <3>2. CASE c # a
      <4>1. PICK j \in InfosOf(R) : \E m \in DOMAIN L[j] : R[L[j][m]].child = c
        BY <1>0, <1>9, <3>2 DEF Paths
      <4>2. PICK m \in DOMAIN L[j] : R[L[j][m]].child = c
        BY <4>1
      <4>3. c # Null
        BY <1>1, <1>9, <3>2
      <4>4. L[j][m] # e
        BY <4>2, <4>3 DEF e
      <4>5. R2[L[j][m]].child = c
        BY <1>4, <1>14, <4>2, <4>4
      <4>. QED BY <1>9, <1>12, <4>5
    <3>. QED BY <3>1, <3>2
  <2>6. ASSUME NEW j \in InfosOf(R) PROVE P2[j] # P2[a]
    <3>1. SUFFICES ASSUME P[j] = P2[a] PROVE FALSE
      BY <1>12
    <3>2. j # Root
      BY <1>0, <2>0, <3>1 DEF Paths
    <3>3. PICK n \in InfosOf(R) : \E m \in DOMAIN L[n] : R[L[n][m]].child = j
      BY <1>0, <3>2 DEF Paths
    <3>4. PICK m \in DOMAIN L[n] : R[L[n][m]].child = j
      BY <3>3
    <3>5. j # Null
      BY <1>1
    <3>6. PathAt(R, L, P, n, m) = PathAt(R, L, P, i, k)
      <4>1. P[R[L[n][m]].child] = PathAt(R, L, P, n, m)
        <5>1. \A x \in InfosOf(R) : \A y \in DOMAIN L[x] : R[L[x][y]].child # Null =>
                P[R[L[x][y]].child] = Append(P[x], R[L[x][y]].name)
          BY <1>0 DEF Paths
        <5>. QED BY <3>4, <3>5, <5>1 DEF PathAt
      <4>. QED BY <1>13, <3>1, <3>4, <4>1
    <3>7. n = i /\ m = k
      BY <3>6, PathsDiffer
    <3>. QED BY <3>4, <3>5, <3>7
  <2>7. \A j, n \in InfosOf(R2) : P2[j] = P2[n] => j = n
    BY <1>0, <1>9, <1>12, <2>6 DEF Paths
  <2>. QED BY Zenon, <2>1, <2>2, <2>3, <2>4, <2>5, <2>7 DEF Paths
<1>17. Datas(R2)
  BY <1>0, <1>9, <1>11 DEF Datas
<1>18. \A g \in EntriesOf(R) : PayloadAt(R2, g) = PayloadAt(R, g)
  BY <1>0, <1>4, <1>11 DEF PayloadAt, Datas
<1>19. a \notin InfosOf(R)
  BY <1>1, <1>3
<1>20. Forest(R2, L2, P2)
  BY <1>10, <1>15, <1>16, <1>17 DEF Forest
<1>. QED BY <1>4, <1>9, <1>11, <1>18, <1>19, <1>20 DEF e

(* No two entries have the same array of children.                          *)
LEMMA OneParent ==
  ASSUME NEW R, NEW L, NEW P, Forest(R, L, P),
         NEW i \in InfosOf(R), NEW j \in InfosOf(R), NEW k \in DOMAIN L[i], NEW m \in DOMAIN L[j],
         R[L[i][k]].child = R[L[j][m]].child, R[L[i][k]].child # Null
  PROVE  i = j /\ k = m
<1>1. \A x \in InfosOf(R) : \A y \in DOMAIN L[x] : R[L[x][y]].child # Null =>
        P[R[L[x][y]].child] = PathAt(R, L, P, x, y)
  BY DEF Forest, Paths, PathAt
<1>2. PathAt(R, L, P, i, k) = PathAt(R, L, P, j, m)
  BY <1>1
<1>. QED BY <1>2, PathsDiffer

ArrayDropped(R, R2, L, e, c, L2, P2) ==
  /\ InfosOf(R2) = InfosOf(R) \ {c} /\ EntriesOf(R2) = EntriesOf(R)
  /\ c \in InfosOf(R) /\ L[c] = <<>>
  /\ \A j \in InfosOf(R) \ {c} : R2[j] = R[j]
  /\ \A g \in EntriesOf(R) \ {e} : R2[g] = R[g]
  /\ \A g \in EntriesOf(R) : PayloadAt(R2, g) = PayloadAt(R, g) /\ R2[g].name = R[g].name
  /\ Forest(R2, L2, P2)

(* An entry with an empty array loses it.                                   *)
LEMMA ChildIsDropped ==
  ASSUME NEW R, NEW L, NEW P, Forest(R, L, P), NEW i \in InfosOf(R), NEW k \in DOMAIN L[i],
         NEW c, c = R[L[i][k]].child, c # Null, R[c].array = Null,
         NEW R2, ChildDropped(R, R2, L[i][k]),
         NEW L2, L2 = [j \in InfosOf(R) \ {c} |-> L[j]], NEW P2, P2 = [j \in InfosOf(R) \ {c} |-> P[j]]
  PROVE  /\ P[c] = PathAt(R, L, P, i, k)
         /\ ArrayDropped(R, R2, L, L[i][k], c, L2, P2)
<1>. USE DEF ArrayDropped
<1>. DEFINE e == L[i][k]
<1>0. Nodes(R) /\ Lists(R, L) /\ Paths(R, L, P) /\ Datas(R)
  BY DEF Forest
<1>1. /\ \A x \in InfosOf(R) : R[x] \in InfoNode /\ x \in Addr /\ x # Null
      /\ \A x \in EntriesOf(R) : R[x] \in EntryNode /\ x \in Addr /\ x # Null
      /\ \A x \in DatasOf(R) : R[x] \in DataNode /\ x \in Addr /\ x # Null
      /\ DOMAIN R = InfosOf(R) \cup EntriesOf(R) \cup DatasOf(R)
      /\ InfosOf(R) \cap EntriesOf(R) = {} /\ InfosOf(R) \cap DatasOf(R) = {}
      /\ EntriesOf(R) \cap DatasOf(R) = {}
  BY <1>0, NodeKinds
<1>2. e \in EntriesOf(R) /\ e \notin InfosOf(R) /\ e \notin DatasOf(R)
  BY Zenon, <1>0, <1>1, OnePlace
<1>3. c \in InfosOf(R) /\ P[c] = PathAt(R, L, P, i, k) /\ c # Root
  <2>1. c \in InfosOf(R) /\ P[c] = Append(P[i], R[e].name)
    BY <1>0 DEF Paths
  <2>2. PathAt(R, L, P, i, k) # <<>>
    BY PathFacts
  <2>. QED BY Zenon, <1>0, <2>1, <2>2 DEF PathAt, Paths
<1>4. L[c] = <<>>
  <2>1. L[c] \in Seq(EntriesOf(R)) /\ R[c].array = At(L[c], 1)
    BY Zenon, <1>0, <1>3 DEF Lists
  <2>2. CASE L[c] # <<>>
    <3>1. 1 \in DOMAIN L[c] /\ L[c][1] \in EntriesOf(R)
      BY <2>1, <2>2
    <3>. QED BY Zenon, <1>1, <2>1, <3>1 DEF At
  <2>. QED BY <2>2
<1>a. c \notin EntriesOf(R) /\ c \notin DatasOf(R) /\ e # c
  BY <1>1, <1>2, <1>3
<1>. HIDE DEF e
<1>b. /\ DOMAIN R2 = DOMAIN R \ {c} /\ R2[e] = [R[e] EXCEPT !.child = Null]
      /\ \A x \in DOMAIN R2 \ {e} : R2[x] = R[x]
  BY DEF ChildDropped, e
<1>5. /\ \A j \in InfosOf(R) \ {c} : R2[j] = R[j]
      /\ \A g \in EntriesOf(R) \ {e} : R2[g] = R[g]
      /\ \A x \in DatasOf(R) : R2[x] = R[x]
  BY <1>1, <1>2, <1>a, <1>b
<1>6. /\ R2[e] \in EntryNode /\ R2[e].child = Null /\ R2[e].name = R[e].name /\ R2[e].data = R[e].data
      /\ R2[e].next = R[e].next /\ R2[e].type = "entry"
  <2>1. R[e] \in EntryNode /\ Null \in Link
    BY <1>1, <1>2 DEF Link
  <2>. QED BY <1>b, <2>1 DEF EntryNode
<1>7. DOMAIN R2 = (InfosOf(R) \ {c}) \cup EntriesOf(R) \cup DatasOf(R)
  BY <1>1, <1>a, <1>b
<1>8. /\ \A x \in InfosOf(R) \ {c} : R2[x].type = "info"
      /\ \A x \in EntriesOf(R) : R2[x].type = "entry"
      /\ \A x \in DatasOf(R) : R2[x].type = "data"
  BY <1>5, <1>6 DEF InfosOf, EntriesOf, DatasOf
<1>9. InfosOf(R2) = InfosOf(R) \ {c} /\ EntriesOf(R2) = EntriesOf(R) /\ DatasOf(R2) = DatasOf(R)
  <2>1. "info" # "entry" /\ "info" # "data" /\ "entry" # "data"
    OBVIOUS
  <2>2. InfosOf(R2) = InfosOf(R) \ {c}
    <3>1. \A x : x \in InfosOf(R2) <=> x \in DOMAIN R2 /\ R2[x].type = "info"
      BY DEF InfosOf
    <3>. QED BY <1>7, <1>8, <2>1, <3>1
  <2>3. EntriesOf(R2) = EntriesOf(R)
    <3>1. \A x : x \in EntriesOf(R2) <=> x \in DOMAIN R2 /\ R2[x].type = "entry"
      BY DEF EntriesOf
    <3>. QED BY <1>7, <1>8, <2>1, <3>1
  <2>4. DatasOf(R2) = DatasOf(R)
    <3>1. \A x : x \in DatasOf(R2) <=> x \in DOMAIN R2 /\ R2[x].type = "data"
      BY DEF DatasOf
    <3>. QED BY <1>7, <1>8, <2>1, <3>1
  <2>. QED BY <2>2, <2>3, <2>4
<1>10. Nodes(R2)
  <2>1. \A x \in DOMAIN R2 : x \in Addr /\ (R2[x] \in InfoNode \/ R2[x] \in EntryNode \/ R2[x] \in DataNode)
    BY <1>1, <1>5, <1>6, <1>7
  <2>2. R2 = [x \in DOMAIN R2 |-> R2[x]] /\ DOMAIN R2 \subseteq DOMAIN R \cup {c}
    BY <1>b DEF ChildDropped
  <2>. QED BY <1>0, <2>1, <2>2, NodesAre
<1>11. \A g \in EntriesOf(R) : R2[g].name = R[g].name /\ R2[g].data = R[g].data /\ R2[g].next = R[g].next
  BY <1>5, <1>6
<1>12. \A j \in InfosOf(R) \ {c} : L2[j] = L[j] /\ P2[j] = P[j]
  OBVIOUS
<1>14. \A j \in InfosOf(R) : \A m \in DOMAIN L[j] : L[j][m] \in EntriesOf(R)
  BY Zenon, <1>0, OnePlace
<1>15. Lists(R2, L2)
  <2>1. L2 \in [InfosOf(R2) -> Seq(EntriesOf(R2))]
    BY <1>0, <1>9 DEF Lists
  <2>3. \A j \in InfosOf(R2) : R2[j].array = At(L2[j], 1)
    BY ZenonT(30), <1>0, <1>5, <1>9, <1>12 DEF Lists
  <2>4. \A j \in InfosOf(R2) : j \in InfosOf(R) /\ L2[j] = L[j]
    BY <1>9, <1>12
  <2>a. /\ \A j \in InfosOf(R) : \A m \in DOMAIN L[j] : R[L[j][m]].next = At(L[j], m + 1)
        /\ \A j \in InfosOf(R) : \A m, n \in DOMAIN L[j] : m < n => R[L[j][m]].name < R[L[j][n]].name
        /\ \A j, n \in InfosOf(R) : \A m \in DOMAIN L[j], q \in DOMAIN L[n] : L[j][m] = L[n][q] => j = n
    BY <1>0 DEF Lists
  <2>b. \A j \in InfosOf(R) : \A m \in DOMAIN L[j] : R2[L[j][m]].next = R[L[j][m]].next /\ R2[L[j][m]].name = R[L[j][m]].name
    BY <1>11, <1>14
  <2>5. ASSUME NEW j \in InfosOf(R2), NEW m \in DOMAIN L2[j] PROVE R2[L2[j][m]].next = At(L2[j], m + 1)
    <3>1. j \in InfosOf(R) /\ L2[j] = L[j]
      BY <2>4
    <3>. QED BY <2>a, <2>b, <3>1
  <2>6. ASSUME NEW j \in InfosOf(R2), NEW m \in DOMAIN L2[j], NEW n \in DOMAIN L2[j], m < n
        PROVE  R2[L2[j][m]].name < R2[L2[j][n]].name
    <3>1. j \in InfosOf(R) /\ L2[j] = L[j]
      BY <2>4
    <3>. QED BY <2>6, <2>a, <2>b, <3>1
  <2>7. ASSUME NEW g \in EntriesOf(R2) PROVE \E j \in InfosOf(R2) : \E m \in DOMAIN L2[j] : L2[j][m] = g
    <3>1. PICK j \in InfosOf(R) : \E m \in DOMAIN L[j] : L[j][m] = g
      BY <1>0, <1>9 DEF Lists
    <3>2. j # c
      BY <1>4, <3>1
    <3>. QED BY <1>9, <1>12, <3>1, <3>2
  <2>8. ASSUME NEW j \in InfosOf(R2), NEW n \in InfosOf(R2), NEW m \in DOMAIN L2[j], NEW q \in DOMAIN L2[n],
               L2[j][m] = L2[n][q]
        PROVE  j = n
    <3>1. j \in InfosOf(R) /\ L2[j] = L[j] /\ n \in InfosOf(R) /\ L2[n] = L[n]
      BY Zenon, <2>4
    <3>. QED BY <2>8, <2>a, <3>1
  <2>. QED BY Zenon, <2>1, <2>3, <2>5, <2>6, <2>7, <2>8 DEF Lists
<1>16. Paths(R2, L2, P2)
  <2>1. Root \in InfosOf(R2) /\ R2[Root].parent = Null /\ P2[Root] = <<>>
    BY <1>0, <1>3, <1>5, <1>9, <1>12 DEF Paths
  <2>2. P2 \in [InfosOf(R2) -> Seq(Name)]
    BY <1>0, <1>9 DEF Paths
  <2>3. \A j \in InfosOf(R2) : Len(P2[j]) < MaxDepth
    BY Zenon, <1>0, <1>9, <1>12 DEF Paths
  <2>4. ASSUME NEW j \in InfosOf(R2), NEW m \in DOMAIN L2[j], R2[L2[j][m]].child # Null
        PROVE  /\ R2[L2[j][m]].child \in InfosOf(R2)
               /\ R2[R2[L2[j][m]].child].parent = j
               /\ P2[R2[L2[j][m]].child] = Append(P2[j], R2[L2[j][m]].name)
    <3>1. j \in InfosOf(R) /\ m \in DOMAIN L[j] /\ L2[j][m] = L[j][m] /\ P2[j] = P[j]
      BY <1>9, <1>12
    <3>2. L[j][m] # e
      BY <1>6, <2>4, <3>1
    <3>3. R2[L[j][m]] = R[L[j][m]]
      BY Zenon, <1>5, <1>14, <3>1, <3>2
    <3>4. /\ R[L[j][m]].child \in InfosOf(R) /\ R[R[L[j][m]].child].parent = j
          /\ P[R[L[j][m]].child] = Append(P[j], R[L[j][m]].name)
      <4>1. R[L[j][m]].child # Null
        BY Zenon, <2>4, <3>1, <3>3
      <4>2. \A x \in InfosOf(R) : \A y \in DOMAIN L[x] : R[L[x][y]].child # Null =>
              /\ R[L[x][y]].child \in InfosOf(R) /\ R[R[L[x][y]].child].parent = x
              /\ P[R[L[x][y]].child] = Append(P[x], R[L[x][y]].name)
        BY <1>0 DEF Paths
      <4>. QED BY <3>1, <4>1, <4>2
    <3>5. R[L[j][m]].child # c
      <4>1. CASE R[L[j][m]].child = c
        <5>1. R[L[i][k]].child = R[L[j][m]].child
          BY <4>1
        <5>2. i = j /\ k = m
          BY <3>1, <5>1, OneParent
        <5>. QED BY <3>2, <5>2 DEF e
      <4>. QED BY <4>1
    <3>6. PICK d : d = R[L[j][m]].child
      BY Zenon
    <3>7. d \in InfosOf(R) \ {c} /\ R[d].parent = j /\ P[d] = Append(P[j], R[L[j][m]].name)
      BY <3>4, <3>5, <3>6
    <3>8. d \in InfosOf(R2) /\ R2[d].parent = j /\ P2[d] = Append(P[j], R[L[j][m]].name)
      BY <1>5, <1>9, <1>12, <3>7
    <3>9. R2[L2[j][m]].child = d /\ R2[L2[j][m]].name = R[L[j][m]].name /\ P2[j] = P[j]
      BY Zenon, <3>1, <3>3, <3>6
    <3>. QED BY Zenon, <3>8, <3>9
  <2>5. ASSUME NEW d \in InfosOf(R2) \ {Root}
        PROVE  \E j \in InfosOf(R2) : \E m \in DOMAIN L2[j] : R2[L2[j][m]].child = d
    <3>1. PICK j \in InfosOf(R) : \E m \in DOMAIN L[j] : R[L[j][m]].child = d
      BY <1>0, <1>9 DEF Paths
    <3>2. PICK m \in DOMAIN L[j] : R[L[j][m]].child = d
      BY <3>1
    <3>3. d # c /\ j # c
      BY <1>4, <1>9, <3>2
    <3>4. L[j][m] # e
      BY <3>2, <3>3 DEF e
    <3>5. R2[L[j][m]].child = d
      BY Zenon, <1>5, <1>14, <3>2, <3>4
    <3>. QED BY Zenon, <1>9, <1>12, <3>3, <3>5
  <2>7. \A j, n \in InfosOf(R2) : P2[j] = P2[n] => j = n
    BY <1>0, <1>9, <1>12 DEF Paths
  <2>. QED BY Zenon, <2>1, <2>2, <2>3, <2>4, <2>5, <2>7 DEF Paths
<1>17. Datas(R2)
  BY <1>0, <1>9, <1>11 DEF Datas
<1>18. \A g \in EntriesOf(R) : PayloadAt(R2, g) = PayloadAt(R, g)
  BY <1>0, <1>5, <1>11 DEF PayloadAt, Datas
<1>20. Forest(R2, L2, P2)
  BY <1>10, <1>15, <1>16, <1>17 DEF Forest
<1>. QED BY <1>3, <1>4, <1>5, <1>9, <1>11, <1>18, <1>20 DEF e

(* The places of two sequences in their concatenation.                      *)
LEMMA ConcatFacts ==
  ASSUME NEW S, NEW u \in Seq(S), NEW v \in Seq(S)
  PROVE  /\ u \o v \in Seq(S) /\ Len(u \o v) = Len(u) + Len(v)
         /\ \A m \in 1..(Len(u) + Len(v)) : (u \o v)[m] = IF m <= Len(u) THEN u[m] ELSE v[m - Len(u)]
OBVIOUS

(* t is s with x put in as the k-th, or with the k-th taken out.            *)
Inserted(S, s, k, x, t) ==
  /\ t \in Seq(S) /\ Len(t) = Len(s) + 1 /\ DOMAIN t = 1..(Len(s) + 1)
  /\ \A m \in 1..(k - 1) : t[m] = s[m]
  /\ t[k] = x
  /\ \A m \in k..Len(s) : t[m + 1] = s[m]
Removed(S, s, k, t) ==
  /\ t \in Seq(S) /\ Len(t) = Len(s) - 1 /\ DOMAIN t = 1..(Len(s) - 1)
  /\ \A m \in 1..(k - 1) : t[m] = s[m]
  /\ \A m \in k..(Len(s) - 1) : t[m] = s[m + 1]

(* The places of a sequence's elements after one was inserted.              *)
LEMMA InsertFacts ==
  ASSUME NEW S, NEW s \in Seq(S), NEW k \in 1..(Len(s) + 1), NEW x \in S
  PROVE  Inserted(S, s, k, x, InsertAt(s, k, x))
<1>0. Len(s) \in Nat /\ k \in Nat /\ 1 <= k /\ k <= Len(s) + 1
  OBVIOUS
<1>1. /\ SubSeq(s, 1, k - 1) \in Seq(S) /\ Len(SubSeq(s, 1, k - 1)) = k - 1
      /\ \A m \in 1..(k - 1) : SubSeq(s, 1, k - 1)[m] = s[m]
  <2>1. CASE k = 1
    BY <1>0, <2>1
  <2>2. CASE k > 1
    <3>1. k - 1 \in Nat /\ 1 <= k - 1 /\ k - 1 <= Len(s)
      BY <1>0, <2>2
    <3>. QED BY <1>0, <3>1
  <2>. QED BY <1>0, <2>1, <2>2
<1>2. /\ SubSeq(s, k, Len(s)) \in Seq(S) /\ Len(SubSeq(s, k, Len(s))) = Len(s) - k + 1
      /\ \A m \in 1..(Len(s) - k + 1) : SubSeq(s, k, Len(s))[m] = s[k + m - 1]
  <2>1. CASE k = Len(s) + 1
    BY <1>0, <2>1
  <2>2. CASE k <= Len(s)
    BY <1>0, <2>2
  <2>. QED BY <1>0, <2>1, <2>2
<1>3. PICK u : u = SubSeq(s, 1, k - 1)
  OBVIOUS
<1>4. PICK v : v = SubSeq(s, k, Len(s))
  OBVIOUS
<1>5. InsertAt(s, k, x) = u \o <<x>> \o v
  BY <1>3, <1>4 DEF InsertAt
<1>6. /\ u \o <<x>> \in Seq(S) /\ Len(u \o <<x>>) = k
      /\ \A m \in 1..k : (u \o <<x>>)[m] = IF m < k THEN s[m] ELSE x
  BY <1>0, <1>1, <1>3
<1>7. PICK w : w = u \o <<x>>
  OBVIOUS
<1>8. /\ w \o v \in Seq(S) /\ Len(w \o v) = Len(s) + 1
      /\ \A m \in 1..(Len(s) + 1) : (w \o v)[m] = IF m <= k THEN w[m] ELSE v[m - k]
  <2>1. Len(w) = k /\ w \in Seq(S) /\ v \in Seq(S) /\ Len(v) = Len(s) - k + 1
    BY <1>2, <1>4, <1>6, <1>7
  <2>2. Len(w) + Len(v) = Len(s) + 1
    BY <1>0, <2>1
  <2>. QED BY ZenonT(30), <2>1, <2>2, ConcatFacts
<1>9. ASSUME NEW m \in 1..(Len(s) + 1)
      PROVE  (w \o v)[m] = IF m < k THEN s[m] ELSE IF m = k THEN x ELSE s[m - 1]
  <2>1. CASE m <= k
    <3>1. m \in 1..k /\ (m < k \/ m = k)
      BY <1>0, <2>1
    <3>. QED BY <1>0, <1>6, <1>7, <1>8, <2>1, <3>1
  <2>2. CASE m > k
    <3>1. m - k \in 1..(Len(s) - k + 1) /\ k + (m - k) - 1 = m - 1
      BY <1>0, <2>2
    <3>2. (w \o v)[m] = v[m - k]
      BY <1>0, <1>8, <2>2
    <3>3. v[m - k] = s[k + (m - k) - 1]
      BY <1>2, <1>4, <3>1
    <3>4. ~ (m < k) /\ m # k
      BY <1>0, <2>2
    <3>. QED BY <3>1, <3>2, <3>3, <3>4
  <2>3. m <= k \/ m > k
    BY <1>0
  <2>. QED BY <2>1, <2>2, <2>3
<1>10. InsertAt(s, k, x) = w \o v
  BY <1>5, <1>7
<1>11. DOMAIN (w \o v) = 1..(Len(s) + 1)
  BY <1>0, <1>8
<1>12. /\ \A m \in 1..(k - 1) : m \in 1..(Len(s) + 1) /\ m < k
       /\ k \in 1..(Len(s) + 1) /\ ~ (k < k)
       /\ \A m \in k..Len(s) : /\ m + 1 \in 1..(Len(s) + 1) /\ ~ (m + 1 < k) /\ m + 1 # k
                              /\ (m + 1) - 1 = m
  BY <1>0
<1>. QED BY <1>8, <1>9, <1>10, <1>11, <1>12 DEF Inserted

(* The places of a sequence's elements after one was removed.               *)
LEMMA RemoveFacts ==
  ASSUME NEW S, NEW s \in Seq(S), NEW k \in DOMAIN s
  PROVE  Removed(S, s, k, RemoveAt(s, k))
<1>0. Len(s) \in Nat /\ k \in Nat /\ 1 <= k /\ k <= Len(s)
  OBVIOUS
<1>1. /\ SubSeq(s, 1, k - 1) \in Seq(S) /\ Len(SubSeq(s, 1, k - 1)) = k - 1
      /\ \A m \in 1..(k - 1) : SubSeq(s, 1, k - 1)[m] = s[m]
  <2>1. CASE k = 1
    BY <1>0, <2>1
  <2>2. CASE k > 1
    <3>1. k - 1 \in Nat /\ 1 <= k - 1 /\ k - 1 <= Len(s)
      BY <1>0, <2>2
    <3>. QED BY <1>0, <3>1
  <2>. QED BY <1>0, <2>1, <2>2
<1>2. /\ SubSeq(s, k + 1, Len(s)) \in Seq(S) /\ Len(SubSeq(s, k + 1, Len(s))) = Len(s) - k
      /\ \A m \in 1..(Len(s) - k) : SubSeq(s, k + 1, Len(s))[m] = s[k + m]
  <2>1. CASE k = Len(s)
    BY <1>0, <2>1
  <2>2. CASE k < Len(s)
    <3>1. k + 1 \in Nat /\ 1 <= k + 1 /\ k + 1 <= Len(s)
      BY <1>0, <2>2
    <3>. QED BY <1>0, <3>1
  <2>. QED BY <1>0, <2>1, <2>2
<1>3. PICK u : u = SubSeq(s, 1, k - 1)
  OBVIOUS
<1>4. PICK v : v = SubSeq(s, k + 1, Len(s))
  OBVIOUS
<1>5. RemoveAt(s, k) = u \o v
  BY <1>3, <1>4 DEF RemoveAt
<1>8. /\ u \o v \in Seq(S) /\ Len(u \o v) = Len(s) - 1
      /\ \A m \in 1..(Len(s) - 1) : (u \o v)[m] = IF m <= k - 1 THEN u[m] ELSE v[m - (k - 1)]
  <2>1. Len(u) = k - 1 /\ u \in Seq(S) /\ v \in Seq(S) /\ Len(v) = Len(s) - k
    BY <1>1, <1>2, <1>3, <1>4
  <2>2. Len(u) + Len(v) = Len(s) - 1
    BY <1>0, <2>1
  <2>3. u \o v \in Seq(S) /\ Len(u \o v) = Len(u) + Len(v)
    BY <2>1, ConcatFacts
  <2>4. \A m \in 1..(Len(u) + Len(v)) : (u \o v)[m] = IF m <= Len(u) THEN u[m] ELSE v[m - Len(u)]
    BY <2>1, ConcatFacts
  <2>. QED BY <2>1, <2>2, <2>3, <2>4
<1>9. ASSUME NEW m \in 1..(Len(s) - 1)
      PROVE  (u \o v)[m] = IF m < k THEN s[m] ELSE s[m + 1]
  <2>1. CASE m < k
    <3>1. m <= k - 1 /\ m \in 1..(k - 1)
      BY <1>0, <2>1
    <3>. QED BY <1>1, <1>3, <1>8, <2>1, <3>1
  <2>2. CASE m >= k
    <3>1. m - (k - 1) \in 1..(Len(s) - k) /\ k + (m - (k - 1)) = m + 1
      BY <1>0, <2>2
    <3>2. (u \o v)[m] = v[m - (k - 1)]
      <4>1. ~ (m <= k - 1)
        BY <1>0, <2>2
      <4>. QED BY <1>8, <4>1
    <3>3. v[m - (k - 1)] = s[k + (m - (k - 1))]
      BY <1>2, <1>4, <3>1
    <3>4. ~ (m < k)
      BY <1>0, <2>2
    <3>. QED BY <3>1, <3>2, <3>3, <3>4
  <2>3. m < k \/ m >= k
    BY <1>0
  <2>. QED BY <2>1, <2>2, <2>3
<1>11. DOMAIN (u \o v) = 1..(Len(s) - 1)
  BY <1>0, <1>8
<1>12. /\ \A m \in 1..(k - 1) : m \in 1..(Len(s) - 1) /\ m < k
       /\ \A m \in k..(Len(s) - 1) : m \in 1..(Len(s) - 1) /\ ~ (m < k)
  BY <1>0
<1>. QED BY <1>5, <1>8, <1>9, <1>11, <1>12 DEF Removed

(* One list becomes l, the others and the arrays stay.                      *)
Relinked(R, R2, L, i, l) ==
  /\ InfosOf(R2) = InfosOf(R) /\ R2[i].parent = R[i].parent
  /\ \A j \in InfosOf(R) \ {i} : R2[j] = R[j]
  /\ l \in Seq(EntriesOf(R2)) /\ R2[i].array = At(l, 1)
  /\ \A k \in DOMAIN l : R2[l[k]].next = At(l, k + 1)
  /\ \A j, k \in DOMAIN l : j < k => R2[l[j]].name < R2[l[k]].name
  /\ \A j \in InfosOf(R) \ {i} : \A k \in DOMAIN L[j] :
       /\ L[j][k] \in EntriesOf(R2) /\ R2[L[j][k]] = R[L[j][k]]
       /\ \A m \in DOMAIN l : l[m] # L[j][k]
  /\ \A g \in EntriesOf(R2) :
       (\E k \in DOMAIN l : l[k] = g) \/ (g \in EntriesOf(R) /\ \A k \in DOMAIN L[i] : L[i][k] # g)
  /\ \A k \in DOMAIN l : R2[l[k]].child # Null =>
       \E m \in DOMAIN L[i] : /\ L[i][m] = l[k] /\ R2[l[k]].name = R[L[i][m]].name
                              /\ R2[l[k]].child = R[L[i][m]].child
  /\ \A m \in DOMAIN L[i] : R[L[i][m]].child # Null =>
       \E k \in DOMAIN l : l[k] = L[i][m] /\ R2[l[k]].child = R[L[i][m]].child

(* Records whose one array has another list, the others theirs.             *)
LEMMA ListRelinked ==
  ASSUME NEW R, NEW L, NEW P, Forest(R, L, P), NEW i \in InfosOf(R), NEW R2, Nodes(R2), Datas(R2),
         NEW l, Relinked(R, R2, L, i, l), NEW L2, L2 = [L EXCEPT ![i] = l]
  PROVE  Forest(R2, L2, P)
<1>0. Lists(R, L) /\ Paths(R, L, P)
  BY DEF Forest
<1>1. L \in [InfosOf(R) -> Seq(EntriesOf(R))] /\ InfosOf(R2) = InfosOf(R)
  BY <1>0 DEF Lists, Relinked
<1>2. DOMAIN L2 = InfosOf(R) /\ L2[i] = l /\ \A j \in InfosOf(R) \ {i} : L2[j] = L[j]
  BY <1>1
<1>3. Lists(R2, L2)
  <2>0. /\ \A j \in InfosOf(R) : R[j].array = At(L[j], 1)
        /\ \A j \in InfosOf(R) : \A m \in DOMAIN L[j] : R[L[j][m]].next = At(L[j], m + 1)
        /\ \A j \in InfosOf(R) : \A m, n \in DOMAIN L[j] : m < n => R[L[j][m]].name < R[L[j][n]].name
        /\ \A j, n \in InfosOf(R) : \A m \in DOMAIN L[j], q \in DOMAIN L[n] : L[j][m] = L[n][q] => j = n
        /\ \A g \in EntriesOf(R) : \E j \in InfosOf(R) : \E k \in DOMAIN L[j] : L[j][k] = g
    BY <1>0 DEF Lists
  <2>1. L2 \in [InfosOf(R2) -> Seq(EntriesOf(R2))]
    <3>1. ASSUME NEW j \in InfosOf(R) PROVE L2[j] \in Seq(EntriesOf(R2))
      <4>1. CASE j = i
        BY <1>2, <4>1 DEF Relinked
      <4>2. CASE j # i
        <5>1. L[j] \in Seq(EntriesOf(R)) /\ L2[j] = L[j] /\ \A k \in DOMAIN L[j] : L[j][k] \in EntriesOf(R2)
          BY <1>1, <1>2, <4>2 DEF Relinked
        <5>. QED BY <5>1
      <4>. QED BY <4>1, <4>2
    <3>2. L2 = [j \in InfosOf(R) |-> L2[j]]
      BY <1>1
    <3>. QED BY <1>1, <3>1, <3>2
  <2>2. ASSUME NEW j \in InfosOf(R2) PROVE R2[j].array = At(L2[j], 1)
    <3>1. CASE j = i
      BY <1>2, <3>1 DEF Relinked
    <3>2. CASE j # i
      <4>1. j \in InfosOf(R) \ {i}
        BY <1>1, <3>2
      <4>2. R2[j] = R[j]
        BY <4>1 DEF Relinked
      <4>. QED BY <1>2, <2>0, <4>1, <4>2
    <3>. QED BY <3>1, <3>2
  <2>3. ASSUME NEW j \in InfosOf(R2), NEW m \in DOMAIN L2[j] PROVE R2[L2[j][m]].next = At(L2[j], m + 1)
    <3>1. CASE j = i
      BY <1>2, <3>1 DEF Relinked
    <3>2. CASE j # i
      <4>1. j \in InfosOf(R) \ {i} /\ L2[j] = L[j]
        BY <1>1, <1>2, <3>2
      <4>2. R2[L[j][m]] = R[L[j][m]]
        BY <4>1 DEF Relinked
      <4>. QED BY <2>0, <4>1, <4>2
    <3>. QED BY <3>1, <3>2
  <2>4. ASSUME NEW j \in InfosOf(R2), NEW m \in DOMAIN L2[j], NEW n \in DOMAIN L2[j], m < n
        PROVE  R2[L2[j][m]].name < R2[L2[j][n]].name
    <3>1. CASE j = i
      BY <1>2, <2>4, <3>1 DEF Relinked
    <3>2. CASE j # i
      <4>1. j \in InfosOf(R) \ {i} /\ L2[j] = L[j]
        BY <1>1, <1>2, <3>2
      <4>2. R2[L[j][m]] = R[L[j][m]] /\ R2[L[j][n]] = R[L[j][n]]
        BY <4>1 DEF Relinked
      <4>. QED BY <2>0, <2>4, <4>1, <4>2
    <3>. QED BY <3>1, <3>2
  <2>5. ASSUME NEW g \in EntriesOf(R2) PROVE \E j \in InfosOf(R2) : \E m \in DOMAIN L2[j] : L2[j][m] = g
    <3>1. CASE \E k \in DOMAIN l : l[k] = g
      BY <1>1, <1>2, <3>1
    <3>2. CASE ~ (\E k \in DOMAIN l : l[k] = g)
      <4>1. g \in EntriesOf(R) /\ \A k \in DOMAIN L[i] : L[i][k] # g
        BY <3>2 DEF Relinked
      <4>2. PICK j \in InfosOf(R) : \E k \in DOMAIN L[j] : L[j][k] = g
        BY <2>0, <4>1
      <4>3. j # i
        BY <4>1, <4>2
      <4>. QED BY <1>1, <1>2, <4>2, <4>3
    <3>. QED BY <3>1, <3>2
  <2>6. ASSUME NEW j \in InfosOf(R2), NEW n \in InfosOf(R2), NEW m \in DOMAIN L2[j], NEW q \in DOMAIN L2[n],
               L2[j][m] = L2[n][q]
        PROVE  j = n
    <3>1. ASSUME NEW x \in InfosOf(R) \ {i}, NEW y \in DOMAIN L[x], NEW z \in DOMAIN l PROVE l[z] # L[x][y]
      BY DEF Relinked
    <3>2. CASE j = i
      <4>1. CASE n # i
        <5>1. n \in InfosOf(R) \ {i} /\ L2[n] = L[n] /\ q \in DOMAIN L[n] /\ m \in DOMAIN l /\ l[m] = L[n][q]
          BY <1>1, <1>2, <2>6, <3>2, <4>1
        <5>. QED BY <3>1, <5>1
      <4>. QED BY <3>2, <4>1
    <3>3. CASE j # i
      <4>0. j \in InfosOf(R) \ {i} /\ L2[j] = L[j] /\ m \in DOMAIN L[j]
        BY <1>1, <1>2, <3>3
      <4>1. CASE n = i
        <5>1. q \in DOMAIN l /\ l[q] = L[j][m]
          BY <1>2, <2>6, <4>0, <4>1
        <5>. QED BY <3>1, <4>0, <5>1
      <4>2. CASE n # i
        <5>1. n \in InfosOf(R) \ {i} /\ L2[n] = L[n] /\ q \in DOMAIN L[n]
          BY <1>1, <1>2, <4>2
        <5>2. L[j][m] = L[n][q]
          BY <2>6, <4>0, <5>1
        <5>. QED BY <2>0, <4>0, <5>1, <5>2
      <4>. QED BY <4>1, <4>2
    <3>. QED BY <3>2, <3>3
  <2>. QED BY <2>1, <2>2, <2>3, <2>4, <2>5, <2>6 DEF Lists
<1>4. Paths(R2, L2, P)
  <2>0. /\ \A x \in InfosOf(R) : \A y \in DOMAIN L[x] : R[L[x][y]].child # Null =>
             /\ R[L[x][y]].child \in InfosOf(R) /\ R[R[L[x][y]].child].parent = x
             /\ P[R[L[x][y]].child] = Append(P[x], R[L[x][y]].name)
        /\ \A c \in InfosOf(R) \ {Root} : \E x \in InfosOf(R) : \E y \in DOMAIN L[x] : R[L[x][y]].child = c
    BY ZenonT(30), <1>0 DEF Paths
  <2>1. \A c \in InfosOf(R) : R2[c].parent = R[c].parent
    BY DEF Relinked
  <2>2. Root \in InfosOf(R2) /\ R2[Root].parent = Null /\ P[Root] = <<>>
    BY <1>0, <1>1, <2>1 DEF Paths
  <2>3. ASSUME NEW j \in InfosOf(R), NEW m \in DOMAIN L2[j], R2[L2[j][m]].child # Null
        PROVE  \E y \in DOMAIN L[j] : /\ R[L[j][y]].child = R2[L2[j][m]].child
                                      /\ R[L[j][y]].name = R2[L2[j][m]].name
    <3>1. CASE j = i
      <4>1. m \in DOMAIN l /\ R2[l[m]].child # Null
        BY <1>2, <2>3, <3>1
      <4>2. PICK y \in DOMAIN L[i] : R2[l[m]].name = R[L[i][y]].name /\ R2[l[m]].child = R[L[i][y]].child
        BY <4>1 DEF Relinked
      <4>. QED BY <1>2, <3>1, <4>2
    <3>2. CASE j # i
      <4>1. j \in InfosOf(R) \ {i} /\ L2[j] = L[j]
        BY <1>2, <3>2
      <4>2. R2[L[j][m]] = R[L[j][m]]
        BY <4>1 DEF Relinked
      <4>. QED BY <4>1, <4>2
    <3>. QED BY <3>1, <3>2
  <2>4. ASSUME NEW j \in InfosOf(R2), NEW m \in DOMAIN L2[j], R2[L2[j][m]].child # Null
        PROVE  /\ R2[L2[j][m]].child \in InfosOf(R2)
               /\ R2[R2[L2[j][m]].child].parent = j
               /\ P[R2[L2[j][m]].child] = Append(P[j], R2[L2[j][m]].name)
    <3>0. j \in InfosOf(R)
      BY <1>1
    <3>1. PICK y \in DOMAIN L[j] : R[L[j][y]].child = R2[L2[j][m]].child /\ R[L[j][y]].name = R2[L2[j][m]].name
      BY <2>3, <2>4, <3>0
    <3>2. PICK d : d = R2[L2[j][m]].child
      OBVIOUS
    <3>3. R[L[j][y]].child = d /\ d # Null
      BY <2>4, <3>1, <3>2
    <3>4. d \in InfosOf(R) /\ R[d].parent = j /\ P[d] = Append(P[j], R2[L2[j][m]].name)
      BY <2>0, <3>0, <3>1, <3>3
    <3>. QED BY <1>1, <2>1, <3>2, <3>4
  <2>5. ASSUME NEW c \in InfosOf(R2) \ {Root}
        PROVE  \E j \in InfosOf(R2) : \E m \in DOMAIN L2[j] : R2[L2[j][m]].child = c
    <3>1. PICK j \in InfosOf(R) : \E m \in DOMAIN L[j] : R[L[j][m]].child = c
      BY <1>1, <2>0
    <3>2. PICK m \in DOMAIN L[j] : R[L[j][m]].child = c
      BY <3>1
    <3>3. c # Null
      BY NodeKinds
    <3>4. CASE j = i
      <4>1. PICK k \in DOMAIN l : R2[l[k]].child = c
        BY <3>2, <3>3, <3>4 DEF Relinked
      <4>. QED BY <1>1, <1>2, <4>1
    <3>5. CASE j # i
      <4>1. j \in InfosOf(R) \ {i} /\ L2[j] = L[j]
        BY <1>2, <3>5
      <4>2. R2[L[j][m]] = R[L[j][m]]
        BY <4>1 DEF Relinked
      <4>. QED BY <1>1, <3>2, <4>1, <4>2
    <3>. QED BY <3>4, <3>5
  <2>. QED BY <1>0, <1>1, <2>2, <2>4, <2>5 DEF Paths
<1>. QED BY <1>3, <1>4 DEF Forest

(* The k-th link of the list l of the array i leads to a; the records in    *)
(* gone are no longer there.                                                *)
LinkAt(i, l, k) == IF k = 1 THEN i ELSE l[k - 1]
LinkWritten(R, R2, i, l, k, a, gone) ==
  /\ R2[LinkAt(i, l, k)] = IF k = 1 THEN [R[i] EXCEPT !.array = a] ELSE [R[l[k - 1]] EXCEPT !.next = a]
  /\ \A x \in DOMAIN R \ (gone \cup {LinkAt(i, l, k)}) : R2[x] = R[x]

LinkOutcome(R, R2, L, i, k, a, gone) ==
  /\ k # 1 => k - 1 \in DOMAIN L[i]
  /\ \A j \in InfosOf(R) : R2[j] \in InfoNode /\ R2[j].parent = R[j].parent
  /\ \A j \in InfosOf(R) \ {i} : R2[j] = R[j]
  /\ R2[i].array = IF k = 1 THEN a ELSE R[i].array
  /\ \A g \in EntriesOf(R) \ gone :
       R2[g] \in EntryNode /\ R2[g].name = R[g].name /\ R2[g].child = R[g].child /\ R2[g].data = R[g].data
  /\ \A m \in DOMAIN L[i] : L[i][m] \notin gone =>
       R2[L[i][m]].next = IF m = k - 1 THEN a ELSE R[L[i][m]].next
  /\ \A j \in InfosOf(R) \ {i} : \A m \in DOMAIN L[j] : L[j][m] \notin gone => R2[L[j][m]] = R[L[j][m]]
  /\ \A x \in DatasOf(R) : R2[x] = R[x]

(* What the link before the k-th entry is: the array's own, or the entry's  *)
(* before.                                                                  *)
LEMMA LinkFacts ==
  ASSUME NEW R, NEW L, NEW P, Forest(R, L, P), NEW i \in InfosOf(R), NEW k \in 1..(Len(L[i]) + 1),
         NEW R2, NEW a \in Link, NEW gone \in SUBSET EntriesOf(R), LinkWritten(R, R2, i, L[i], k, a, gone),
         k # 1 => L[i][k - 1] \notin gone
  PROVE  LinkOutcome(R, R2, L, i, k, a, gone)
<1>. USE DEF LinkOutcome
<1>0. Nodes(R) /\ Lists(R, L)
  BY DEF Forest
<1>1. /\ \A x \in InfosOf(R) : R[x] \in InfoNode
      /\ \A x \in EntriesOf(R) : R[x] \in EntryNode
      /\ DOMAIN R = InfosOf(R) \cup EntriesOf(R) \cup DatasOf(R)
      /\ InfosOf(R) \cap EntriesOf(R) = {} /\ InfosOf(R) \cap DatasOf(R) = {}
      /\ EntriesOf(R) \cap DatasOf(R) = {}
  BY <1>0, NodeKinds
<1>2. PICK w : w = LinkAt(i, L[i], k)
  OBVIOUS
<1>3. L[i] \in Seq(EntriesOf(R))
  BY <1>0 DEF Lists
<1>4. k \in Nat /\ k >= 1 /\ Len(L[i]) \in Nat /\ DOMAIN L[i] = 1..Len(L[i])
  BY <1>3
<1>5. k # 1 => k - 1 \in DOMAIN L[i]
  BY <1>4
<1>6. \A j \in InfosOf(R) : \A m \in DOMAIN L[j] : L[j][m] \in EntriesOf(R)
  BY <1>0, OnePlace
<1>7. \A x \in DOMAIN R \ (gone \cup {w}) : R2[x] = R[x]
  BY <1>2 DEF LinkWritten
<1>8. \A x \in DatasOf(R) : R2[x] = R[x]
  <2>1. w \notin DatasOf(R)
    BY <1>1, <1>2, <1>5, <1>6 DEF LinkAt
  <2>. QED BY <1>1, <1>7, <2>1
<1>9. \A j \in InfosOf(R) \ {i} : R2[j] = R[j]
  <2>1. w = i \/ w \in EntriesOf(R)
    BY <1>2, <1>5, <1>6 DEF LinkAt
  <2>. QED BY <1>1, <1>7, <2>1
<1>10. CASE k = 1
  <2>1. w = i /\ R2[i] = [R[i] EXCEPT !.array = a]
    BY <1>2, <1>10 DEF LinkAt, LinkWritten
  <2>2. R2[i] \in InfoNode /\ R2[i].parent = R[i].parent /\ R2[i].array = a
    BY <1>1, <2>1 DEF InfoNode
  <2>3. \A g \in EntriesOf(R) \ gone : R2[g] = R[g]
    BY <1>1, <1>7, <2>1
  <2>4. \A j \in InfosOf(R) : R2[j] \in InfoNode /\ R2[j].parent = R[j].parent
    BY <1>1, <1>9, <2>2
  <2>5. \A g \in EntriesOf(R) \ gone :
          R2[g] \in EntryNode /\ R2[g].name = R[g].name /\ R2[g].child = R[g].child /\ R2[g].data = R[g].data
    BY <1>1, <2>3
  <2>6. \A m \in DOMAIN L[i] : m # k - 1
    BY <1>4, <1>10
  <2>7. \A m \in DOMAIN L[i] : L[i][m] \notin gone => R2[L[i][m]].next = IF m = k - 1 THEN a ELSE R[L[i][m]].next
    BY <1>6, <2>3, <2>6
  <2>8. \A j \in InfosOf(R) \ {i} : \A m \in DOMAIN L[j] : L[j][m] \notin gone => R2[L[j][m]] = R[L[j][m]]
    BY <1>6, <2>3
  <2>. QED BY <1>5, <1>8, <1>9, <1>10, <2>2, <2>4, <2>5, <2>7, <2>8
<1>11. CASE k # 1
  <2>1. w = L[i][k - 1] /\ k - 1 \in DOMAIN L[i] /\ w \in EntriesOf(R) /\ w \notin gone
                        /\ R2[w] = [R[w] EXCEPT !.next = a]
    BY <1>2, <1>5, <1>6, <1>11 DEF LinkAt, LinkWritten
  <2>2. /\ R2[w] \in EntryNode /\ R2[w].name = R[w].name /\ R2[w].child = R[w].child
        /\ R2[w].data = R[w].data /\ R2[w].next = a
    BY <1>1, <2>1 DEF EntryNode
  <2>3. \A g \in EntriesOf(R) \ (gone \cup {w}) : R2[g] = R[g]
    BY <1>1, <1>7
  <2>4. \A j \in InfosOf(R) : R2[j] = R[j]
    BY <1>1, <1>7, <2>1
  <2>5. \A g \in EntriesOf(R) \ gone :
          R2[g] \in EntryNode /\ R2[g].name = R[g].name /\ R2[g].child = R[g].child /\ R2[g].data = R[g].data
    BY <1>1, <2>2, <2>3
  <2>6. ASSUME NEW m \in DOMAIN L[i], L[i][m] \notin gone
        PROVE  R2[L[i][m]].next = IF m = k - 1 THEN a ELSE R[L[i][m]].next
    <3>1. CASE m = k - 1
      BY <2>1, <2>2, <3>1
    <3>2. CASE m # k - 1
      <4>1. L[i][m] # w
        BY <1>0, <2>1, <3>2, OnePlace
      <4>. QED BY <1>6, <2>3, <2>6, <3>2, <4>1
    <3>. QED BY <3>1, <3>2
  <2>7. ASSUME NEW j \in InfosOf(R) \ {i}, NEW m \in DOMAIN L[j], L[j][m] \notin gone
        PROVE  R2[L[j][m]] = R[L[j][m]]
    <3>1. L[j][m] # w
      BY <1>0, <2>1, OnePlace
    <3>. QED BY <1>6, <2>3, <2>7, <3>1
  <2>. QED BY <1>1, <1>5, <1>8, <1>11, <2>4, <2>5, <2>6, <2>7
<1>. QED BY <1>10, <1>11

(* A new entry a is put into the list of i as the k-th.                     *)
EntryAdded(R, R2, i, l, k, a, name) ==
  /\ R2 = [x \in DOMAIN R2 |-> R2[x]]
  /\ DOMAIN R2 = DOMAIN R \cup {a} /\ a \in Addr \ DOMAIN R
  /\ R2[a] = Entry(name, Null, Null, At(l, k))
  /\ LinkWritten(R, R2, i, l, k, a, {})

EntryInserted(R, R2, L, L2, P, i, k, a) ==
  /\ InfosOf(R2) = InfosOf(R) /\ EntriesOf(R2) = EntriesOf(R) \cup {a} /\ a \notin EntriesOf(R)
  /\ \A j \in InfosOf(R) \ {i} :
       R2[j] = R[j] /\ L2[j] = L[j] /\ \A m \in DOMAIN L[j] : R2[L[j][m]] = R[L[j][m]]
  /\ L2[i] = InsertAt(L[i], k, a)
  /\ \A g \in EntriesOf(R) : PayloadAt(R2, g) = PayloadAt(R, g) /\ R2[g].name = R[g].name
  /\ PayloadAt(R2, a) = NoPayload
  /\ Forest(R2, L2, P)

(* An entry is linked in where its name belongs.                            *)
LEMMA EntryIsAdded ==
  ASSUME NEW R, NEW L, NEW P, Forest(R, L, P), NEW i \in InfosOf(R), NEW k \in 1..(Len(L[i]) + 1),
         NEW R2, NEW a, NEW name \in Name, EntryAdded(R, R2, i, L[i], k, a, name),
         \A m \in DOMAIN L[i] : R[L[i][m]].name # name /\ (R[L[i][m]].name < name <=> m < k),
         NEW L2, L2 = [L EXCEPT ![i] = InsertAt(L[i], k, a)]
  PROVE  EntryInserted(R, R2, L, L2, P, i, k, a)
<1>. USE DEF EntryInserted
<1>0. Nodes(R) /\ Lists(R, L) /\ Paths(R, L, P) /\ Datas(R)
  BY DEF Forest
<1>1. /\ \A x \in InfosOf(R) : R[x] \in InfoNode /\ x \in Addr /\ x # Null
      /\ \A x \in EntriesOf(R) : R[x] \in EntryNode /\ x \in Addr /\ x # Null
      /\ \A x \in DatasOf(R) : R[x] \in DataNode /\ x \in Addr /\ x # Null
      /\ DOMAIN R = InfosOf(R) \cup EntriesOf(R) \cup DatasOf(R)
      /\ InfosOf(R) \cap EntriesOf(R) = {} /\ InfosOf(R) \cap DatasOf(R) = {}
      /\ EntriesOf(R) \cap DatasOf(R) = {}
  BY <1>0, NodeKinds
<1>2. a \in Addr /\ a # Null /\ a \notin DOMAIN R /\ a \in Link
  BY HierAssumption DEF EntryAdded, Link
<1>3. L[i] \in Seq(EntriesOf(R)) /\ \A j \in InfosOf(R) : \A m \in DOMAIN L[j] : L[j][m] \in EntriesOf(R)
  BY <1>0, OnePlace DEF Lists
<1>4. At(L[i], k) \in Link
  BY <1>1, <1>3 DEF At, Link
<1>5. R2[a] \in EntryNode /\ R2[a].name = name /\ R2[a].data = Null /\ R2[a].child = Null
                          /\ R2[a].next = At(L[i], k) /\ R2[a].type = "entry"
  BY <1>4 DEF EntryAdded, Entry, EntryNode, Link
<1>6. LinkWritten(R, R2, i, L[i], k, a, {})
  BY DEF EntryAdded
<1>7. /\ k # 1 => k - 1 \in DOMAIN L[i]
      /\ \A j \in InfosOf(R) : R2[j] \in InfoNode /\ R2[j].parent = R[j].parent
      /\ \A j \in InfosOf(R) \ {i} : R2[j] = R[j]
      /\ R2[i].array = IF k = 1 THEN a ELSE R[i].array
      /\ \A g \in EntriesOf(R) :
           R2[g] \in EntryNode /\ R2[g].name = R[g].name /\ R2[g].child = R[g].child /\ R2[g].data = R[g].data
      /\ \A m \in DOMAIN L[i] : R2[L[i][m]].next = IF m = k - 1 THEN a ELSE R[L[i][m]].next
      /\ \A j \in InfosOf(R) \ {i} : \A m \in DOMAIN L[j] : R2[L[j][m]] = R[L[j][m]]
      /\ \A x \in DatasOf(R) : R2[x] = R[x]
  <2>1. PICK gone : gone = {} /\ gone \in SUBSET EntriesOf(R) /\ LinkWritten(R, R2, i, L[i], k, a, gone)
    BY <1>6
  <2>2. LinkOutcome(R, R2, L, i, k, a, gone)
    <3>1. k # 1 => L[i][k - 1] \notin gone
      BY <2>1
    <3>. QED BY <1>2, <2>1, <3>1, LinkFacts
  <2>3. \A x : x \notin gone
    BY <2>1
  <2>4. EntriesOf(R) \ gone = EntriesOf(R)
    BY <2>3
  <2>. QED BY <2>2, <2>3, <2>4 DEF LinkOutcome
<1>8. DOMAIN R2 = InfosOf(R) \cup (EntriesOf(R) \cup {a}) \cup DatasOf(R)
  BY <1>1 DEF EntryAdded
<1>9. InfosOf(R2) = InfosOf(R) /\ EntriesOf(R2) = EntriesOf(R) \cup {a} /\ DatasOf(R2) = DatasOf(R)
  <2>0. /\ \A x \in InfosOf(R) : R2[x].type = "info"
        /\ \A x \in EntriesOf(R) \cup {a} : R2[x].type = "entry"
        /\ \A x \in DatasOf(R) : R2[x].type = "data"
    BY <1>5, <1>7 DEF InfoNode, EntryNode, DatasOf
  <2>1. "info" # "entry" /\ "info" # "data" /\ "entry" # "data"
    OBVIOUS
  <2>2. InfosOf(R2) = InfosOf(R)
    <3>1. \A x : x \in InfosOf(R2) <=> x \in DOMAIN R2 /\ R2[x].type = "info"
      BY DEF InfosOf
    <3>. QED BY <1>8, <2>0, <2>1, <3>1
  <2>3. EntriesOf(R2) = EntriesOf(R) \cup {a}
    <3>1. \A x : x \in EntriesOf(R2) <=> x \in DOMAIN R2 /\ R2[x].type = "entry"
      BY DEF EntriesOf
    <3>. QED BY <1>8, <2>0, <2>1, <3>1
  <2>4. DatasOf(R2) = DatasOf(R)
    <3>1. \A x : x \in DatasOf(R2) <=> x \in DOMAIN R2 /\ R2[x].type = "data"
      BY DEF DatasOf
    <3>. QED BY <1>8, <2>0, <2>1, <3>1
  <2>. QED BY <2>2, <2>3, <2>4
<1>10. Nodes(R2)
  <2>1. \A x \in DOMAIN R2 : x \in Addr /\ (R2[x] \in InfoNode \/ R2[x] \in EntryNode \/ R2[x] \in DataNode)
    BY <1>1, <1>2, <1>5, <1>7, <1>8
  <2>2. R2 = [x \in DOMAIN R2 |-> R2[x]] /\ DOMAIN R2 \subseteq DOMAIN R \cup {a}
    BY DEF EntryAdded
  <2>. QED BY <1>0, <2>1, <2>2, NodesAre
<1>11. Datas(R2)
  <2>1. \A g \in EntriesOf(R2) : R2[g].data # Null => g \in EntriesOf(R) /\ R2[g].data = R[g].data
    BY <1>5, <1>7, <1>9
  <2>2. \A g \in EntriesOf(R2) : R2[g].data # Null => R2[g].data \in DatasOf(R2)
    BY <1>0, <1>9, <2>1 DEF Datas
  <2>3. \A g, h \in EntriesOf(R2) : R2[g].data = R2[h].data /\ R2[g].data # Null => g = h
    BY <1>0, <2>1 DEF Datas
  <2>4. \A x \in DatasOf(R2) : \E g \in EntriesOf(R2) : R2[g].data = x
    BY <1>0, <1>7, <1>9 DEF Datas
  <2>. QED BY <2>2, <2>3, <2>4 DEF Datas
<1>12. PICK n : n = Len(L[i])
  OBVIOUS
<1>13. PICK l : l = InsertAt(L[i], k, a)
  OBVIOUS
<1>14. n \in Nat /\ DOMAIN L[i] = 1..n /\ k \in Nat /\ 1 <= k /\ k <= n + 1
  BY <1>3, <1>12
<1>15. /\ l \in Seq(EntriesOf(R2)) /\ DOMAIN l = 1..(n + 1)
       /\ \A m \in 1..(k - 1) : l[m] = L[i][m]
       /\ l[k] = a
       /\ \A m \in k..n : l[m + 1] = L[i][m]
  <2>1. L[i] \in Seq(EntriesOf(R2)) /\ a \in EntriesOf(R2)
    BY <1>3, <1>9
  <2>2. Inserted(EntriesOf(R2), L[i], k, a, l)
    BY <1>13, <2>1, InsertFacts
  <2>. QED BY <1>12, <2>2 DEF Inserted
<1>16. /\ \A m \in 1..(n + 1) : m < k => m \in DOMAIN L[i] /\ l[m] = L[i][m]
       /\ l[k] = a /\ k \in 1..(n + 1)
       /\ \A m \in 1..(n + 1) : m > k => m - 1 \in DOMAIN L[i] /\ l[m] = L[i][m - 1] /\ m - 1 >= k
       /\ \A m \in DOMAIN L[i] : m < k => m \in 1..(n + 1) /\ l[m] = L[i][m]
       /\ \A m \in DOMAIN L[i] : m >= k => m + 1 \in 1..(n + 1) /\ l[m + 1] = L[i][m]
  <2>1. ASSUME NEW m \in 1..(n + 1), m < k PROVE m \in DOMAIN L[i] /\ l[m] = L[i][m]
    <3>1. m \in 1..(k - 1) /\ m \in 1..n
      BY <1>14, <2>1
    <3>. QED BY <1>14, <1>15, <3>1
  <2>2. ASSUME NEW m \in 1..(n + 1), m > k PROVE m - 1 \in DOMAIN L[i] /\ l[m] = L[i][m - 1] /\ m - 1 >= k
    <3>1. m - 1 \in k..n /\ m - 1 \in 1..n /\ m - 1 >= k /\ (m - 1) + 1 = m
      BY <1>14, <2>2
    <3>. QED BY <1>14, <1>15, <3>1
  <2>3. ASSUME NEW m \in DOMAIN L[i], m < k PROVE m \in 1..(n + 1) /\ l[m] = L[i][m]
    <3>1. m \in 1..(n + 1)
      BY <1>14
    <3>. QED BY <2>1, <2>3, <3>1
  <2>4. ASSUME NEW m \in DOMAIN L[i], m >= k PROVE m + 1 \in 1..(n + 1) /\ l[m + 1] = L[i][m]
    <3>1. m + 1 \in 1..(n + 1) /\ m + 1 > k /\ (m + 1) - 1 = m
      BY <1>14, <2>4
    <3>. QED BY <2>2, <3>1
  <2>5. k \in 1..(n + 1)
    BY <1>14
  <2>. QED BY <1>15, <2>1, <2>2, <2>3, <2>4, <2>5
<1>17. \A j \in InfosOf(R) : \A m \in DOMAIN L[j] : R[L[j][m]].next = At(L[j], m + 1)
  BY <1>0 DEF Lists
<1>18. R2[i].array = At(l, 1)
  <2>1. CASE k = 1
    BY <1>7, <1>14, <1>15, <1>16, <2>1 DEF At
  <2>2. CASE k # 1
    <3>1. 1 < k /\ 1 \in 1..(n + 1) /\ 1 \in DOMAIN L[i]
      BY <1>14, <2>2
    <3>2. R[i].array = At(L[i], 1)
      BY <1>0 DEF Lists
    <3>3. l[1] = L[i][1]
      BY <1>16, <3>1
    <3>. QED BY <1>7, <1>15, <2>2, <3>1, <3>2, <3>3 DEF At
  <2>. QED BY <2>1, <2>2
<1>19. ASSUME NEW m \in DOMAIN l PROVE R2[l[m]].next = At(l, m + 1)
  <2>0. m \in Nat /\ m \in 1..(n + 1)
    BY <1>14, <1>15
  <2>1. CASE m < k - 1
    <3>1. m \in DOMAIN L[i] /\ l[m] = L[i][m] /\ m + 1 \in 1..(n + 1) /\ m + 1 < k /\ m # k - 1
      BY <1>14, <1>16, <2>0, <2>1
    <3>2. m + 1 \in DOMAIN L[i] /\ l[m + 1] = L[i][m + 1]
      BY <1>16, <3>1
    <3>3. R2[L[i][m]].next = R[L[i][m]].next
      BY <1>7, <3>1
    <3>. QED BY <1>15, <1>17, <3>1, <3>2, <3>3 DEF At
  <2>2. CASE m = k - 1
    <3>1. m \in DOMAIN L[i] /\ l[m] = L[i][m] /\ m + 1 = k
      BY <1>14, <1>16, <2>0, <2>2
    <3>2. R2[L[i][m]].next = a
      BY <1>7, <2>2, <3>1
    <3>. QED BY <1>15, <1>16, <3>1, <3>2 DEF At
  <2>3. CASE m = k
    <3>1. l[m] = a /\ R2[a].next = At(L[i], k)
      BY <1>5, <1>16, <2>3
    <3>2. At(L[i], k) = At(l, k + 1)
      <4>1. CASE k \in DOMAIN L[i]
        BY <1>14, <1>15, <1>16, <4>1 DEF At
      <4>2. CASE k \notin DOMAIN L[i]
        <5>1. k + 1 \notin DOMAIN l
          BY <1>14, <1>15, <4>2
        <5>. QED BY <4>2, <5>1 DEF At
      <4>. QED BY <4>1, <4>2
    <3>. QED BY <2>3, <3>1, <3>2
  <2>4. CASE m > k
    <3>1. m - 1 \in DOMAIN L[i] /\ l[m] = L[i][m - 1] /\ m - 1 # k - 1 /\ (m - 1) + 1 = m
      BY <1>14, <1>16, <2>0, <2>4
    <3>2. R2[l[m]].next = At(L[i], m)
      BY <1>7, <1>17, <3>1
    <3>3. At(L[i], m) = At(l, m + 1)
      <4>1. CASE m \in DOMAIN L[i]
        <5>1. m >= k
          BY <1>14, <2>0, <2>4
        <5>. QED BY <1>15, <1>16, <4>1, <5>1 DEF At
      <4>2. CASE m \notin DOMAIN L[i]
        <5>1. m + 1 \notin DOMAIN l
          BY <1>14, <1>15, <2>0, <4>2
        <5>. QED BY <4>2, <5>1 DEF At
      <4>. QED BY <4>1, <4>2
    <3>. QED BY <3>2, <3>3
  <2>. QED BY <1>14, <2>0, <2>1, <2>2, <2>3, <2>4
<1>20. ASSUME NEW j \in DOMAIN l, NEW m \in DOMAIN l, j < m PROVE R2[l[j]].name < R2[l[m]].name
  <2>0. j \in Nat /\ m \in Nat /\ j \in 1..(n + 1) /\ m \in 1..(n + 1)
    BY <1>14, <1>15
  <2>1. \A x, y \in DOMAIN L[i] : x < y => R[L[i][x]].name < R[L[i][y]].name
    BY <1>0 DEF Lists
  <2>2. \A x \in DOMAIN L[i] : R2[L[i][x]].name = R[L[i][x]].name /\ R[L[i][x]].name \in Nat
    BY <1>0, <1>3, <1>7, OnePlace
  <2>3. name \in Nat
    BY HierAssumption
  <2>4. CASE j < k /\ m < k
    BY <1>16, <1>20, <2>0, <2>1, <2>2, <2>4
  <2>5. CASE j < k /\ m = k
    <3>1. j \in DOMAIN L[i] /\ l[j] = L[i][j] /\ l[m] = a
      BY <1>16, <2>0, <2>5
    <3>. QED BY <1>5, <2>2, <2>5, <3>1
  <2>6. CASE j < k /\ m > k
    <3>1. j \in DOMAIN L[i] /\ l[j] = L[i][j] /\ m - 1 \in DOMAIN L[i] /\ l[m] = L[i][m - 1] /\ j < m - 1
      BY <1>14, <1>16, <2>0, <2>6
    <3>. QED BY <2>1, <2>2, <3>1
  <2>7. CASE j = k /\ m > k
    <3>1. l[j] = a /\ m - 1 \in DOMAIN L[i] /\ l[m] = L[i][m - 1] /\ ~ (m - 1 < k)
      BY <1>14, <1>16, <2>0, <2>7
    <3>2. R[L[i][m - 1]].name # name /\ ~ (R[L[i][m - 1]].name < name) /\ R[L[i][m - 1]].name \in Nat
      BY <2>2, <3>1
    <3>3. name < R[L[i][m - 1]].name
      BY <2>3, <3>2
    <3>. QED BY <1>5, <2>2, <3>1, <3>3
  <2>8. CASE j > k /\ m > k
    <3>1. /\ j - 1 \in DOMAIN L[i] /\ l[j] = L[i][j - 1] /\ m - 1 \in DOMAIN L[i] /\ l[m] = L[i][m - 1]
          /\ j - 1 < m - 1
      BY <1>14, <1>16, <1>20, <2>0, <2>8
    <3>. QED BY <2>1, <2>2, <3>1
  <2>. QED BY <1>14, <1>20, <2>0, <2>4, <2>5, <2>6, <2>7, <2>8
<1>21. \A m \in DOMAIN l : l[m] = a \/ \E x \in DOMAIN L[i] : l[m] = L[i][x]
  <2>1. \A m \in DOMAIN l : m < k \/ m = k \/ m > k
    BY <1>14, <1>15
  <2>. QED BY <1>15, <1>16, <2>1
<1>22. \A x \in DOMAIN L[i] : \E m \in DOMAIN l : l[m] = L[i][x]
  <2>1. \A x \in DOMAIN L[i] : x < k \/ x >= k
    BY <1>14
  <2>. QED BY <1>15, <1>16, <2>1
<1>23. Relinked(R, R2, L, i, l)
  <2>1. /\ InfosOf(R2) = InfosOf(R) /\ R2[i].parent = R[i].parent
        /\ \A j \in InfosOf(R) \ {i} : R2[j] = R[j]
    BY <1>7, <1>9
  <2>2. ASSUME NEW j \in InfosOf(R) \ {i}, NEW m \in DOMAIN L[j]
        PROVE  /\ L[j][m] \in EntriesOf(R2) /\ R2[L[j][m]] = R[L[j][m]]
               /\ \A y \in DOMAIN l : l[y] # L[j][m]
    <3>1. L[j][m] \in EntriesOf(R)
      BY <1>3
    <3>2. L[j][m] # a
      BY <1>1, <1>2, <3>1
    <3>3. \A x \in DOMAIN L[i] : L[i][x] # L[j][m]
      BY <1>0 DEF Lists
    <3>. QED BY <1>7, <1>9, <1>21, <3>1, <3>2, <3>3
  <2>3. ASSUME NEW g \in EntriesOf(R2), ~ (\E m \in DOMAIN l : l[m] = g)
        PROVE  g \in EntriesOf(R) /\ \A x \in DOMAIN L[i] : L[i][x] # g
    <3>1. g # a
      BY <1>15, <1>16, <2>3
    <3>. QED BY <1>9, <1>22, <2>3, <3>1
  <2>4. ASSUME NEW m \in DOMAIN l, R2[l[m]].child # Null
        PROVE  \E x \in DOMAIN L[i] : /\ L[i][x] = l[m] /\ R2[l[m]].name = R[L[i][x]].name
                                      /\ R2[l[m]].child = R[L[i][x]].child
    <3>1. l[m] # a
      BY <1>5, <2>4
    <3>2. PICK x \in DOMAIN L[i] : l[m] = L[i][x]
      BY <1>21, <3>1
    <3>3. R2[L[i][x]].name = R[L[i][x]].name /\ R2[L[i][x]].child = R[L[i][x]].child
      BY <1>3, <1>7
    <3>. QED BY <3>2, <3>3
  <2>5. ASSUME NEW x \in DOMAIN L[i], R[L[i][x]].child # Null
        PROVE  \E m \in DOMAIN l : l[m] = L[i][x] /\ R2[l[m]].child = R[L[i][x]].child
    <3>1. PICK m \in DOMAIN l : l[m] = L[i][x]
      BY <1>22
    <3>2. R2[L[i][x]].child = R[L[i][x]].child
      BY <1>3, <1>7
    <3>. QED BY <3>1, <3>2
  <2>. QED BY <1>15, <1>18, <1>19, <1>20, <2>1, <2>2, <2>3, <2>4, <2>5, Zenon DEF Relinked
<1>24. Forest(R2, L2, P)
  BY <1>10, <1>11, <1>13, <1>23, ListRelinked
<1>25. L2[i] = InsertAt(L[i], k, a) /\ \A j \in InfosOf(R) \ {i} : L2[j] = L[j]
  BY <1>0 DEF Lists
<1>26. \A g \in EntriesOf(R) : PayloadAt(R2, g) = PayloadAt(R, g) /\ R2[g].name = R[g].name
  BY <1>0, <1>7 DEF PayloadAt, Datas
<1>27. PayloadAt(R2, a) = NoPayload
  BY <1>5 DEF PayloadAt
<1>28. a \notin EntriesOf(R)
  BY <1>1, <1>2
<1>. QED BY <1>7, <1>9, <1>24, <1>25, <1>26, <1>27, <1>28

(* The k-th entry is taken out of the list of i.                            *)
EntryRemoved(R, R2, i, l, k) ==
  /\ R2 = [x \in DOMAIN R2 |-> R2[x]]
  /\ DOMAIN R2 = DOMAIN R \ {l[k]}
  /\ LinkWritten(R, R2, i, l, k, R[l[k]].next, {l[k]})

EntryTaken(R, R2, L, L2, P, i, k) ==
  /\ InfosOf(R2) = InfosOf(R) /\ EntriesOf(R2) = EntriesOf(R) \ {L[i][k]}
  /\ \A j \in InfosOf(R) \ {i} :
       R2[j] = R[j] /\ L2[j] = L[j] /\ \A m \in DOMAIN L[j] : R2[L[j][m]] = R[L[j][m]]
  /\ L2[i] = RemoveAt(L[i], k)
  /\ \A g \in EntriesOf(R) \ {L[i][k]} : PayloadAt(R2, g) = PayloadAt(R, g) /\ R2[g].name = R[g].name
  /\ Forest(R2, L2, P)

(* An entry without payload and children is unlinked.                       *)
LEMMA EntryIsRemoved ==
  ASSUME NEW R, NEW L, NEW P, Forest(R, L, P), NEW i \in InfosOf(R), NEW k \in DOMAIN L[i],
         NEW R2, EntryRemoved(R, R2, i, L[i], k),
         R[L[i][k]].child = Null, R[L[i][k]].data = Null,
         NEW L2, L2 = [L EXCEPT ![i] = RemoveAt(L[i], k)]
  PROVE  EntryTaken(R, R2, L, L2, P, i, k)
<1>. USE DEF EntryTaken
<1>0. Nodes(R) /\ Lists(R, L) /\ Paths(R, L, P) /\ Datas(R)
  BY DEF Forest
<1>1. /\ \A x \in InfosOf(R) : R[x] \in InfoNode /\ x \in Addr /\ x # Null
      /\ \A x \in EntriesOf(R) : R[x] \in EntryNode /\ x \in Addr /\ x # Null
      /\ \A x \in DatasOf(R) : R[x] \in DataNode /\ x \in Addr /\ x # Null
      /\ DOMAIN R = InfosOf(R) \cup EntriesOf(R) \cup DatasOf(R)
      /\ InfosOf(R) \cap EntriesOf(R) = {} /\ InfosOf(R) \cap DatasOf(R) = {}
      /\ EntriesOf(R) \cap DatasOf(R) = {}
  BY <1>0, NodeKinds
<1>2. PICK e : e = L[i][k]
  OBVIOUS
<1>3. L[i] \in Seq(EntriesOf(R)) /\ \A j \in InfosOf(R) : \A m \in DOMAIN L[j] : L[j][m] \in EntriesOf(R)
  BY <1>0, OnePlace DEF Lists
<1>4. e \in EntriesOf(R) /\ e \notin InfosOf(R) /\ e \notin DatasOf(R)
  BY <1>1, <1>2, <1>3
<1>5. PICK n : n = Len(L[i])
  OBVIOUS
<1>6. n \in Nat /\ DOMAIN L[i] = 1..n /\ k \in Nat /\ 1 <= k /\ k <= n
  BY <1>3, <1>5
<1>7. \A j \in InfosOf(R) : \A m \in DOMAIN L[j] : L[j][m] = e <=> j = i /\ m = k
  BY <1>0, <1>2, OnePlace
<1>8. PICK a : a = R[e].next
  OBVIOUS
<1>9. a = At(L[i], k + 1) /\ a \in Link
  BY <1>0, <1>1, <1>2, <1>4, <1>8 DEF Lists, EntryNode
<1>10. LinkOutcome(R, R2, L, i, k, a, {e})
  <2>1. LinkWritten(R, R2, i, L[i], k, a, {e})
    BY <1>2, <1>8 DEF EntryRemoved
  <2>2. k # 1 => L[i][k - 1] \notin {e}
    <3>1. k # 1 => k - 1 \in DOMAIN L[i] /\ k - 1 # k
      BY <1>6
    <3>. QED BY <1>7, <3>1
  <2>3. k \in 1..(Len(L[i]) + 1) /\ {e} \in SUBSET EntriesOf(R)
    BY <1>4, <1>5, <1>6
  <2>. QED BY <1>9, <2>1, <2>2, <2>3, LinkFacts
<1>11. /\ k # 1 => k - 1 \in DOMAIN L[i]
       /\ \A j \in InfosOf(R) : R2[j] \in InfoNode /\ R2[j].parent = R[j].parent
       /\ \A j \in InfosOf(R) \ {i} : R2[j] = R[j]
       /\ R2[i].array = IF k = 1 THEN a ELSE R[i].array
       /\ \A g \in EntriesOf(R) \ {e} :
            R2[g] \in EntryNode /\ R2[g].name = R[g].name /\ R2[g].child = R[g].child /\ R2[g].data = R[g].data
       /\ \A m \in DOMAIN L[i] : m # k => R2[L[i][m]].next = IF m = k - 1 THEN a ELSE R[L[i][m]].next
       /\ \A j \in InfosOf(R) \ {i} : \A m \in DOMAIN L[j] : R2[L[j][m]] = R[L[j][m]]
       /\ \A x \in DatasOf(R) : R2[x] = R[x]
  BY <1>7, <1>10 DEF LinkOutcome
<1>12. DOMAIN R2 = InfosOf(R) \cup (EntriesOf(R) \ {e}) \cup DatasOf(R)
  BY <1>1, <1>2, <1>4 DEF EntryRemoved
<1>13. InfosOf(R2) = InfosOf(R) /\ EntriesOf(R2) = EntriesOf(R) \ {e} /\ DatasOf(R2) = DatasOf(R)
  <2>0. /\ \A x \in InfosOf(R) : R2[x].type = "info"
        /\ \A x \in EntriesOf(R) \ {e} : R2[x].type = "entry"
        /\ \A x \in DatasOf(R) : R2[x].type = "data"
    BY <1>11 DEF InfoNode, EntryNode, DatasOf
  <2>1. "info" # "entry" /\ "info" # "data" /\ "entry" # "data"
    OBVIOUS
  <2>2. InfosOf(R2) = InfosOf(R)
    <3>1. \A x : x \in InfosOf(R2) <=> x \in DOMAIN R2 /\ R2[x].type = "info"
      BY DEF InfosOf
    <3>. QED BY <1>12, <2>0, <2>1, <3>1
  <2>3. EntriesOf(R2) = EntriesOf(R) \ {e}
    <3>1. \A x : x \in EntriesOf(R2) <=> x \in DOMAIN R2 /\ R2[x].type = "entry"
      BY DEF EntriesOf
    <3>. QED BY <1>12, <2>0, <2>1, <3>1
  <2>4. DatasOf(R2) = DatasOf(R)
    <3>1. \A x : x \in DatasOf(R2) <=> x \in DOMAIN R2 /\ R2[x].type = "data"
      BY DEF DatasOf
    <3>. QED BY <1>12, <2>0, <2>1, <3>1
  <2>. QED BY <2>2, <2>3, <2>4
<1>14. Nodes(R2)
  <2>1. \A x \in DOMAIN R2 : x \in Addr /\ (R2[x] \in InfoNode \/ R2[x] \in EntryNode \/ R2[x] \in DataNode)
    BY <1>1, <1>11, <1>12
  <2>2. R2 = [x \in DOMAIN R2 |-> R2[x]] /\ DOMAIN R2 \subseteq DOMAIN R \cup {a}
    BY DEF EntryRemoved
  <2>. QED BY <1>0, <2>1, <2>2, NodesAre
<1>15. Datas(R2)
  <2>1. \A g \in EntriesOf(R2) : g \in EntriesOf(R) /\ R2[g].data = R[g].data
    BY <1>11, <1>13
  <2>2. \A g \in EntriesOf(R2) : R2[g].data # Null => R2[g].data \in DatasOf(R2)
    BY <1>0, <1>13, <2>1 DEF Datas
  <2>3. \A g, h \in EntriesOf(R2) : R2[g].data = R2[h].data /\ R2[g].data # Null => g = h
    BY <1>0, <2>1 DEF Datas
  <2>4. ASSUME NEW x \in DatasOf(R2) PROVE \E g \in EntriesOf(R2) : R2[g].data = x
    <3>1. PICK g \in EntriesOf(R) : R[g].data = x
      BY <1>0, <1>13 DEF Datas
    <3>2. g # e
      BY <1>1, <1>2, <1>13, <3>1
    <3>. QED BY <1>11, <1>13, <3>1, <3>2
  <2>. QED BY <2>2, <2>3, <2>4 DEF Datas
<1>16. PICK l : l = RemoveAt(L[i], k)
  OBVIOUS
<1>17. Removed(EntriesOf(R), L[i], k, l)
  BY <1>3, <1>16, RemoveFacts
<1>18. /\ DOMAIN l = 1..(n - 1) /\ l \in Seq(EntriesOf(R))
       /\ \A m \in 1..(k - 1) : l[m] = L[i][m]
       /\ \A m \in k..(n - 1) : l[m] = L[i][m + 1]
  BY <1>5, <1>17 DEF Removed
<1>19. /\ \A m \in DOMAIN l : m < k => m \in DOMAIN L[i] /\ l[m] = L[i][m] /\ m # k
       /\ \A m \in DOMAIN l : m >= k => m + 1 \in DOMAIN L[i] /\ l[m] = L[i][m + 1] /\ m + 1 # k
       /\ \A m \in DOMAIN L[i] : m < k => m \in DOMAIN l /\ l[m] = L[i][m]
       /\ \A m \in DOMAIN L[i] : m > k => m - 1 \in DOMAIN l /\ l[m - 1] = L[i][m]
  <2>1. ASSUME NEW m \in DOMAIN l, m < k PROVE m \in DOMAIN L[i] /\ l[m] = L[i][m] /\ m # k
    <3>1. m \in 1..(k - 1) /\ m \in 1..n /\ m # k
      BY <1>6, <1>18, <2>1
    <3>. QED BY <1>6, <1>18, <3>1
  <2>2. ASSUME NEW m \in DOMAIN l, m >= k PROVE m + 1 \in DOMAIN L[i] /\ l[m] = L[i][m + 1] /\ m + 1 # k
    <3>1. m \in k..(n - 1) /\ m + 1 \in 1..n /\ m + 1 # k
      BY <1>6, <1>18, <2>2
    <3>. QED BY <1>6, <1>18, <3>1
  <2>3. ASSUME NEW m \in DOMAIN L[i], m < k PROVE m \in DOMAIN l /\ l[m] = L[i][m]
    <3>1. m \in 1..(k - 1) /\ m \in 1..(n - 1)
      BY <1>6, <2>3
    <3>. QED BY <1>18, <3>1
  <2>4. ASSUME NEW m \in DOMAIN L[i], m > k PROVE m - 1 \in DOMAIN l /\ l[m - 1] = L[i][m]
    <3>1. m - 1 \in k..(n - 1) /\ m - 1 \in 1..(n - 1) /\ (m - 1) + 1 = m
      BY <1>6, <2>4
    <3>. QED BY <1>18, <3>1
  <2>. QED BY <2>1, <2>2, <2>3, <2>4
<1>20. \A m \in DOMAIN l : \E x \in DOMAIN L[i] : l[m] = L[i][x] /\ x # k
  <2>1. \A m \in DOMAIN l : m < k \/ m >= k
    BY <1>6, <1>18
  <2>. QED BY <1>19, <2>1
<1>21. \A x \in DOMAIN L[i] : x # k => \E m \in DOMAIN l : l[m] = L[i][x]
  <2>1. \A x \in DOMAIN L[i] : x < k \/ x > k \/ x = k
    BY <1>6
  <2>. QED BY <1>19, <2>1
<1>22. l \in Seq(EntriesOf(R2))
  <2>1. \A m \in DOMAIN l : l[m] \in EntriesOf(R2)
    BY <1>3, <1>7, <1>13, <1>20
  <2>2. \A X, Y, s : s \in Seq(X) /\ (\A m \in DOMAIN s : s[m] \in Y) => s \in Seq(Y)
    <3>1. \A X, s : s \in Seq(X) => Len(s) \in Nat /\ DOMAIN s = 1..Len(s) /\ s \in [1..Len(s) -> X]
      OBVIOUS
    <3>2. \A Y, s, m : m \in Nat /\ s \in [1..m -> Y] => s \in Seq(Y)
      OBVIOUS
    <3>. QED BY <3>1, <3>2
  <2>. QED BY <1>18, <2>1, <2>2
<1>23. \A m \in DOMAIN L[i] : R[L[i][m]].next = At(L[i], m + 1)
  BY <1>0 DEF Lists
<1>24. R2[i].array = At(l, 1)
  <2>1. CASE k = 1
    <3>1. At(L[i], 2) = At(l, 1)
      <4>1. CASE 2 \in DOMAIN L[i]
        <5>1. 2 > k /\ 2 - 1 = 1
          BY <2>1
        <5>. QED BY <1>19, <4>1, <5>1 DEF At
      <4>2. CASE 2 \notin DOMAIN L[i]
        <5>1. 1 \notin DOMAIN l
          BY <1>6, <1>18, <4>2
        <5>. QED BY <4>2, <5>1 DEF At
      <4>. QED BY <4>1, <4>2
    <3>. QED BY <1>9, <1>11, <2>1, <3>1
  <2>2. CASE k # 1
    <3>1. 1 < k /\ 1 \in DOMAIN L[i]
      BY <1>6, <2>2
    <3>2. R[i].array = At(L[i], 1)
      BY <1>0 DEF Lists
    <3>. QED BY <1>11, <1>19, <2>2, <3>1, <3>2 DEF At
  <2>. QED BY <2>1, <2>2
<1>25. ASSUME NEW m \in DOMAIN l PROVE R2[l[m]].next = At(l, m + 1)
  <2>0. m \in Nat /\ m \in 1..(n - 1)
    BY <1>6, <1>18
  <2>1. CASE m < k - 1
    <3>1. m < k /\ m + 1 < k /\ m # k - 1 /\ m + 1 \in DOMAIN L[i]
      BY <1>6, <2>0, <2>1
    <3>2. m \in DOMAIN L[i] /\ l[m] = L[i][m] /\ m # k /\ m + 1 \in DOMAIN l /\ l[m + 1] = L[i][m + 1]
      BY <1>19, <3>1
    <3>3. R2[L[i][m]].next = R[L[i][m]].next
      BY <1>11, <3>1, <3>2
    <3>. QED BY <1>23, <3>1, <3>2, <3>3 DEF At
  <2>2. CASE m = k - 1
    <3>1. m < k /\ m + 1 = k
      BY <1>6, <2>2
    <3>2. m \in DOMAIN L[i] /\ l[m] = L[i][m] /\ m # k
      BY <1>19, <3>1
    <3>3. R2[L[i][m]].next = a
      BY <1>11, <2>2, <3>2
    <3>4. At(L[i], k + 1) = At(l, k)
      <4>1. CASE k + 1 \in DOMAIN L[i]
        <5>1. k + 1 > k /\ (k + 1) - 1 = k
          BY <1>6
        <5>. QED BY <1>19, <4>1, <5>1 DEF At
      <4>2. CASE k + 1 \notin DOMAIN L[i]
        <5>1. k \notin DOMAIN l
          BY <1>6, <1>18, <4>2
        <5>. QED BY <4>2, <5>1 DEF At
      <4>. QED BY <4>1, <4>2
    <3>. QED BY <1>9, <3>1, <3>2, <3>3, <3>4
  <2>3. CASE m >= k
    <3>1. m + 1 \in DOMAIN L[i] /\ l[m] = L[i][m + 1] /\ m + 1 # k /\ m + 1 # k - 1
      BY <1>6, <1>19, <2>0, <2>3
    <3>2. R2[l[m]].next = At(L[i], (m + 1) + 1)
      BY <1>11, <1>23, <3>1
    <3>3. At(L[i], (m + 1) + 1) = At(l, m + 1)
      <4>1. CASE (m + 1) + 1 \in DOMAIN L[i]
        <5>1. (m + 1) + 1 > k /\ ((m + 1) + 1) - 1 = m + 1
          BY <1>6, <2>0, <2>3
        <5>. QED BY <1>19, <4>1, <5>1 DEF At
      <4>2. CASE (m + 1) + 1 \notin DOMAIN L[i]
        <5>1. m + 1 \notin DOMAIN l
          BY <1>6, <1>18, <2>0, <4>2
        <5>. QED BY <4>2, <5>1 DEF At
      <4>. QED BY <4>1, <4>2
    <3>. QED BY <3>2, <3>3
  <2>. QED BY <1>6, <2>0, <2>1, <2>2, <2>3
<1>26. ASSUME NEW j \in DOMAIN l, NEW m \in DOMAIN l, j < m PROVE R2[l[j]].name < R2[l[m]].name
  <2>0. j \in Nat /\ m \in Nat
    BY <1>6, <1>18
  <2>1. \A x, y \in DOMAIN L[i] : x < y => R[L[i][x]].name < R[L[i][y]].name
    BY <1>0 DEF Lists
  <2>2. \A x \in DOMAIN L[i] : x # k => R2[L[i][x]].name = R[L[i][x]].name
    BY <1>3, <1>7, <1>11
  <2>3. \E x, y \in DOMAIN L[i] : x # k /\ y # k /\ x < y /\ l[j] = L[i][x] /\ l[m] = L[i][y]
    <3>1. CASE m < k
      <4>1. j < k
        BY <1>6, <1>26, <2>0, <3>1
      <4>. QED BY <1>19, <1>26, <3>1, <4>1
    <3>2. CASE j < k /\ m >= k
      <4>1. j < m + 1
        BY <1>6, <2>0, <3>2
      <4>. QED BY <1>19, <3>2, <4>1
    <3>3. CASE j >= k
      <4>1. j + 1 < m + 1 /\ m >= k
        BY <1>6, <1>26, <2>0, <3>3
      <4>. QED BY <1>19, <3>3, <4>1
    <3>. QED BY <1>6, <2>0, <3>1, <3>2, <3>3
  <2>. QED BY <2>1, <2>2, <2>3
<1>27. Relinked(R, R2, L, i, l)
  <2>1. /\ InfosOf(R2) = InfosOf(R) /\ R2[i].parent = R[i].parent
        /\ \A j \in InfosOf(R) \ {i} : R2[j] = R[j]
    BY <1>11, <1>13
  <2>2. ASSUME NEW j \in InfosOf(R) \ {i}, NEW m \in DOMAIN L[j]
        PROVE  /\ L[j][m] \in EntriesOf(R2) /\ R2[L[j][m]] = R[L[j][m]]
               /\ \A y \in DOMAIN l : l[y] # L[j][m]
    <3>1. L[j][m] \in EntriesOf(R) /\ L[j][m] # e
      BY <1>3, <1>7
    <3>3. \A x \in DOMAIN L[i] : L[i][x] # L[j][m]
      BY <1>0 DEF Lists
    <3>. QED BY <1>11, <1>13, <1>20, <3>1, <3>3
  <2>3. ASSUME NEW g \in EntriesOf(R2), ~ (\E m \in DOMAIN l : l[m] = g)
        PROVE  g \in EntriesOf(R) /\ \A x \in DOMAIN L[i] : L[i][x] # g
    <3>1. g # e /\ g \in EntriesOf(R)
      BY <1>13
    <3>2. L[i][k] = e
      BY <1>2
    <3>. QED BY <1>21, <2>3, <3>1, <3>2
  <2>4. ASSUME NEW m \in DOMAIN l
        PROVE  \E x \in DOMAIN L[i] : /\ L[i][x] = l[m] /\ R2[l[m]].name = R[L[i][x]].name
                                      /\ R2[l[m]].child = R[L[i][x]].child
    <3>2. PICK x \in DOMAIN L[i] : l[m] = L[i][x] /\ x # k
      BY <1>20
    <3>3. R2[L[i][x]].name = R[L[i][x]].name /\ R2[L[i][x]].child = R[L[i][x]].child
      BY <1>3, <1>7, <1>11, <3>2
    <3>. QED BY <3>2, <3>3
  <2>5. ASSUME NEW x \in DOMAIN L[i], R[L[i][x]].child # Null
        PROVE  \E m \in DOMAIN l : l[m] = L[i][x] /\ R2[l[m]].child = R[L[i][x]].child
    <3>0. x # k
      BY <2>5
    <3>1. PICK m \in DOMAIN l : l[m] = L[i][x]
      BY <1>21, <3>0
    <3>2. R2[L[i][x]].child = R[L[i][x]].child
      BY <1>3, <1>7, <1>11, <3>0
    <3>. QED BY <3>1, <3>2
  <2>. QED BY <1>22, <1>24, <1>25, <1>26, <2>1, <2>2, <2>3, <2>4, <2>5, Zenon DEF Relinked
<1>28. Forest(R2, L2, P)
  BY <1>14, <1>15, <1>16, <1>27, ListRelinked
<1>29. L2[i] = RemoveAt(L[i], k) /\ \A j \in InfosOf(R) \ {i} : L2[j] = L[j]
  BY <1>0 DEF Lists
<1>30. \A g \in EntriesOf(R) \ {e} : PayloadAt(R2, g) = PayloadAt(R, g) /\ R2[g].name = R[g].name
  BY <1>0, <1>11 DEF PayloadAt, Datas
<1>. QED BY <1>2, <1>11, <1>13, <1>28, <1>29, <1>30

-----------------------------------------------------------------------------
(* Changes of the records through the iterator on top.                      *)

(* The arrays above i, and their entries, stay.                             *)
KeepsAbove(R, L, P, i, R2, L2, P2) ==
  \A j \in InfosOf(R) : Len(P[j]) < Len(P[i]) =>
    /\ j \in InfosOf(R2) /\ R2[j] = R[j] /\ P2[j] = P[j] /\ L2[j] = L[j]
    /\ \A m \in DOMAIN L[j] : R2[L[j][m]] = R[L[j][m]]

(* What an iterator that fits can be relied on for.                         *)
Reliable(R, L, P, f) ==
  /\ f.infoAddr \in InfosOf(R) /\ f.info = R[f.infoAddr] /\ f.path = P[f.infoAddr]
  /\ f.entries \in Seq(EntryNode) /\ DOMAIN f.entries = DOMAIN L[f.infoAddr]
  /\ DOMAIN f.entries = 1..Len(f.entries) /\ Len(f.entries) = Len(L[f.infoAddr])
  /\ \A k \in DOMAIN f.entries :
       /\ f.entries[k].name = R[L[f.infoAddr][k]].name
       /\ f.entries[k].child = R[L[f.infoAddr][k]].child
       /\ f.entries[k].next = R[L[f.infoAddr][k]].next
       /\ f.call = "edit" => f.entries[k] = R[L[f.infoAddr][k]]
       /\ f.call = "fco" /\ k = f.iter => f.entries[k] = R[L[f.infoAddr][k]]
  /\ ~ Done(f) => /\ f.iter \in DOMAIN f.entries
                  /\ CurrentAddr(f) = L[f.infoAddr][f.iter]
                  /\ PathOf(f) = PathAt(R, L, P, f.infoAddr, f.iter)

(* The copies that an edit's iterator uses are as they are on disk.         *)
LEMMA IteratorIsReliable ==
  ASSUME NEW R, NEW L, NEW P, Forest(R, L, P), NEW C, NEW f \in IterShape, Fits(R, L, P, C, f)
  PROVE  Reliable(R, L, P, f)
<1>1. f.info = R[f.infoAddr] /\ f.path = P[f.infoAddr] /\ Len(f.entries) = Len(L[f.infoAddr])
  BY DEF Fits
<1>. QED BY <1>1, IteratorFacts DEF Reliable

(* An iterator whose array is above the changed one still fits.             *)
LEMMA AboveFits ==
  ASSUME NEW R, NEW L, NEW P, Forest(R, L, P), NEW C, NEW g \in IterShape, Fits(R, L, P, C, g),
         NEW i, NEW R2, NEW L2, NEW P2, KeepsAbove(R, L, P, i, R2, L2, P2), Len(g.path) < Len(P[i])
  PROVE  Fits(R2, L2, P2, C, g)
<1>1. g.infoAddr \in InfosOf(R) /\ g.info = R[g.infoAddr] /\ g.path = P[g.infoAddr]
  BY DEF Fits
<1>2. PICK j : j = g.infoAddr
  OBVIOUS
<1>3. /\ j \in InfosOf(R2) /\ R2[j] = R[j] /\ P2[j] = P[j] /\ L2[j] = L[j]
      /\ \A m \in DOMAIN L[j] : R2[L[j][m]] = R[L[j][m]]
  BY <1>1, <1>2 DEF KeepsAbove
<1>4. DOMAIN g.entries = DOMAIN L[g.infoAddr]
  BY IteratorFacts
<1>5. \A m \in DOMAIN g.entries : Copies(C, g, m, R2[L2[j][m]])
  BY <1>2, <1>3, <1>4 DEF Fits
<1>. QED BY <1>1, <1>2, <1>3, <1>5 DEF Fits

(* An edit keeps the invariant if the top iterator fits the new records and *)
(* the arrays above are as they were.                                       *)
LEMMA EditHolds ==
  ASSUME NEW L, NEW P, TreeHolds(L, P), checked' = checked, Top.call # "dir",
         NEW L2, NEW P2, Forest(records', L2, P2),
         KeepsAbove(records, L, P, Top.infoAddr, records', L2, P2),
         NEW f \in IterShape, Fits(records', L2, P2, checked, f),
         f.infoAddr = Top.infoAddr, f.call = Top.call, f.path = Top.path,
         Top.call = "fco" =>
           /\ f.iter = Top.iter /\ f.iter <= Len(f.entries) /\ PathOf(f) = PathOf(Top)
           /\ \A g \in IterShape : Fits(records, L, P, checked, g) /\ g.infoAddr = Top.infoAddr /\ g.call = "dir"
                => Fits(records', L2, P2, checked, g),
         iters' = [iters EXCEPT ![Len(iters)] = f]
  PROVE  TreeHolds(L2, P2)'
<1>0. PICK n : n = Len(iters)
  OBVIOUS
<1>1. /\ n \in Nat \ {0} /\ n \in DOMAIN iters /\ DOMAIN iters = 1..n
      /\ iters \in Seq(IterShape) /\ Top = iters[n]
      /\ Top \in IterShape /\ Fits(records, L, P, checked, Top) /\ Forest(records, L, P)
  BY <1>0, TopFacts
<1>2. Nested(iters, checked) /\ \A m \in DOMAIN iters : Fits(records, L, P, checked, iters[m]) /\ iters[m] \in IterShape
  BY <1>1 DEF TreeHolds
<1>3. /\ iters' \in Seq(IterShape) /\ Len(iters') = n /\ DOMAIN iters' = DOMAIN iters
      /\ iters'[n] = f /\ \A m \in DOMAIN iters : m # n => iters'[m] = iters[m]
  BY <1>0, <1>1
<1>4. Top.path = P[Top.infoAddr]
  BY <1>1 DEF Fits
<1>5. \A m \in DOMAIN iters : m # n =>
        Len(iters[m].path) < Len(P[Top.infoAddr]) \/ (m = n - 1 /\ Top.call = "fco")
  <2>1. \A m \in DOMAIN iters : m # n => m < n
    BY <1>1
  <2>. QED BY <1>1, <1>2, <1>4, <2>1 DEF Nested
<1>6. ASSUME NEW m \in DOMAIN iters', TRUE PROVE Fits(records', L2, P2, checked, iters'[m])
  <2>1. CASE m = n
    BY <1>3, <2>1
  <2>2. CASE m # n
    <3>1. m \in DOMAIN iters /\ iters'[m] = iters[m]
      BY <1>3, <2>2
    <3>2. CASE Len(iters[m].path) < Len(P[Top.infoAddr])
      BY <1>1, <1>2, <3>1, <3>2, AboveFits
    <3>3. CASE m = n - 1 /\ Top.call = "fco"
      <4>1. iters[m].call = "dir" /\ iters[m].infoAddr = Top.infoAddr
        BY <1>1, <1>2, <3>3 DEF Nested
      <4>. QED BY <1>2, <3>1, <3>3, <4>1
    <3>. QED BY <1>5, <2>2, <3>1, <3>2, <3>3
  <2>. QED BY <2>1, <2>2
<1>7. Nested(iters', checked)
  <2>. USE DEF Nested
  <2>1. iters' # <<>>
    BY <1>1, <1>3
  <2>2. \A m \in DOMAIN iters : /\ iters'[m].call = iters[m].call /\ iters'[m].path = iters[m].path
                                /\ iters'[m].infoAddr = iters[m].infoAddr
                                /\ iters[m].call = "fco" => /\ iters'[m].iter = iters[m].iter
                                                            /\ PathOf(iters'[m]) = PathOf(iters[m])
                                                            /\ iters'[m].iter <= Len(iters'[m].entries)
    <3>1. ASSUME NEW m \in DOMAIN iters, m # n
          PROVE  iters'[m] = iters[m] /\ (iters[m].call = "fco" => iters[m].iter <= Len(iters[m].entries))
      BY <1>2, <1>3, <3>1
    <3>2. /\ iters'[n].call = iters[n].call /\ iters'[n].path = iters[n].path
          /\ iters'[n].infoAddr = iters[n].infoAddr
          /\ iters[n].call = "fco" => /\ iters'[n].iter = iters[n].iter
                                      /\ PathOf(iters'[n]) = PathOf(iters[n])
                                      /\ iters'[n].iter <= Len(iters'[n].entries)
      BY <1>1, <1>3
    <3>. QED BY <3>1, <3>2
  <2>3. iters'[1].call # "fco"
    BY <1>1, <1>2, <2>2
  <2>4. ASSUME NEW m \in DOMAIN iters', iters'[m].call = "fco"
        PROVE  /\ iters'[m].iter <= Len(iters'[m].entries) /\ PathOf(iters'[m]) \in checked
               /\ iters'[m - 1].call = "dir" /\ iters'[m - 1].infoAddr = iters'[m].infoAddr
               /\ iters'[m - 1].iter = iters'[m].iter
    <3>1. m \in DOMAIN iters /\ iters[m].call = "fco"
      BY <1>3, <2>2, <2>4
    <3>2. m # 1
      BY <1>2, <3>1
    <3>3. m - 1 \in DOMAIN iters /\ m - 1 # n
      BY <1>1, <3>1, <3>2
    <3>4. iters'[m - 1] = iters[m - 1]
      BY <1>3, <3>3
    <3>5. /\ iters[m - 1].call = "dir" /\ iters[m - 1].infoAddr = iters[m].infoAddr
          /\ iters[m - 1].iter = iters[m].iter /\ PathOf(iters[m]) \in checked
      BY <1>2, <3>1
    <3>. QED BY <2>2, <3>1, <3>4, <3>5
  <2>5. \A m, x \in DOMAIN iters' : iters'[m].call = "edit" => iters'[x].call = "edit"
    BY <1>2, <1>3, <2>2
  <2>6. \A m, x \in DOMAIN iters' : m < x =>
          Len(iters'[m].path) < Len(iters'[x].path) \/ (m = x - 1 /\ iters'[x].call = "fco")
    BY <1>2, <1>3, <2>2
  <2>. QED BY <1>3, <2>1, <2>3, <2>4, <2>5, <2>6
<1>. QED BY <1>6, <1>7 DEF TreeHolds

(* The current entry is rewritten on disk and in the iterator's own copy.   *)
LEMMA UpdateHolds ==
  ASSUME NEW L, NEW P, TreeHolds(L, P), checked' = checked, Top.call # "dir", ~ Done(Top),
         NEW L2, NEW P2, Forest(records', L2, P2),
         KeepsAbove(records, L, P, Top.infoAddr, records', L2, P2),
         Top.infoAddr \in InfosOf(records'), records'[Top.infoAddr] = records[Top.infoAddr],
         L2[Top.infoAddr] = L[Top.infoAddr], P2[Top.infoAddr] = P[Top.infoAddr],
         \A m \in DOMAIN L[Top.infoAddr] : m # Top.iter =>
           records'[L[Top.infoAddr][m]] = records[L[Top.infoAddr][m]],
         NEW entry \in EntryNode, records'[L[Top.infoAddr][Top.iter]] = entry,
         entry.name = records[L[Top.infoAddr][Top.iter]].name,
         Top.call = "fco" => \E d : entry = [records[L[Top.infoAddr][Top.iter]] EXCEPT !.data = d],
         SetTop([Top EXCEPT !.entries[Top.iter] = entry])
  PROVE  TreeHolds(L2, P2)'
<1>. DEFINE i == Top.infoAddr
            k == Top.iter
<1>1. /\ Len(iters) \in DOMAIN iters /\ DOMAIN iters = 1..Len(iters) /\ Top = iters[Len(iters)]
      /\ Top \in IterShape /\ Fits(records, L, P, checked, Top) /\ Forest(records, L, P)
  BY Zenon, TopFacts
<1>b. Reliable(records, L, P, Top)
  BY ZenonT(30), <1>1, IteratorIsReliable
<1>2. i \in InfosOf(records) /\ Top.info = records[i] /\ Top.path = P[i]
  BY Zenon, <1>1 DEF Fits
<1>3. Top.entries \in Seq(EntryNode) /\ DOMAIN Top.entries = DOMAIN L[i]
  BY <1>b DEF Reliable
<1>4. k \in DOMAIN Top.entries
  BY <1>b DEF Reliable
<1>5. PICK entries : entries = [Top.entries EXCEPT ![k] = entry]
  OBVIOUS
<1>6. PICK f : f = [Top EXCEPT !.entries = entries]
  OBVIOUS
<1>7. iters' = [iters EXCEPT ![Len(iters)] = f]
  BY <1>5, <1>6 DEF SetTop
<1>8. /\ entries \in Seq(EntryNode) /\ DOMAIN entries = DOMAIN Top.entries /\ Len(entries) = Len(Top.entries)
      /\ entries[k] = entry /\ \A m \in DOMAIN Top.entries : m # k => entries[m] = Top.entries[m]
  <2>. HIDE DEF k
  <2>. QED BY SMTT(30), <1>3, <1>4, <1>5
<1>9. /\ f \in IterShape /\ f.info = Top.info /\ f.infoAddr = i /\ f.entries = entries /\ f.iter = k
      /\ f.path = Top.path /\ f.call = Top.call
  BY ZenonT(30), <1>1, <1>6, <1>8 DEF IterShape
<1>10. \A m \in DOMAIN Top.entries : Copies(checked, Top, m, records[L[i][m]])
  BY ZenonT(30), <1>1 DEF Fits
<1>11. Top.iter <= Len(Top.entries) + 1 /\ Len(Top.entries) = Len(L[i])
  BY Zenon, <1>1 DEF Fits
<1>12. records'[L[i][k]] = entry
  OBVIOUS
<1>13. \A m \in DOMAIN Top.entries : m # k => records'[L[i][m]] = records[L[i][m]]
  BY <1>3
<1>a. /\ i \in InfosOf(records') /\ records'[i] = records[i] /\ L2[i] = L[i] /\ P2[i] = P[i]
  OBVIOUS
<1>. HIDE DEF i, k
<1>14. Fits(records', L2, P2, checked, f)
  <2>1. ASSUME NEW m \in DOMAIN f.entries PROVE Copies(checked, f, m, records'[L2[i][m]])
    <3>1. CASE m = k
      BY <1>8, <1>9, <1>12, <1>a, <3>1 DEF Copies
    <3>2. CASE m # k
      <4>1. Copies(checked, Top, m, records[L[i][m]]) /\ records'[L2[i][m]] = records[L[i][m]]
            /\ f.entries[m] = Top.entries[m]
        BY <1>8, <1>9, <1>10, <1>13, <1>a, <3>2
      <4>. QED BY <1>9, <4>1 DEF Copies, k
    <3>. QED BY <3>1, <3>2
  <2>2. f.iter <= Len(f.entries) + 1 /\ Len(f.entries) = Len(L2[i])
    BY Zenon, <1>8, <1>9, <1>11, <1>a DEF k
  <2>. QED BY <1>2, <1>9, <1>a, <2>1, <2>2 DEF Fits
<1>15. ASSUME Top.call = "fco"
       PROVE  /\ f.iter = Top.iter /\ f.iter <= Len(f.entries) /\ PathOf(f) = PathOf(Top)
              /\ \A g \in IterShape :
                   Fits(records, L, P, checked, g) /\ g.infoAddr = Top.infoAddr /\ g.call = "dir"
                     => Fits(records', L2, P2, checked, g)
  <2>1. Top.entries[k].name = records[L[i][k]].name
    BY Zenon, <1>4, <1>b DEF Reliable, i
  <2>2. PathOf(f) = PathOf(Top) /\ PathOf(f) = Append(P[i], entry.name)
    BY Zenon, <1>2, <1>8, <1>9, <2>1 DEF PathOf, Current, i, k
  <2>3. PathOf(Top) \in checked
    BY Zenon, <1>1, <1>15 DEF TreeHolds, Nested
  <2>4. f.iter = Top.iter /\ f.iter <= Len(f.entries)
    <3>1. k <= Len(Top.entries)
      BY <1>3, <1>4
    <3>. QED BY <1>8, <1>9, <3>1 DEF k
  <2>5. PICK d : entry = [records[L[i][k]] EXCEPT !.data = d]
    BY <1>15 DEF i, k
  <2>6. ASSUME NEW g \in IterShape, Fits(records, L, P, checked, g), g.infoAddr = i, g.call = "dir"
        PROVE  Fits(records', L2, P2, checked, g)
    <3>1. DOMAIN g.entries = DOMAIN L[i]
      <4>1. Reliable(records, L, P, g)
        BY Zenon, <1>1, <2>6, IteratorIsReliable
      <4>. QED BY Zenon, <2>6, <4>1 DEF Reliable
    <3>2. g.path = P[i] /\ g.info = records[i] /\ Len(g.entries) = Len(L[i]) /\ g.iter <= Len(g.entries) + 1
      BY <2>6 DEF Fits
    <3>3. ASSUME NEW m \in DOMAIN g.entries PROVE Copies(checked, g, m, records'[L2[i][m]])
      <4>1. Copies(checked, g, m, records[L[i][m]])
        BY <2>6 DEF Fits
      <4>2. CASE m # k
        BY <1>3, <1>13, <1>a, <3>1, <4>1, <4>2
      <4>3. CASE m = k
        <5>1. Append(g.path, entry.name) \in checked
          BY Zenon, <2>2, <2>3, <3>2
        <5>2. records[L[i][k]] \in EntryNode
          BY Zenon, <1>1, <1>2, <1>3, <1>4, OnePlace DEF Forest
        <5>3. \A x \in EntryNode : \A c, b : [[x EXCEPT !.data = c] EXCEPT !.data = b] = [x EXCEPT !.data = b]
          BY DEF EntryNode
        <5>4. \A x \in EntryNode : [x EXCEPT !.data = x.data] = x
          BY DEF EntryNode
        <5>5. g.entries[k] = [records[L[i][k]] EXCEPT !.data = g.entries[k].data]
          <6>1. g.entries[k] = records[L[i][k]] \/ g.entries[k] = [records[L[i][k]] EXCEPT !.data = g.entries[k].data]
            BY <4>1, <4>3 DEF Copies
          <6>. QED BY <5>2, <5>4, <6>1
        <5>6. PICK b : b = g.entries[k].data
          BY Zenon
        <5>7. [entry EXCEPT !.data = b] = [records[L[i][k]] EXCEPT !.data = b]
          BY Zenon, <2>5, <5>2, <5>3
        <5>8. g.entries[k] = [entry EXCEPT !.data = g.entries[k].data]
          BY <5>5, <5>6, <5>7
        <5>. QED BY <1>12, <1>a, <2>6, <4>3, <5>1, <5>8 DEF Copies
      <4>. QED BY <4>2, <4>3
    <3>. QED BY <1>a, <2>6, <3>2, <3>3 DEF Fits
  <2>. QED BY Zenon, <2>2, <2>4, <2>6 DEF i
<1>. QED BY Zenon, <1>1, <1>7, <1>9, <1>14, <1>15, EditHolds DEF i

(* The entry that the iterator on top is at.                                *)
CurrentIs(L, P, i, k, e) ==
  /\ Forest(records, L, P) /\ i = Top.infoAddr /\ k = Top.iter
  /\ i \in InfosOf(records) /\ k \in DOMAIN L[i] /\ e = L[i][k]
  /\ e \in EntriesOf(records) /\ e \in DOMAIN records /\ records[e] \in EntryNode
  /\ CurrentAddr(Top) = e /\ PathOf(Top) = PathAt(records, L, P, i, k)
  /\ Top.call # "dir" => Current(Top) = records[e]

(* The entry an iterator is at, and the address that its own copies give    *)
(* it.                                                                      *)
LEMMA CurrentFacts ==
  ASSUME NEW L, NEW P, TreeHolds(L, P), ~ Done(Top)
  PROVE  CurrentIs(L, P, Top.infoAddr, Top.iter, L[Top.infoAddr][Top.iter])
<1>1. Top \in IterShape /\ Fits(records, L, P, checked, Top) /\ Forest(records, L, P)
  BY TopFacts
<1>2. Reliable(records, L, P, Top)
  BY <1>1, IteratorIsReliable
<1>3. Top.infoAddr \in InfosOf(records) /\ Top.iter \in DOMAIN L[Top.infoAddr]
  BY <1>2 DEF Reliable
<1>4. L[Top.infoAddr][Top.iter] \in EntriesOf(records) /\ records[L[Top.infoAddr][Top.iter]] \in EntryNode
  BY <1>1, <1>3, OnePlace DEF Forest
<1>5. Top.call # "dir" => Top.call = "edit" \/ Top.call = "fco"
  BY <1>1 DEF IterShape
<1>6. Top.call # "dir" => Current(Top) = records[L[Top.infoAddr][Top.iter]]
  BY <1>2, <1>5 DEF Reliable, Current
<1>7. L[Top.infoAddr][Top.iter] \in DOMAIN records
  BY <1>4 DEF EntriesOf
<1>8. CurrentAddr(Top) = L[Top.infoAddr][Top.iter]
      /\ PathOf(Top) = PathAt(records, L, P, Top.infoAddr, Top.iter)
  BY <1>2 DEF Reliable
<1>. QED BY <1>1, <1>3, <1>4, <1>6, <1>7, <1>8 DEF CurrentIs

LEMMA CreateChildArrayWrites ==
  ASSUME NEW L, NEW P, TreeHolds(L, P), NEW a \in Addr, CreateChildArray(a),
         NEW i, NEW k, NEW e, CurrentIs(L, P, i, k, e)
  PROVE  /\ ChildAdded(records, records', i, e, a)
         /\ records[e].child = Null /\ Len(PathAt(records, L, P, i, k)) < MaxDepth
         /\ records'[e] \in EntryNode /\ records'[e].name = records[e].name
         /\ SetTop([Top EXCEPT !.entries[Top.iter] = records'[e]])
<1>1. Current(Top) = records[e] /\ a \notin DOMAIN records /\ ~ CanDescend(Top) /\ ~ Done(Top)
  BY DEF CreateChildArray, CurrentIs, Edits, Used
<1>2. PICK entry : entry = [records[e] EXCEPT !.child = a]
  OBVIOUS
<1>3. PICK recs : recs = Add(records, a, ArrayInfo(Top.infoAddr, Null))
  OBVIOUS
<1>4. records' = Rewrite(recs, e, entry) /\ SetTop([Top EXCEPT !.entries[Top.iter] = entry])
  BY <1>1, <1>2, <1>3 DEF CreateChildArray, UpdateCurrent, CurrentIs
<1>5. records[e].child = Null
  BY <1>1 DEF CanDescend
<1>6. /\ DOMAIN recs = DOMAIN records \cup {a} /\ recs[a] = ArrayInfo(Top.infoAddr, Null)
      /\ \A x \in DOMAIN records \ {a} : recs[x] = records[x]
  BY <1>3 DEF Add, Drop
<1>7. e \in DOMAIN records /\ e # a /\ e \in DOMAIN recs
  BY <1>1, <1>6 DEF CurrentIs
<1>8. /\ DOMAIN records' = DOMAIN recs /\ records' = [x \in DOMAIN records' |-> records'[x]]
      /\ records'[e] = entry /\ \A x \in DOMAIN recs \ {e} : records'[x] = recs[x]
  BY <1>4, <1>7 DEF Rewrite
<1>9. ChildAdded(records, records', i, e, a)
  BY <1>1, <1>2, <1>6, <1>7, <1>8 DEF ChildAdded, CurrentIs
<1>10. entry \in EntryNode /\ entry.name = records[e].name
  BY <1>2 DEF CurrentIs, EntryNode, Link
<1>11. Len(PathAt(records, L, P, i, k)) < MaxDepth
  BY DEF CreateChildArray, CurrentIs
<1>. QED BY <1>4, <1>5, <1>8, <1>9, <1>10, <1>11

LEMMA DeleteChildArrayWrites ==
  ASSUME NEW L, NEW P, TreeHolds(L, P), DeleteChildArray,
         NEW i, NEW k, NEW e, CurrentIs(L, P, i, k, e)
  PROVE  /\ ChildDropped(records, records', e)
         /\ records[e].child # Null /\ records[records[e].child].array = Null
         /\ records'[e] \in EntryNode /\ records'[e].name = records[e].name
         /\ SetTop([Top EXCEPT !.entries[Top.iter] = records'[e]])
<1>1. Current(Top) = records[e] /\ CanDescend(Top) /\ ~ Done(Top)
  BY DEF DeleteChildArray, CurrentIs, Edits, CanDescend
<1>2. PICK entry : entry = [records[e] EXCEPT !.child = Null]
  OBVIOUS
<1>3. PICK recs : recs = Drop(records, records[e].child)
  OBVIOUS
<1>4. records' = Rewrite(recs, e, entry) /\ SetTop([Top EXCEPT !.entries[Top.iter] = entry])
  BY <1>1, <1>2, <1>3 DEF DeleteChildArray, UpdateCurrent, CurrentIs
<1>5. records[e].child # Null /\ records[records[e].child].array = Null
  BY <1>1 DEF CanDescend, DeleteChildArray, ChildArrayEmpty
<1>6. /\ DOMAIN recs = DOMAIN records \ {records[e].child}
      /\ \A x \in DOMAIN records \ {records[e].child} : recs[x] = records[x]
  BY <1>3 DEF Add, Drop
<1>7. e \in DOMAIN records /\ e # records[e].child /\ e \in DOMAIN recs
  <2>1. records[e].child \in InfosOf(records)
    BY SMTT(30), <1>5 DEF CurrentIs, Forest, Paths
  <2>2. InfosOf(records) \cap EntriesOf(records) = {}
    BY NodeKinds DEF CurrentIs, Forest
  <2>. QED BY <1>6, <2>1, <2>2 DEF CurrentIs
<1>8. /\ DOMAIN records' = DOMAIN recs /\ records' = [x \in DOMAIN records' |-> records'[x]]
      /\ records'[e] = entry /\ \A x \in DOMAIN recs \ {e} : records'[x] = recs[x]
  BY <1>4, <1>7 DEF Rewrite
<1>9. ChildDropped(records, records', e)
  BY <1>2, <1>6, <1>7, <1>8 DEF ChildDropped
<1>10. entry \in EntryNode /\ entry.name = records[e].name
  BY <1>2 DEF CurrentIs, EntryNode, Link
<1>. QED BY <1>4, <1>5, <1>8, <1>9, <1>10

LEMMA RemoveDataWrites ==
  ASSUME NEW L, NEW P, TreeHolds(L, P), RemoveData,
         NEW i, NEW k, NEW e, CurrentIs(L, P, i, k, e)
  PROVE  /\ PayloadChange(records, records', e, Null)
         /\ records'[e] \in EntryNode /\ records'[e].name = records[e].name
         /\ records'[e] = [records[e] EXCEPT !.data = Null]
         /\ SetTop([Top EXCEPT !.entries[Top.iter] = records'[e]])
<1>1. Current(Top) = records[e] /\ HasData(Top)
  BY DEF RemoveData, CurrentIs
<1>2. PICK entry : entry = [records[e] EXCEPT !.data = Null]
  OBVIOUS
<1>3. PICK recs : recs = Drop(records, records[e].data)
  OBVIOUS
<1>4. records' = Rewrite(recs, e, entry) /\ SetTop([Top EXCEPT !.entries[Top.iter] = entry])
  BY <1>1, <1>2, <1>3 DEF RemoveData, UpdateCurrent, CurrentIs
<1>6. /\ DOMAIN recs = DOMAIN records \ {records[e].data}
      /\ \A x \in DOMAIN records \ {records[e].data} : recs[x] = records[x]
  BY <1>3 DEF Add, Drop
<1>7. e \in DOMAIN records /\ e # records[e].data /\ e \in DOMAIN recs /\ Null \notin DOMAIN records
  <2>1. records[e].data # Null => records[e].data \in DatasOf(records)
    BY DEF CurrentIs, Forest, Datas
  <2>2. EntriesOf(records) \cap DatasOf(records) = {} /\ Null \notin EntriesOf(records)
    BY NodeKinds DEF CurrentIs, Forest
  <2>3. Null \notin DOMAIN records
    BY HierAssumption DEF CurrentIs, Forest, Nodes
  <2>. QED BY <1>6, <2>1, <2>2, <2>3 DEF CurrentIs
<1>8. /\ DOMAIN records' = DOMAIN recs /\ records' = [x \in DOMAIN records' |-> records'[x]]
      /\ records'[e] = entry /\ \A x \in DOMAIN recs \ {e} : records'[x] = recs[x]
  BY <1>4, <1>7 DEF Rewrite
<1>9. PayloadChange(records, records', e, Null)
  BY <1>2, <1>6, <1>7, <1>8 DEF PayloadChange
<1>10. entry \in EntryNode /\ entry.name = records[e].name
  BY <1>2 DEF CurrentIs, EntryNode, Link
<1>. QED BY <1>2, <1>4, <1>8, <1>9, <1>10

LEMMA SetDataWrites ==
  ASSUME NEW L, NEW P, TreeHolds(L, P), NEW d \in TreePayload, NEW a \in Addr, SetData(d, a),
         NEW i, NEW k, NEW e, CurrentIs(L, P, i, k, e)
  PROVE  /\ PayloadChange(records, records', e, a) /\ a # Null /\ records'[a].value = d
         /\ records'[e] \in EntryNode /\ records'[e].name = records[e].name
         /\ records'[e] = [records[e] EXCEPT !.data = a]
         /\ SetTop([Top EXCEPT !.entries[Top.iter] = records'[e]])
<1>1. Current(Top) = records[e] /\ ~ Done(Top)
  BY DEF SetData, CurrentIs
<1>2. PICK entry : entry = [records[e] EXCEPT !.data = a]
  OBVIOUS
<1>3. PICK old : old = IF HasData(Top) THEN Drop(records, Current(Top).data) ELSE records
  OBVIOUS
<1>a. PICK recs : recs = Add(old, a, Data(d))
  OBVIOUS
<1>4. /\ records' = Rewrite(recs, e, entry) /\ SetTop([Top EXCEPT !.entries[Top.iter] = entry])
      /\ a \notin DOMAIN old
  BY <1>1, <1>2, <1>3, <1>a DEF SetData, UpdateCurrent, CurrentIs
<1>5. Null \notin DOMAIN records /\ a # Null
  BY HierAssumption DEF CurrentIs, Forest, Nodes
<1>6. /\ DOMAIN old = DOMAIN records \ {records[e].data}
      /\ \A x \in DOMAIN records \ {records[e].data} : old[x] = records[x]
  <2>1. CASE HasData(Top)
    <3>1. old = Drop(records, records[e].data)
      BY <1>1, <1>3, <2>1
    <3>. QED BY <3>1 DEF Drop
  <2>2. CASE ~ HasData(Top)
    <3>1. old = records /\ records[e].data = Null
      BY <1>1, <1>3, <2>2 DEF HasData
    <3>. QED BY <1>5, <3>1
  <2>. QED BY <2>1, <2>2
<1>b. /\ DOMAIN recs = DOMAIN old \cup {a} /\ recs[a] = Data(d)
      /\ \A x \in DOMAIN old \ {a} : recs[x] = old[x]
  BY Zenon, <1>a DEF Add
<1>7. e \in DOMAIN records /\ e # records[e].data /\ e \in DOMAIN old /\ e \in DOMAIN recs /\ e # a
  <2>1. records[e].data # Null => records[e].data \in DatasOf(records)
    BY DEF CurrentIs, Forest, Datas
  <2>2. EntriesOf(records) \cap DatasOf(records) = {}
    BY NodeKinds DEF CurrentIs, Forest
  <2>. QED BY <1>4, <1>5, <1>6, <1>b, <2>1, <2>2 DEF CurrentIs
<1>8. /\ DOMAIN records' = DOMAIN recs /\ records' = [x \in DOMAIN records' |-> records'[x]]
      /\ records'[e] = entry /\ \A x \in DOMAIN recs \ {e} : records'[x] = recs[x]
  BY <1>4, <1>7 DEF Rewrite
<1>c. records'[a] \in DataNode /\ records'[a].value = d
  BY <1>7, <1>8, <1>b DEF Data, DataNode
<1>9. PayloadChange(records, records', e, a)
  <2>1. \A x \in DOMAIN records \ {e, records[e].data} : records'[x] = records[x]
    BY <1>4, <1>6, <1>8, <1>b
  <2>2. DOMAIN records' = (DOMAIN records \ {records[e].data}) \cup ({a} \ {Null})
    BY <1>5, <1>6, <1>8, <1>b
  <2>. QED BY <1>2, <1>4, <1>6, <1>8, <1>c, <2>1, <2>2 DEF PayloadChange
<1>10. entry \in EntryNode /\ entry.name = records[e].name
  BY <1>2 DEF CurrentIs, EntryNode, Link
<1>. QED BY <1>2, <1>4, <1>5, <1>8, <1>9, <1>10, <1>c

(* Rewriting the current entry changes that one record.                     *)
LEMMA CurrentRewritten ==
  ASSUME NEW L, NEW P, TreeHolds(L, P), checked' = checked, Top.call # "dir", ~ Done(Top),
         NEW i, NEW k, NEW e, CurrentIs(L, P, i, k, e),
         NEW L2, NEW P2, Forest(records', L2, P2),
         \A j \in InfosOf(records) : ~ (Len(P[i]) < Len(P[j])) =>
           j \in InfosOf(records') /\ records'[j] = records[j] /\ L2[j] = L[j] /\ P2[j] = P[j],
         \A g \in EntriesOf(records) \ {e} : records'[g] = records[g],
         records'[e] \in EntryNode, records'[e].name = records[e].name,
         Top.call = "fco" => \E d : records'[e] = [records[e] EXCEPT !.data = d],
         SetTop([Top EXCEPT !.entries[Top.iter] = records'[e]])
  PROVE  TreeHolds(L2, P2)'
<1>1. Forest(records, L, P) /\ i \in InfosOf(records) /\ k \in DOMAIN L[i] /\ e = L[i][k]
      /\ i = Top.infoAddr /\ k = Top.iter
  BY DEF CurrentIs
<1>2. ASSUME NEW j \in InfosOf(records), NEW m \in DOMAIN L[j], j # i \/ m # k
      PROVE  records'[L[j][m]] = records[L[j][m]]
  <2>1. L[j][m] \in EntriesOf(records) /\ L[j][m] # e
    BY SMTT(30), <1>1, <1>2, OnePlace DEF Forest
  <2>. QED BY <2>1
<1>3. \A j \in InfosOf(records) : Len(P[j]) \in Nat
  BY <1>1, PathFacts
<1>4. KeepsAbove(records, L, P, i, records', L2, P2)
  <2>1. ASSUME NEW j \in InfosOf(records), Len(P[j]) < Len(P[i])
        PROVE  /\ j \in InfosOf(records') /\ records'[j] = records[j] /\ P2[j] = P[j] /\ L2[j] = L[j]
               /\ \A m \in DOMAIN L[j] : records'[L[j][m]] = records[L[j][m]]
    <3>1. ~ (Len(P[i]) < Len(P[j])) /\ j # i
      BY <1>1, <1>3, <2>1
    <3>. QED BY <1>2, <3>1
  <2>. QED BY <2>1 DEF KeepsAbove
<1>5. i \in InfosOf(records') /\ records'[i] = records[i] /\ L2[i] = L[i] /\ P2[i] = P[i]
  BY SMTT(30), <1>1, <1>3
<1>6. \A m \in DOMAIN L[i] : m # k => records'[L[i][m]] = records[L[i][m]]
  BY <1>1, <1>2
<1>7. PICK entry : entry = records'[e]
  BY Zenon
<1>8. entry \in EntryNode /\ records'[L[i][k]] = entry /\ entry.name = records[L[i][k]].name
  BY Zenon, <1>1, <1>7
<1>9. Top.call = "fco" => \E d : entry = [records[L[i][k]] EXCEPT !.data = d]
  BY Zenon, <1>1, <1>7
<1>10. SetTop([Top EXCEPT !.entries[Top.iter] = entry])
  BY Zenon, <1>7
<1>11. KeepsAbove(records, L, P, Top.infoAddr, records', L2, P2)
  BY Zenon, <1>1, <1>4
<1>12. \A m \in DOMAIN L[Top.infoAddr] : m # Top.iter =>
           records'[L[Top.infoAddr][m]] = records[L[Top.infoAddr][m]]
  BY Zenon, <1>1, <1>6
<1>13. Top.infoAddr \in InfosOf(records') /\ records'[Top.infoAddr] = records[Top.infoAddr]
  /\  L2[Top.infoAddr] = L[Top.infoAddr] /\ P2[Top.infoAddr] = P[Top.infoAddr]
  BY <1>1, <1>5
<1>14.  records'[L[Top.infoAddr][Top.iter]] = entry
  /\     entry.name = records[L[Top.infoAddr][Top.iter]].name
  BY Zenon, <1>1, <1>8
<1>15. Top.call = "fco" => \E d : entry = [records[L[Top.infoAddr][Top.iter]] EXCEPT !.data = d]
  BY Zenon, <1>1, <1>9
<1>. QED BY Zenon, <1>11, <1>12, <1>13, <1>8, <1>14, <1>15, <1>10, UpdateHolds

LEMMA CreateChildArrayHolds ==
  ASSUME NEW L, NEW P, TreeHolds(L, P), NEW a \in Addr, CreateChildArray(a)
  PROVE  TreeInv'
<1>1. ~ Done(Top) /\ Top.call = "edit" /\ checked' = checked
  BY DEF CreateChildArray, Edits
<1>2. PICK i, k, e : CurrentIs(L, P, i, k, e)
  BY <1>1, CurrentFacts
<1>3. Forest(records, L, P) /\ i \in InfosOf(records) /\ k \in DOMAIN L[i] /\ e = L[i][k]
  BY <1>2 DEF CurrentIs
<1>4. /\ ChildAdded(records, records', i, e, a)
      /\ records[e].child = Null /\ Len(PathAt(records, L, P, i, k)) < MaxDepth
      /\ records'[e] \in EntryNode /\ records'[e].name = records[e].name
      /\ SetTop([Top EXCEPT !.entries[Top.iter] = records'[e]])
  BY <1>2, CreateChildArrayWrites
<1>5. PICK L2 : L2 = With(L, InfosOf(records), a, <<>>)
  OBVIOUS
<1>6. PICK P2 : P2 = With(P, InfosOf(records), a, PathAt(records, L, P, i, k))
  OBVIOUS
<1>7. /\ InfosOf(records') = InfosOf(records) \cup {a} /\ a \notin InfosOf(records)
      /\ \A j \in InfosOf(records) : records'[j] = records[j]
      /\ \A g \in EntriesOf(records) \ {e} : records'[g] = records[g]
      /\ Forest(records', L2, P2)
  <2>1. ArrayAdded(records, records', e, a, L2, P2)
    BY <1>3, <1>4, <1>5, <1>6, ChildIsAdded
  <2>. QED BY <2>1 DEF ArrayAdded
<1>8. \A j \in InfosOf(records) : L2[j] = L[j] /\ P2[j] = P[j] /\ j \in InfosOf(records')
  BY <1>5, <1>6, <1>7 DEF With
<1>9. TreeHolds(L2, P2)'
  BY <1>1, <1>2, <1>4, <1>7, <1>8, CurrentRewritten
<1>. QED BY <1>9, Zenon DEF TreeInv

LEMMA DeleteChildArrayHolds ==
  ASSUME NEW L, NEW P, TreeHolds(L, P), DeleteChildArray
  PROVE  TreeInv'
<1>1. ~ Done(Top) /\ Top.call = "edit" /\ checked' = checked
  BY DEF DeleteChildArray, Edits, CanDescend
<1>2. PICK i, k, e : CurrentIs(L, P, i, k, e)
  BY <1>1, CurrentFacts
<1>3. Forest(records, L, P) /\ i \in InfosOf(records) /\ k \in DOMAIN L[i] /\ e = L[i][k]
  BY <1>2 DEF CurrentIs
<1>4. /\ ChildDropped(records, records', e)
      /\ records[e].child # Null /\ records[records[e].child].array = Null
      /\ records'[e] \in EntryNode /\ records'[e].name = records[e].name
      /\ SetTop([Top EXCEPT !.entries[Top.iter] = records'[e]])
  BY <1>2, DeleteChildArrayWrites
<1>c. PICK c : c = records[e].child
  OBVIOUS
<1>5. PICK L2 : L2 = [j \in InfosOf(records) \ {c} |-> L[j]]
  OBVIOUS
<1>6. PICK P2 : P2 = [j \in InfosOf(records) \ {c} |-> P[j]]
  OBVIOUS
<1>7. /\ InfosOf(records') = InfosOf(records) \ {c}
      /\ c \in InfosOf(records) /\ P[c] = PathAt(records, L, P, i, k)
      /\ \A j \in InfosOf(records) \ {c} : records'[j] = records[j]
      /\ \A g \in EntriesOf(records) \ {e} : records'[g] = records[g]
      /\ Forest(records', L2, P2)
  <2>1. P[c] = PathAt(records, L, P, i, k) /\ ArrayDropped(records, records', L, e, c, L2, P2)
    BY SMTT(30), <1>3, <1>4, <1>c, <1>5, <1>6, ChildIsDropped
  <2>. QED BY <2>1 DEF ArrayDropped
<1>8. Len(P[i]) < Len(P[c])
  <2>1. Len(PathAt(records, L, P, i, k)) = Len(P[i]) + 1 /\ Len(P[i]) \in Nat
    BY <1>3, PathFacts
  <2>. QED BY <1>7, <2>1
<1>9. \A j \in InfosOf(records) : ~ (Len(P[i]) < Len(P[j])) =>
        j \in InfosOf(records') /\ records'[j] = records[j] /\ L2[j] = L[j] /\ P2[j] = P[j]
  BY <1>5, <1>6, <1>7, <1>8
<1>10. TreeHolds(L2, P2)'
  BY <1>1, <1>2, <1>4, <1>7, <1>9, CurrentRewritten
<1>. QED BY <1>10, Zenon DEF TreeInv

(* RemoveData and SetData keep the invariant.                               *)
LEMMA PayloadChangeHolds ==
  ASSUME NEW L, NEW P, TreeHolds(L, P), checked' = checked, Top.call # "dir", ~ Done(Top),
         NEW i, NEW k, NEW e, CurrentIs(L, P, i, k, e),
         NEW a, PayloadChange(records, records', e, a), records'[e] = [records[e] EXCEPT !.data = a],
         records'[e] \in EntryNode, records'[e].name = records[e].name,
         SetTop([Top EXCEPT !.entries[Top.iter] = records'[e]])
  PROVE  TreeInv'
<1>1. Forest(records, L, P) /\ e \in EntriesOf(records)
  BY DEF CurrentIs
<1>2. /\ InfosOf(records') = InfosOf(records) /\ \A j \in InfosOf(records) : records'[j] = records[j]
      /\ \A g \in EntriesOf(records) \ {e} : records'[g] = records[g]
      /\ Forest(records', L, P)
  <2>1. PICK R2 : R2 = records'
    OBVIOUS
  <2>2. PayloadChange(records, R2, e, a)
    BY <2>1
  <2>3. InfosOf(R2) = InfosOf(records)
    BY <1>1, <2>2, PayloadChanged
  <2>4. \A j \in InfosOf(records) : R2[j] = records[j]
    BY <1>1, <2>2, PayloadChanged
  <2>5. \A g \in EntriesOf(records) \ {e} : R2[g] = records[g]
    BY SMTT(30), <1>1, <2>2, PayloadChanged
  <2>6. Forest(R2, L, P)
    BY <1>1, <2>2, PayloadChanged
  <2>. QED BY <2>1, <2>3, <2>4, <2>5, <2>6
<1>3. TreeHolds(L, P)'
  BY <1>2, CurrentRewritten
<1>. QED BY <1>3, Zenon DEF TreeInv

LEMMA RemoveDataHolds ==
  ASSUME NEW L, NEW P, TreeHolds(L, P), RemoveData
  PROVE  TreeInv'
<1>1. ~ Done(Top) /\ Top.call # "dir" /\ checked' = checked
  BY DEF RemoveData, HasData
<1>2. PICK i, k, e : CurrentIs(L, P, i, k, e)
  BY <1>1, CurrentFacts
<1>3. /\ PayloadChange(records, records', e, Null)
      /\ records'[e] \in EntryNode /\ records'[e].name = records[e].name
      /\ records'[e] = [records[e] EXCEPT !.data = Null]
      /\ SetTop([Top EXCEPT !.entries[Top.iter] = records'[e]])
  BY <1>2, RemoveDataWrites
<1>. QED BY <1>1, <1>2, <1>3, PayloadChangeHolds

LEMMA SetDataHolds ==
  ASSUME NEW L, NEW P, TreeHolds(L, P), NEW d \in TreePayload, NEW a \in Addr, SetData(d, a)
  PROVE  TreeInv'
<1>1. ~ Done(Top) /\ Top.call # "dir" /\ checked' = checked
  BY DEF SetData
<1>2. PICK i, k, e : CurrentIs(L, P, i, k, e)
  BY <1>1, CurrentFacts
<1>3. /\ PayloadChange(records, records', e, a)
      /\ records'[e] \in EntryNode /\ records'[e].name = records[e].name
      /\ records'[e] = [records[e] EXCEPT !.data = a]
      /\ SetTop([Top EXCEPT !.entries[Top.iter] = records'[e]])
  BY <1>2, SetDataWrites
<1>. QED BY <1>1, <1>2, <1>3, PayloadChangeHolds

(* The iterator that LinkTo leaves.                                         *)
WithLink(h, k, a) ==
  IF k = 1 THEN [h EXCEPT !.info.array = a]
  ELSE [h EXCEPT !.entries[k - 1] = [h.entries[k - 1] EXCEPT !.next = a]]

IsLinked(h, k, a, g) ==
  /\ g \in IterShape /\ g.infoAddr = h.infoAddr /\ g.iter = h.iter /\ g.path = h.path /\ g.call = h.call
  /\ g.info = IF k = 1 THEN [h.info EXCEPT !.array = a] ELSE h.info
  /\ DOMAIN g.entries = DOMAIN h.entries /\ Len(g.entries) = Len(h.entries)
  /\ \A m \in DOMAIN h.entries :
       g.entries[m] = IF m = k - 1 THEN [h.entries[m] EXCEPT !.next = a] ELSE h.entries[m]

(* The iterator's copies with the link before the k-th entry rewritten.     *)
LEMMA WithLinkFacts ==
  ASSUME NEW h \in IterShape, NEW k \in Nat \ {0}, k - 1 <= Len(h.entries), NEW a \in Link,
         NEW g, g = WithLink(h, k, a)
  PROVE  IsLinked(h, k, a, g)
<1>. USE DEF IsLinked
<1>1. h.entries \in Seq(EntryNode) /\ h.info \in InfoNode
  BY DEF IterShape
<1>2. CASE k = 1
  <2>1. PICK info : info = [h.info EXCEPT !.array = a]
    OBVIOUS
  <2>2. info \in InfoNode
    BY <1>1, <2>1 DEF InfoNode
  <2>3. g = [h EXCEPT !.info = info]
    BY <1>2, <2>1 DEF WithLink
  <2>4. /\ g \in IterShape /\ g.infoAddr = h.infoAddr /\ g.iter = h.iter /\ g.path = h.path /\ g.call = h.call
        /\ g.info = info /\ g.entries = h.entries
    BY <2>2, <2>3 DEF IterShape
  <2>5. \A m \in DOMAIN h.entries : m # k - 1
    BY <1>1, <1>2
  <2>. QED BY <1>2, <2>1, <2>4, <2>5
<1>3. CASE k # 1
  <2>1. PICK linked : linked = [h.entries[k - 1] EXCEPT !.next = a]
    OBVIOUS
  <2>2. k - 1 \in DOMAIN h.entries
    BY <1>1, <1>3
  <2>3. linked \in EntryNode
    <3>1. h.entries[k - 1] \in EntryNode
      BY <1>1, <2>2
    <3>. QED BY <2>1, <3>1 DEF EntryNode
  <2>4. PICK entries : entries = [h.entries EXCEPT ![k - 1] = linked]
    OBVIOUS
  <2>5. entries \in Seq(EntryNode) /\ DOMAIN entries = DOMAIN h.entries /\ Len(entries) = Len(h.entries)
        /\ \A m \in DOMAIN h.entries : entries[m] = IF m = k - 1 THEN linked ELSE h.entries[m]
    BY <1>1, <2>2, <2>3, <2>4
  <2>6. g = [h EXCEPT !.entries = entries]
    BY <1>3, <2>1, <2>4 DEF WithLink
  <2>7. /\ g \in IterShape /\ g.infoAddr = h.infoAddr /\ g.iter = h.iter /\ g.path = h.path /\ g.call = h.call
        /\ g.info = h.info /\ g.entries = entries
    BY <2>5, <2>6 DEF IterShape
  <2>. QED BY <1>3, <2>1, <2>5, <2>7
<1>. QED BY <1>2, <1>3

LEMMA LinkToWrites ==
  ASSUME NEW L, NEW P, TreeHolds(L, P), NEW i, i = Top.infoAddr, Top.call = "edit",
         NEW k \in 1..(Len(L[i]) + 1), NEW a \in Link, NEW recs,
         NEW h \in IterShape, h.iter = k, h.infoAddr = i, h.info = records[i],
         \A m \in 1..(k - 1) : h.entries[m] = records[L[i][m]],
         LinkTo(recs, h, a)
  PROVE  /\ records' = Rewrite(recs, LinkAt(i, L[i], k),
                               IF k = 1 THEN [records[i] EXCEPT !.array = a]
                               ELSE [records[L[i][k - 1]] EXCEPT !.next = a])
         /\ SetTop(WithLink(h, k, a))
<1>1. Forest(records, L, P) /\ Fits(records, L, P, checked, Top)
  BY TopFacts
<1>2. i \in InfosOf(records) /\ Len(L[i]) \in Nat /\ L[i] \in Seq(EntriesOf(records)) /\ DOMAIN L[i] = 1..Len(L[i])
  BY <1>1 DEF Fits, Forest, Lists
<1>3. CASE k = 1
  BY <1>3 DEF LinkTo, LinkAt, WithLink
<1>4. CASE k # 1
  <2>1. k - 1 \in DOMAIN L[i] /\ k - 1 \in Nat /\ k - 1 >= 1 /\ k - 1 \in 1..(k - 1)
    BY <1>2, <1>4
  <2>2. PICK before : before = [h EXCEPT !.iter = k - 1]
    OBVIOUS
  <2>3. before.iter = k - 1 /\ before.entries = h.entries /\ before.info = records[i]
    BY <2>1, <2>2 DEF IterShape
  <2>4. Current(before) = h.entries[k - 1] /\ h.entries[k - 1] = records[L[i][k - 1]]
    BY <2>1, <2>3 DEF Current
  <2>5. CurrentAddr(before) = L[i][k - 1]
    <3>0. records[i].array = At(L[i], 1)
          /\ \A m \in DOMAIN L[i] : records[L[i][m]].next = At(L[i], m + 1)
      BY <1>1, <1>2 DEF Forest, Lists
    <3>1. CASE k - 1 = 1
      BY <2>1, <2>3, <3>0, <3>1 DEF CurrentAddr, At
    <3>2. CASE k - 1 # 1
      <4>1. (k - 1) - 1 \in 1..(k - 1) /\ (k - 1) - 1 \in DOMAIN L[i] /\ ((k - 1) - 1) + 1 = k - 1
        BY <1>2, <2>1, <3>2
      <4>2. h.entries[(k - 1) - 1] = records[L[i][(k - 1) - 1]]
        BY <4>1
      <4>3. records[L[i][(k - 1) - 1]].next = At(L[i], k - 1)
        BY <3>0, <4>1
      <4>. QED BY <2>1, <2>3, <3>2, <4>2, <4>3 DEF CurrentAddr, At
    <3>. QED BY <3>1, <3>2
  <2>6. /\ records' = Rewrite(recs, CurrentAddr(before), [Current(before) EXCEPT !.next = a])
        /\ SetTop([h EXCEPT !.entries[k - 1] = [Current(before) EXCEPT !.next = a]])
    BY <1>4, <2>2 DEF LinkTo
  <2>. QED BY <1>4, <2>4, <2>5, <2>6 DEF LinkAt, WithLink
<1>. QED BY <1>3, <1>4

(* The iterator in the array i whose list is l, linked at its k-th link.    *)
AtLink(h, i, l, k) ==
  /\ h \in IterShape /\ h.iter = k /\ h.infoAddr = i /\ h.info = records[i]
  /\ h.path = Top.path /\ h.call = "edit"
  /\ \A m \in 1..(k - 1) : h.entries[m] = records[l[m]]

LEMMA CreateEntryWrites ==
  ASSUME NEW L, NEW P, TreeHolds(L, P), NEW a \in Addr, NEW name \in Name, CreateEntry(name, a),
         NEW i, i = Top.infoAddr, NEW k, k = UpperBound(Top, name)
  PROVE  /\ i \in InfosOf(records) /\ k \in 1..(Len(L[i]) + 1)
         /\ EntryAdded(records, records', i, L[i], k, a, name)
         /\ \A m \in DOMAIN L[i] : records[L[i][m]].name # name /\ (records[L[i][m]].name < name <=> m < k)
         /\ \E h : /\ AtLink(h, i, L[i], k)
                   /\ Inserted(EntryNode, [m \in DOMAIN L[i] |-> records[L[i][m]]], k,
                               Entry(name, Null, Null, At(L[i], k)), h.entries)
                   /\ SetTop(WithLink(h, k, a))
<1>1. /\ Top \in IterShape /\ Fits(records, L, P, checked, Top) /\ Forest(records, L, P)
      /\ Top.call = "edit" /\ a \notin DOMAIN records /\ name \notin Names(Top)
  BY TopFacts DEF CreateEntry, Edits, Used
<1>2. Reliable(records, L, P, Top)
  BY <1>1, IteratorIsReliable
<1>3. /\ i \in InfosOf(records) /\ Top.info = records[i] /\ Top.entries \in Seq(EntryNode)
      /\ DOMAIN Top.entries = DOMAIN L[i] /\ Len(Top.entries) = Len(L[i]) /\ Len(L[i]) \in Nat
      /\ DOMAIN L[i] = 1..Len(L[i])
      /\ \A m \in DOMAIN L[i] : Top.entries[m] = records[L[i][m]]
  BY <1>1, <1>2 DEF Reliable
<1>4. k \in 1..(Len(L[i]) + 1) /\ \A m \in DOMAIN L[i] : Top.entries[m].name < name <=> m < k
  <2>1. name \in Nat
    BY HierAssumption
  <2>. QED BY <1>1, <1>3, <2>1, BoundIs
<1>5. \A m \in DOMAIN L[i] : records[L[i][m]].name # name /\ (records[L[i][m]].name < name <=> m < k)
  <2>1. \A m \in DOMAIN L[i] : Top.entries[m].name # name
    BY <1>1, <1>3 DEF Names
  <2>. QED BY <1>3, <1>4, <2>1
<1>6. PICK f : f = [Top EXCEPT !.iter = k]
  OBVIOUS
<1>7. f.iter = k /\ f.entries = Top.entries /\ f.info = records[i] /\ f \in IterShape
  <2>1. k \in Nat \ {0}
    BY <1>3, <1>4
  <2>. QED BY <1>1, <1>3, <1>6, <2>1 DEF IterShape
<1>8. (IF Done(f) THEN Null ELSE CurrentAddr(f)) = At(L[i], k)
  <2>0. /\ records[i].array = At(L[i], 1)
        /\ \A m \in DOMAIN L[i] : records[L[i][m]].next = At(L[i], m + 1)
    BY <1>1, <1>3 DEF Forest, Lists
  <2>1. CASE Done(f)
    <3>1. k \notin DOMAIN L[i]
      BY <1>3, <1>4, <1>7, <2>1 DEF Done
    <3>. QED BY <2>1, <3>1 DEF At
  <2>2. CASE ~ Done(f) /\ k = 1
    BY <1>7, <2>0, <2>2 DEF CurrentAddr
  <2>3. CASE ~ Done(f) /\ k # 1
    <3>1. k - 1 \in DOMAIN L[i] /\ (k - 1) + 1 = k
      BY <1>3, <1>4, <2>3
    <3>2. records[L[i][k - 1]].next = At(L[i], k)
      BY <2>0, <3>1
    <3>. QED BY <1>3, <1>7, <2>3, <3>1, <3>2 DEF CurrentAddr
  <2>. QED BY <2>1, <2>2, <2>3
<1>9. PICK entry : entry = Entry(name, Null, Null, At(L[i], k))
  OBVIOUS
<1>10. PICK h : h = [f EXCEPT !.entries = InsertAt(@, f.iter, entry)]
  OBVIOUS
<1>11. LinkTo(Add(records, a, entry), h, a)
  BY <1>6, <1>8, <1>9, <1>10 DEF CreateEntry
<1>12. entry \in EntryNode
  <2>1. At(L[i], k) \in Link
    <3>1. k \in DOMAIN L[i] => L[i][k] \in Addr
      BY <1>1, <1>3, OnePlace, NodeKinds DEF Forest
    <3>. QED BY <3>1 DEF At, Link
  <2>. QED BY <1>9, <2>1 DEF Entry, EntryNode, Link
<1>13. PICK own : own = [m \in DOMAIN L[i] |-> records[L[i][m]]]
  OBVIOUS
<1>14. own = Top.entries
  BY <1>3, <1>13
<1>15. h = [f EXCEPT !.entries = InsertAt(Top.entries, k, entry)]
  BY <1>7, <1>10
<1>16. Inserted(EntryNode, Top.entries, k, entry, InsertAt(Top.entries, k, entry))
  BY <1>3, <1>4, <1>12, InsertFacts
<1>17. h \in IterShape /\ h.iter = k /\ h.infoAddr = i /\ h.info = records[i]
       /\ h.path = Top.path /\ h.call = "edit" /\ h.entries = InsertAt(Top.entries, k, entry)
  <2>1. PICK entries : entries = InsertAt(Top.entries, k, entry)
    OBVIOUS
  <2>2. entries \in Seq(EntryNode)
    BY <1>16, <2>1 DEF Inserted
  <2>3. h = [f EXCEPT !.entries = entries]
    BY <1>15, <2>1
  <2>4. f.infoAddr = i /\ f.path = Top.path /\ f.call = "edit"
    BY <1>1, <1>6 DEF IterShape
  <2>. QED BY <1>7, <2>1, <2>2, <2>3, <2>4 DEF IterShape
<1>18. \A m \in 1..(k - 1) : h.entries[m] = records[L[i][m]]
  <2>1. \A m \in 1..(k - 1) : h.entries[m] = Top.entries[m] /\ m \in DOMAIN L[i]
    BY <1>3, <1>4, <1>16, <1>17 DEF Inserted
  <2>. QED BY <1>3, <2>1
<1>19. /\ records' = Rewrite(Add(records, a, entry), LinkAt(i, L[i], k),
                             IF k = 1 THEN [records[i] EXCEPT !.array = a]
                             ELSE [records[L[i][k - 1]] EXCEPT !.next = a])
       /\ SetTop(WithLink(h, k, a))
  <2>1. a \in Link
    BY DEF Link
  <2>2. PICK recs : recs = Add(records, a, entry)
    OBVIOUS
  <2>3. LinkTo(recs, h, a)
    BY <1>11, <2>2
  <2>. QED BY <1>1, <1>4, <1>17, <1>18, <2>1, <2>2, <2>3, LinkToWrites
<1>20. EntryAdded(records, records', i, L[i], k, a, name)
  <2>1. PICK recs : recs = Add(records, a, entry)
    OBVIOUS
  <2>2. /\ DOMAIN recs = DOMAIN records \cup {a} /\ recs[a] = entry
        /\ \A x \in DOMAIN records : recs[x] = records[x]
    BY <1>1, <2>1 DEF Add
  <2>3. PICK at : at = LinkAt(i, L[i], k)
    OBVIOUS
  <2>4. PICK node : node = IF k = 1 THEN [records[i] EXCEPT !.array = a]
                           ELSE [records[L[i][k - 1]] EXCEPT !.next = a]
    OBVIOUS
  <2>5. at \in DOMAIN records
    <3>1. k # 1 => k - 1 \in DOMAIN L[i]
      BY <1>3, <1>4
    <3>2. \A m \in DOMAIN L[i] : L[i][m] \in EntriesOf(records)
      BY <1>1, <1>3, OnePlace DEF Forest
    <3>. QED BY <1>3, <2>3, <3>1, <3>2 DEF LinkAt, InfosOf, EntriesOf
  <2>6. records' = Rewrite(recs, at, node)
    BY <1>19, <2>1, <2>3, <2>4
  <2>7. /\ DOMAIN records' = DOMAIN recs /\ records' = [x \in DOMAIN records' |-> records'[x]]
        /\ records'[at] = node /\ \A x \in DOMAIN recs \ {at} : records'[x] = recs[x]
    BY <2>2, <2>5, <2>6 DEF Rewrite
  <2>8. records'[a] = entry
    BY <1>1, <2>2, <2>5, <2>7
  <2>9. LinkWritten(records, records', i, L[i], k, a, {})
    BY <2>2, <2>3, <2>4, <2>7 DEF LinkWritten
  <2>. QED BY <1>1, <1>9, <2>2, <2>7, <2>8, <2>9 DEF EntryAdded
<1>21. AtLink(h, i, L[i], k)
  BY <1>17, <1>18 DEF AtLink
<1>22. Inserted(EntryNode, [m \in DOMAIN L[i] |-> records[L[i][m]]], k,
                Entry(name, Null, Null, At(L[i], k)), h.entries)
  BY <1>9, <1>13, <1>14, <1>16, <1>17
<1>. QED BY <1>3, <1>4, <1>5, <1>19, <1>20, <1>21, <1>22, Zenon

ListIsLinked(R, R2, L, i, k, a, gone) ==
  /\ R2[i] = IF k = 1 THEN [R[i] EXCEPT !.array = a] ELSE R[i]
  /\ \A m \in DOMAIN L[i] : L[i][m] \notin gone =>
       R2[L[i][m]] = IF m = k - 1 THEN [R[L[i][m]] EXCEPT !.next = a] ELSE R[L[i][m]]

(* The copies with a new entry are the list with the new entry.             *)
LEMMA LinkedList ==
  ASSUME NEW R, NEW L, NEW P, Forest(R, L, P), NEW i \in InfosOf(R), NEW k \in 1..(Len(L[i]) + 1),
         NEW R2, NEW a, NEW gone \in SUBSET EntriesOf(R), LinkWritten(R, R2, i, L[i], k, a, gone)
  PROVE  ListIsLinked(R, R2, L, i, k, a, gone)
<1>. USE DEF ListIsLinked
<1>1. /\ InfosOf(R) \cap EntriesOf(R) = {}
      /\ InfosOf(R) \subseteq DOMAIN R /\ EntriesOf(R) \subseteq DOMAIN R
  BY NodeKinds DEF Forest
<1>2. /\ L[i] \in Seq(EntriesOf(R)) /\ Len(L[i]) \in Nat /\ DOMAIN L[i] = 1..Len(L[i])
      /\ \A m \in DOMAIN L[i] : L[i][m] \in EntriesOf(R)
      /\ \A m, n \in DOMAIN L[i] : L[i][m] = L[i][n] => m = n
  <2>1. L[i] \in Seq(EntriesOf(R))
    BY DEF Forest, Lists
  <2>. QED BY <2>1, OnePlace DEF Forest
<1>3. k # 1 => k - 1 \in DOMAIN L[i]
  BY <1>2
<1>4. /\ R2[LinkAt(i, L[i], k)] = IF k = 1 THEN [R[i] EXCEPT !.array = a]
                                  ELSE [R[L[i][k - 1]] EXCEPT !.next = a]
      /\ \A x \in DOMAIN R \ (gone \cup {LinkAt(i, L[i], k)}) : R2[x] = R[x]
  BY DEF LinkWritten
<1>5. R2[i] = IF k = 1 THEN [R[i] EXCEPT !.array = a] ELSE R[i]
  <2>1. CASE k = 1
    BY <1>4, <2>1 DEF LinkAt
  <2>2. CASE k # 1
    <3>1. LinkAt(i, L[i], k) \in EntriesOf(R)
      BY <1>2, <1>3, <2>2 DEF LinkAt
    <3>. QED BY <1>1, <1>4, <2>2, <3>1
  <2>. QED BY <2>1, <2>2
<1>6. ASSUME NEW m \in DOMAIN L[i], L[i][m] \notin gone
      PROVE  R2[L[i][m]] = IF m = k - 1 THEN [R[L[i][m]] EXCEPT !.next = a] ELSE R[L[i][m]]
  <2>1. CASE k = 1
    <3>1. m # k - 1 /\ LinkAt(i, L[i], k) = i /\ L[i][m] # i /\ L[i][m] \in DOMAIN R
      BY <1>1, <1>2, <2>1 DEF LinkAt
    <3>. QED BY <1>4, <1>6, <3>1
  <2>2. CASE k # 1 /\ m = k - 1
    BY <1>4, <2>2 DEF LinkAt
  <2>3. CASE k # 1 /\ m # k - 1
    <3>1. LinkAt(i, L[i], k) = L[i][k - 1]
      BY <2>3 DEF LinkAt
    <3>2. L[i][m] # L[i][k - 1] /\ L[i][m] \in DOMAIN R
      BY <1>1, <1>2, <1>3, <2>3
    <3>. QED BY <1>4, <1>6, <2>3, <3>1, <3>2
  <2>. QED BY <2>1, <2>2, <2>3
<1>. QED BY <1>5, <1>6

(* An edit's iterator fits whose copies are what is on disk.                *)
LEMMA EditFits ==
  ASSUME NEW R, NEW L, NEW P, NEW C, NEW g \in IterShape, NEW i \in InfosOf(R),
         g.infoAddr = i, g.info = R[i], g.path = P[i], g.call = "edit",
         g.iter <= Len(g.entries) + 1, Len(g.entries) = Len(L[i]),
         \A m \in DOMAIN g.entries : g.entries[m] = R[L[i][m]]
  PROVE  Fits(R, L, P, C, g)
BY DEF Fits, Copies

(* An edit that changes one list keeps the invariant.                       *)
LEMMA ListEdited ==
  ASSUME NEW L, NEW P, TreeHolds(L, P), checked' = checked, Top.call = "edit",
         NEW i, i = Top.infoAddr, i \in InfosOf(records'),
         NEW L2, Forest(records', L2, P),
         \A j \in InfosOf(records) \ {i} :
           /\ j \in InfosOf(records') /\ records'[j] = records[j] /\ L2[j] = L[j]
           /\ \A m \in DOMAIN L[j] : records'[L[j][m]] = records[L[j][m]],
         NEW g \in IterShape, g.infoAddr = i, g.info = records'[i], g.path = Top.path, g.call = "edit",
         g.iter <= Len(g.entries) + 1, Len(g.entries) = Len(L2[i]),
         \A m \in DOMAIN g.entries : g.entries[m] = records'[L2[i][m]],
         SetTop(g)
  PROVE  TreeInv'
<1>1. Forest(records, L, P) /\ Top.infoAddr \in InfosOf(records) /\ Top.path = P[Top.infoAddr]
  BY TopFacts DEF Fits
<1>2. KeepsAbove(records, L, P, i, records', L2, P)
  <2>1. \A j \in InfosOf(records) : Len(P[j]) \in Nat
    BY <1>1, PathFacts
  <2>2. \A j \in InfosOf(records) : Len(P[j]) < Len(P[i]) => j # i
    BY <1>1, <2>1
  <2>. QED BY <2>2 DEF KeepsAbove
<1>3. g.path = P[i]
  BY <1>1
<1>4. Fits(records', L2, P, checked, g)
  <2>1. PICK R2 : R2 = records'
    OBVIOUS
  <2>2. Fits(R2, L2, P, checked, g)
    BY <1>3, <2>1, EditFits
  <2>. QED BY <2>1, <2>2
<1>5. iters' = [iters EXCEPT ![Len(iters)] = g]
  BY DEF SetTop
<1>6. KeepsAbove(records, L, P, Top.infoAddr, records', L2, P)
  BY <1>2
<1>7. g.infoAddr = Top.infoAddr /\ g.call = Top.call /\ Top.call # "fco" /\ Top.call # "dir"
  OBVIOUS
<1>8. TreeHolds(L2, P)'
  BY <1>4, <1>5, <1>6, <1>7, EditHolds
<1>. QED BY <1>8, Zenon DEF TreeInv

LEMMA CreateEntryHolds ==
  ASSUME NEW L, NEW P, TreeHolds(L, P), NEW a \in Addr, NEW name \in Name, CreateEntry(name, a)
  PROVE  TreeInv'
<1>1. PICK i : i = Top.infoAddr
  OBVIOUS
<1>2. PICK k : k = UpperBound(Top, name)
  OBVIOUS
<1>3. /\ i \in InfosOf(records) /\ k \in 1..(Len(L[i]) + 1)
      /\ EntryAdded(records, records', i, L[i], k, a, name)
      /\ \A m \in DOMAIN L[i] : records[L[i][m]].name # name /\ (records[L[i][m]].name < name <=> m < k)
      /\ \E h : /\ AtLink(h, i, L[i], k)
                /\ Inserted(EntryNode, [m \in DOMAIN L[i] |-> records[L[i][m]]], k,
                            Entry(name, Null, Null, At(L[i], k)), h.entries)
                /\ SetTop(WithLink(h, k, a))
  BY <1>1, <1>2, CreateEntryWrites
<1>4. PICK own : own = [m \in DOMAIN L[i] |-> records[L[i][m]]]
  OBVIOUS
<1>5. PICK entry : entry = Entry(name, Null, Null, At(L[i], k))
  OBVIOUS
<1>6. PICK h : /\ AtLink(h, i, L[i], k) /\ Inserted(EntryNode, own, k, entry, h.entries)
               /\ SetTop(WithLink(h, k, a))
  BY <1>3, <1>4, <1>5
<1>7. Forest(records, L, P) /\ Top.call = "edit" /\ checked' = checked
  BY TopFacts DEF CreateEntry, Edits
<1>8. L[i] \in Seq(EntriesOf(records)) /\ Len(L[i]) \in Nat /\ DOMAIN L[i] = 1..Len(L[i])
  BY <1>3, <1>7 DEF Forest, Lists
<1>9. PICK L2 : L2 = [L EXCEPT ![i] = InsertAt(L[i], k, a)]
  OBVIOUS
<1>10. /\ InfosOf(records') = InfosOf(records)
       /\ \A j \in InfosOf(records) \ {i} :
            records'[j] = records[j] /\ L2[j] = L[j] /\ \A m \in DOMAIN L[j] : records'[L[j][m]] = records[L[j][m]]
       /\ L2[i] = InsertAt(L[i], k, a)
       /\ Forest(records', L2, P)
  <2>1. EntryInserted(records, records', L, L2, P, i, k, a)
    BY <1>3, <1>7, <1>9, EntryIsAdded
  <2>. QED BY <2>1 DEF EntryInserted
<1>11. LinkWritten(records, records', i, L[i], k, a, {}) /\ records'[a] = entry
  BY <1>3, <1>5 DEF EntryAdded
<1>12. /\ records'[i] = IF k = 1 THEN [records[i] EXCEPT !.array = a] ELSE records[i]
       /\ \A m \in DOMAIN L[i] :
            records'[L[i][m]] = IF m = k - 1 THEN [records[L[i][m]] EXCEPT !.next = a] ELSE records[L[i][m]]
  <2>1. ListIsLinked(records, records', L, i, k, a, {})
    BY <1>3, <1>7, <1>11, LinkedList
  <2>. QED BY <2>1 DEF ListIsLinked
<1>13. PICK g : g = WithLink(h, k, a)
  OBVIOUS
<1>14. /\ h \in IterShape /\ h.iter = k /\ h.infoAddr = i /\ h.info = records[i]
       /\ h.path = Top.path /\ h.call = "edit"
  BY <1>6 DEF AtLink
<1>15. /\ Len(h.entries) = Len(L[i]) + 1 /\ DOMAIN h.entries = 1..(Len(L[i]) + 1)
       /\ \A m \in 1..(k - 1) : h.entries[m] = records[L[i][m]]
       /\ h.entries[k] = entry
       /\ \A m \in k..Len(L[i]) : h.entries[m + 1] = records[L[i][m]]
  <2>1. own \in Seq(EntryNode) /\ Len(own) = Len(L[i])
    <3>1. \A m \in DOMAIN L[i] : records[L[i][m]] \in EntryNode
      BY <1>3, <1>7, OnePlace DEF Forest
    <3>. QED BY <1>4, <1>8, <3>1
  <2>2. \A m \in 1..Len(L[i]) : own[m] = records[L[i][m]]
    BY <1>4, <1>8
  <2>3. 1..(k - 1) \subseteq 1..Len(L[i]) /\ k..Len(L[i]) \subseteq 1..Len(L[i])
    BY <1>3, <1>8
  <2>. QED BY <1>6, <2>1, <2>2, <2>3 DEF Inserted
<1>16. /\ g \in IterShape /\ g.infoAddr = i /\ g.iter = k /\ g.path = Top.path /\ g.call = "edit"
       /\ g.info = IF k = 1 THEN [records[i] EXCEPT !.array = a] ELSE records[i]
       /\ DOMAIN g.entries = DOMAIN h.entries /\ Len(g.entries) = Len(h.entries)
       /\ \A m \in DOMAIN h.entries :
            g.entries[m] = IF m = k - 1 THEN [h.entries[m] EXCEPT !.next = a] ELSE h.entries[m]
  <2>1. a \in Link /\ k \in Nat \ {0} /\ k - 1 <= Len(h.entries)
    BY <1>3, <1>8, <1>15 DEF Link
  <2>2. IsLinked(h, k, a, g)
    BY <1>13, <1>14, <2>1, WithLinkFacts
  <2>. QED BY <1>14, <2>2 DEF IsLinked
<1>17. Inserted(EntriesOf(records) \cup {a}, L[i], k, a, L2[i])
  <2>1. PICK S : S = EntriesOf(records) \cup {a}
    OBVIOUS
  <2>2. L[i] \in Seq(S) /\ a \in S
    BY <1>8, <2>1
  <2>3. Inserted(S, L[i], k, a, InsertAt(L[i], k, a))
    BY <1>3, <2>2, InsertFacts
  <2>. QED BY <1>10, <2>1, <2>3
<1>18. /\ Len(L2[i]) = Len(L[i]) + 1
       /\ \A m \in 1..(k - 1) : L2[i][m] = L[i][m]
       /\ L2[i][k] = a
       /\ \A m \in k..Len(L[i]) : L2[i][m + 1] = L[i][m]
  BY <1>17 DEF Inserted
<1>19. ASSUME NEW m \in DOMAIN g.entries PROVE g.entries[m] = records'[L2[i][m]]
  <2>0. m \in 1..(Len(L[i]) + 1) /\ m \in Nat /\ k \in Nat
    BY <1>3, <1>8, <1>15, <1>16
  <2>1. CASE m < k
    <3>1. m \in 1..(k - 1) /\ m \in DOMAIN L[i]
      BY <1>3, <1>8, <2>0, <2>1
    <3>2. h.entries[m] = records[L[i][m]] /\ L2[i][m] = L[i][m]
      BY <1>15, <1>18, <3>1
    <3>3. m \in DOMAIN h.entries
      BY <1>16
    <3>4. g.entries[m] = IF m = k - 1 THEN [records[L[i][m]] EXCEPT !.next = a] ELSE records[L[i][m]]
      <4>1. g.entries[m] = IF m = k - 1 THEN [h.entries[m] EXCEPT !.next = a] ELSE h.entries[m]
        BY <1>16, <3>3
      <4>. QED BY <3>2, <4>1
    <3>5. records'[L[i][m]] = IF m = k - 1 THEN [records[L[i][m]] EXCEPT !.next = a] ELSE records[L[i][m]]
      BY <1>12, <3>1
    <3>. QED BY <3>2, <3>4, <3>5
  <2>2. CASE m = k
    <3>1. m # k - 1
      BY <2>0, <2>2
    <3>. QED BY <1>11, <1>15, <1>16, <1>18, <2>2, <3>1
  <2>3. CASE k < m
    <3>1. m - 1 \in k..Len(L[i]) /\ (m - 1) + 1 = m /\ m - 1 \in DOMAIN L[i] /\ m # k - 1 /\ m - 1 # k - 1
      BY <1>3, <1>8, <2>0, <2>3
    <3>2. h.entries[m] = records[L[i][m - 1]] /\ L2[i][m] = L[i][m - 1]
      BY <1>15, <1>18, <3>1
    <3>. QED BY Zenon, <1>12, <1>16, <3>1, <3>2
  <2>. QED BY <2>0, <2>1, <2>2, <2>3
<1>20. g.info = records'[i] /\ g.iter <= Len(g.entries) + 1 /\ Len(g.entries) = Len(L2[i])
  <2>1. k <= Len(L[i]) + 1 /\ k \in Nat
    BY <1>3, <1>8
  <2>. QED BY <1>8, <1>12, <1>15, <1>16, <1>18, <2>1
<1>21. SetTop(g)
  BY <1>6, <1>13
<1>22. i \in InfosOf(records') /\ \A j \in InfosOf(records) \ {i} :
           /\ j \in InfosOf(records') /\ records'[j] = records[j] /\ L2[j] = L[j]
           /\ \A m \in DOMAIN L[j] : records'[L[j][m]] = records[L[j][m]]
  BY <1>3, <1>10
<1>23. Forest(records', L2, P)
  BY <1>10
<1>24. g \in IterShape /\ g.infoAddr = i /\ g.path = Top.path /\ g.call = "edit"
  BY <1>16
<1>. QED BY <1>1, <1>7, <1>19, <1>20, <1>21, <1>22, <1>23, <1>24, ListEdited

LEMMA DeleteEntryWrites ==
  ASSUME NEW L, NEW P, TreeHolds(L, P), DeleteEntry,
         NEW i, NEW k, NEW e, CurrentIs(L, P, i, k, e)
  PROVE  /\ EntryRemoved(records, records', i, L[i], k)
         /\ records[e].child = Null /\ records[e].data = Null /\ records[e].next \in Link
         /\ \E h : /\ AtLink(h, i, L[i], k)
                   /\ Removed(EntryNode, [m \in DOMAIN L[i] |-> records[L[i][m]]], k, h.entries)
                   /\ SetTop(WithLink(h, k, records[e].next))
<1>1. /\ Top \in IterShape /\ Fits(records, L, P, checked, Top) /\ Forest(records, L, P)
      /\ Top.call = "edit" /\ ~ Done(Top) /\ ~ CanDescend(Top) /\ ~ HasData(Top)
  BY TopFacts DEF DeleteEntry, Edits
<1>2. Reliable(records, L, P, Top)
  BY <1>1, IteratorIsReliable
<1>3. /\ i \in InfosOf(records) /\ i = Top.infoAddr /\ k = Top.iter /\ k \in DOMAIN L[i] /\ e = L[i][k]
      /\ e \in EntriesOf(records) /\ e \in DOMAIN records /\ records[e] \in EntryNode
      /\ CurrentAddr(Top) = e /\ Current(Top) = records[e]
  BY <1>1 DEF CurrentIs
<1>4. /\ Top.info = records[i] /\ Top.entries \in Seq(EntryNode)
      /\ DOMAIN Top.entries = DOMAIN L[i] /\ Len(Top.entries) = Len(L[i]) /\ Len(L[i]) \in Nat
      /\ DOMAIN L[i] = 1..Len(L[i])
      /\ \A m \in DOMAIN L[i] : Top.entries[m] = records[L[i][m]]
  BY <1>1, <1>2, <1>3 DEF Reliable
<1>5. records[e].child = Null /\ records[e].data = Null /\ records[e].next \in Link
  BY <1>1, <1>3 DEF CanDescend, HasData, EntryNode
<1>6. PICK a : a = records[e].next
  OBVIOUS
<1>7. PICK h : h = [Top EXCEPT !.entries = RemoveAt(@, Top.iter)]
  OBVIOUS
<1>8. LinkTo(Drop(records, e), h, a)
  BY <1>3, <1>6, <1>7 DEF DeleteEntry
<1>9. PICK own : own = [m \in DOMAIN L[i] |-> records[L[i][m]]]
  OBVIOUS
<1>10. own = Top.entries
  BY <1>4, <1>9
<1>11. Removed(EntryNode, Top.entries, k, RemoveAt(Top.entries, k))
  BY <1>3, <1>4, RemoveFacts
<1>12. h \in IterShape /\ h.iter = k /\ h.infoAddr = i /\ h.info = records[i]
       /\ h.path = Top.path /\ h.call = "edit" /\ h.entries = RemoveAt(Top.entries, k)
  <2>1. PICK entries : entries = RemoveAt(Top.entries, k)
    OBVIOUS
  <2>2. entries \in Seq(EntryNode)
    BY <1>11, <2>1 DEF Removed
  <2>3. h = [Top EXCEPT !.entries = entries]
    BY <1>3, <1>7, <2>1
  <2>. QED BY <1>1, <1>3, <1>4, <2>1, <2>2, <2>3 DEF IterShape
<1>13. \A m \in 1..(k - 1) : h.entries[m] = records[L[i][m]]
  <2>1. \A m \in 1..(k - 1) : h.entries[m] = Top.entries[m] /\ m \in DOMAIN L[i]
    BY <1>3, <1>4, <1>11, <1>12 DEF Removed
  <2>. QED BY <1>4, <2>1
<1>14. k \in 1..(Len(L[i]) + 1) /\ a \in Link
  BY <1>3, <1>4, <1>5, <1>6
<1>15. /\ records' = Rewrite(Drop(records, e), LinkAt(i, L[i], k),
                             IF k = 1 THEN [records[i] EXCEPT !.array = a]
                             ELSE [records[L[i][k - 1]] EXCEPT !.next = a])
       /\ SetTop(WithLink(h, k, a))
  <2>1. PICK recs : recs = Drop(records, e)
    OBVIOUS
  <2>2. LinkTo(recs, h, a)
    BY <1>8, <2>1
  <2>. QED BY <1>1, <1>3, <1>12, <1>13, <1>14, <2>1, <2>2, LinkToWrites
<1>16. EntryRemoved(records, records', i, L[i], k)
  <2>1. PICK recs : recs = Drop(records, e)
    OBVIOUS
  <2>2. /\ DOMAIN recs = DOMAIN records \ {e}
        /\ \A x \in DOMAIN records \ {e} : recs[x] = records[x]
    BY <2>1 DEF Drop
  <2>3. PICK at : at = LinkAt(i, L[i], k)
    OBVIOUS
  <2>4. PICK node : node = IF k = 1 THEN [records[i] EXCEPT !.array = a]
                           ELSE [records[L[i][k - 1]] EXCEPT !.next = a]
    OBVIOUS
  <2>5. at \in DOMAIN records /\ at # e
    <3>1. k # 1 => k - 1 \in DOMAIN L[i] /\ k - 1 # k
      BY <1>3, <1>4
    <3>2. \A m \in DOMAIN L[i] : L[i][m] \in EntriesOf(records) /\ (L[i][m] = e => m = k)
      BY <1>1, <1>3, OnePlace DEF Forest
    <3>3. i # e
      BY <1>1, <1>3, NodeKinds DEF Forest
    <3>. QED BY <1>3, <2>3, <3>1, <3>2, <3>3 DEF LinkAt, InfosOf, EntriesOf
  <2>6. records' = Rewrite(recs, at, node)
    BY <1>15, <2>1, <2>3, <2>4
  <2>7. /\ DOMAIN records' = DOMAIN recs /\ records' = [x \in DOMAIN records' |-> records'[x]]
        /\ records'[at] = node /\ \A x \in DOMAIN recs \ {at} : records'[x] = recs[x]
    BY <2>2, <2>5, <2>6 DEF Rewrite
  <2>8. LinkWritten(records, records', i, L[i], k, a, {e})
    BY <2>2, <2>3, <2>4, <2>7 DEF LinkWritten
  <2>. QED BY <1>3, <1>6, <2>2, <2>7, <2>8 DEF EntryRemoved
<1>17. AtLink(h, i, L[i], k)
  BY <1>12, <1>13 DEF AtLink
<1>18. Removed(EntryNode, [m \in DOMAIN L[i] |-> records[L[i][m]]], k, h.entries)
  BY <1>9, <1>10, <1>11, <1>12
<1>. QED BY <1>5, <1>6, <1>15, <1>16, <1>17, <1>18, Zenon

LEMMA DeleteEntryHolds ==
  ASSUME NEW L, NEW P, TreeHolds(L, P), DeleteEntry
  PROVE  TreeInv'
<1>1. ~ Done(Top) /\ Top.call = "edit" /\ checked' = checked /\ Forest(records, L, P)
  BY TopFacts DEF DeleteEntry, Edits
<1>2. PICK i, k, e : CurrentIs(L, P, i, k, e)
  BY <1>1, CurrentFacts
<1>3. i = Top.infoAddr /\ i \in InfosOf(records) /\ k \in DOMAIN L[i] /\ e = L[i][k] /\ e \in EntriesOf(records)
  BY <1>2 DEF CurrentIs
<1>4. PICK own : own = [m \in DOMAIN L[i] |-> records[L[i][m]]]
  OBVIOUS
<1>5. PICK a : a = records[e].next
  OBVIOUS
<1>6. /\ EntryRemoved(records, records', i, L[i], k)
      /\ records[e].child = Null /\ records[e].data = Null /\ a \in Link
      /\ \E h : AtLink(h, i, L[i], k) /\ Removed(EntryNode, own, k, h.entries) /\ SetTop(WithLink(h, k, a))
  BY <1>2, <1>4, <1>5, DeleteEntryWrites
<1>7. PICK h : AtLink(h, i, L[i], k) /\ Removed(EntryNode, own, k, h.entries) /\ SetTop(WithLink(h, k, a))
  BY <1>6
<1>8. L[i] \in Seq(EntriesOf(records)) /\ Len(L[i]) \in Nat /\ DOMAIN L[i] = 1..Len(L[i])
      /\ k \in 1..Len(L[i]) /\ k \in 1..(Len(L[i]) + 1)
  <2>1. L[i] \in Seq(EntriesOf(records))
    BY <1>1, <1>3 DEF Forest, Lists
  <2>. QED BY <1>3, <2>1
<1>9. PICK L2 : L2 = [L EXCEPT ![i] = RemoveAt(L[i], k)]
  OBVIOUS
<1>10. /\ InfosOf(records') = InfosOf(records)
       /\ \A j \in InfosOf(records) \ {i} :
            records'[j] = records[j] /\ L2[j] = L[j] /\ \A m \in DOMAIN L[j] : records'[L[j][m]] = records[L[j][m]]
       /\ L2[i] = RemoveAt(L[i], k)
       /\ Forest(records', L2, P)
  <2>1. EntryTaken(records, records', L, L2, P, i, k)
    BY <1>1, <1>3, <1>6, <1>9, EntryIsRemoved
  <2>. QED BY <2>1 DEF EntryTaken
<1>11. LinkWritten(records, records', i, L[i], k, a, {e})
  BY <1>3, <1>5, <1>6 DEF EntryRemoved
<1>12. /\ records'[i] = IF k = 1 THEN [records[i] EXCEPT !.array = a] ELSE records[i]
       /\ \A m \in DOMAIN L[i] : m # k =>
            records'[L[i][m]] = IF m = k - 1 THEN [records[L[i][m]] EXCEPT !.next = a] ELSE records[L[i][m]]
  <2>1. ListIsLinked(records, records', L, i, k, a, {e})
    BY <1>1, <1>3, <1>8, <1>11, LinkedList
  <2>2. \A m \in DOMAIN L[i] : m # k => L[i][m] # e
    BY <1>1, <1>3, OnePlace DEF Forest
  <2>. QED BY <2>1, <2>2 DEF ListIsLinked
<1>13. PICK g : g = WithLink(h, k, a)
  OBVIOUS
<1>14. /\ h \in IterShape /\ h.iter = k /\ h.infoAddr = i /\ h.info = records[i]
       /\ h.path = Top.path /\ h.call = "edit"
  BY <1>7 DEF AtLink
<1>15. /\ Len(h.entries) = Len(L[i]) - 1 /\ DOMAIN h.entries = 1..(Len(L[i]) - 1)
       /\ \A m \in 1..(k - 1) : h.entries[m] = records[L[i][m]]
       /\ \A m \in k..(Len(L[i]) - 1) : h.entries[m] = records[L[i][m + 1]]
  <2>1. own \in Seq(EntryNode) /\ Len(own) = Len(L[i])
    <3>1. \A m \in DOMAIN L[i] : records[L[i][m]] \in EntryNode
      BY <1>1, <1>3, OnePlace DEF Forest
    <3>. QED BY <1>4, <1>8, <3>1
  <2>2. \A m \in 1..Len(L[i]) : own[m] = records[L[i][m]]
    BY <1>4, <1>8
  <2>3. 1..(k - 1) \subseteq 1..Len(L[i]) /\ \A m \in k..(Len(L[i]) - 1) : m + 1 \in 1..Len(L[i])
    BY <1>8
  <2>4. /\ Len(h.entries) = Len(L[i]) - 1 /\ DOMAIN h.entries = 1..(Len(L[i]) - 1)
        /\ \A m \in 1..(k - 1) : h.entries[m] = own[m]
        /\ \A m \in k..(Len(L[i]) - 1) : h.entries[m] = own[m + 1]
    BY <1>7, <2>1 DEF Removed
  <2>. QED BY <2>2, <2>3, <2>4
<1>16. /\ g \in IterShape /\ g.infoAddr = i /\ g.iter = k /\ g.path = Top.path /\ g.call = "edit"
       /\ g.info = IF k = 1 THEN [records[i] EXCEPT !.array = a] ELSE records[i]
       /\ DOMAIN g.entries = DOMAIN h.entries /\ Len(g.entries) = Len(h.entries)
       /\ \A m \in DOMAIN h.entries :
            g.entries[m] = IF m = k - 1 THEN [h.entries[m] EXCEPT !.next = a] ELSE h.entries[m]
  <2>1. k \in Nat \ {0} /\ k - 1 <= Len(h.entries)
    BY <1>8, <1>15
  <2>2. IsLinked(h, k, a, g)
    BY <1>6, <1>13, <1>14, <2>1, WithLinkFacts
  <2>. QED BY <1>14, <2>2 DEF IsLinked
<1>17. /\ Len(L2[i]) = Len(L[i]) - 1
       /\ \A m \in 1..(k - 1) : L2[i][m] = L[i][m]
       /\ \A m \in k..(Len(L[i]) - 1) : L2[i][m] = L[i][m + 1]
  <2>1. Removed(EntriesOf(records), L[i], k, RemoveAt(L[i], k))
    BY <1>3, <1>8, RemoveFacts
  <2>. QED BY <1>10, <2>1 DEF Removed
<1>18. ASSUME NEW m \in DOMAIN g.entries PROVE g.entries[m] = records'[L2[i][m]]
  <2>0. m \in 1..(Len(L[i]) - 1) /\ m \in Nat /\ k \in Nat
    BY <1>8, <1>15, <1>16
  <2>1. CASE m < k
    <3>1. m \in 1..(k - 1) /\ m \in DOMAIN L[i] /\ m # k
      BY <1>8, <2>0, <2>1
    <3>2. h.entries[m] = records[L[i][m]] /\ L2[i][m] = L[i][m]
      BY <1>15, <1>17, <3>1
    <3>3. m \in DOMAIN h.entries
      BY <1>16
    <3>4. g.entries[m] = IF m = k - 1 THEN [records[L[i][m]] EXCEPT !.next = a] ELSE records[L[i][m]]
      <4>1. g.entries[m] = IF m = k - 1 THEN [h.entries[m] EXCEPT !.next = a] ELSE h.entries[m]
        BY <1>16, <3>3
      <4>. QED BY <3>2, <4>1
    <3>5. records'[L[i][m]] = IF m = k - 1 THEN [records[L[i][m]] EXCEPT !.next = a] ELSE records[L[i][m]]
      BY <1>12, <3>1
    <3>. QED BY <3>2, <3>4, <3>5
  <2>2. CASE k <= m
    <3>1. m \in k..(Len(L[i]) - 1) /\ m + 1 \in DOMAIN L[i] /\ m # k - 1 /\ m + 1 # k - 1 /\ m + 1 # k
      BY <1>8, <2>0, <2>2
    <3>2. h.entries[m] = records[L[i][m + 1]] /\ L2[i][m] = L[i][m + 1]
      BY <1>15, <1>17, <3>1
    <3>. QED BY Zenon, <1>12, <1>16, <3>1, <3>2
  <2>. QED BY <2>0, <2>1, <2>2
<1>19. g.info = records'[i] /\ g.iter <= Len(g.entries) + 1 /\ Len(g.entries) = Len(L2[i])
  <2>1. k <= (Len(L[i]) - 1) + 1
    BY <1>8
  <2>. QED BY <1>12, <1>15, <1>16, <1>17, <2>1
<1>20. SetTop(g)
  BY <1>7, <1>13
<1>21. i \in InfosOf(records') /\ \A j \in InfosOf(records) \ {i} :
           /\ j \in InfosOf(records') /\ records'[j] = records[j] /\ L2[j] = L[j]
           /\ \A m \in DOMAIN L[j] : records'[L[j][m]] = records[L[j][m]]
  BY <1>3, <1>10
<1>22. Forest(records', L2, P)
  BY <1>10
<1>23. g \in IterShape /\ g.infoAddr = i /\ g.path = Top.path /\ g.call = "edit"
  BY <1>16
<1>. QED BY <1>1, <1>3, <1>18, <1>19, <1>20, <1>21, <1>22, <1>23, ListEdited

-----------------------------------------------------------------------------
(* The steps together.                                                      *)

(* Every step keeps the invariant.                                          *)
LEMMA NextHolds == TreeInv /\ [TreeNext]_treeVars => TreeInv'
<1>. SUFFICES ASSUME TreeInv, [TreeNext]_treeVars PROVE TreeInv'
  OBVIOUS
<1>1. PICK L, P : TreeHolds(L, P)
  BY DEF TreeInv
<1>2. CASE UNCHANGED treeVars
  <2>1. records' = records /\ iters' = iters /\ checked' = checked
    BY <1>2 DEF treeVars
  <2>2. TreeHolds(L, P)'
    BY <1>1, <2>1 DEF TreeHolds
  <2>. QED BY <2>2, Zenon DEF TreeInv
<1>3. CASE \E call \in {"edit", "dir"} : NewIterator(call)
  BY <1>1, <1>3, NewIteratorHolds
<1>4. CASE Descend
  BY <1>1, <1>4, DescendHolds
<1>5. CASE Ascend
  BY <1>1, <1>5, AscendHolds
<1>6. CASE SeekBegin
  BY <1>1, <1>6, SeekBeginHolds
<1>7. CASE NextEntry
  BY <1>1, <1>7, NextEntryHolds
<1>8. CASE \E name \in Name : SeekTo(name) \/ CreateExistingEntry(name)
  BY <1>1, <1>8, SeekToHolds, CreateExistingEntryHolds
<1>9. CASE \E a \in Addr : CreateChildArray(a)
  BY <1>1, <1>9, CreateChildArrayHolds
<1>10. CASE \E a \in Addr : \E name \in Name : CreateEntry(name, a)
  BY <1>1, <1>10, CreateEntryHolds
<1>11. CASE \E a \in Addr : \E d \in TreePayload : SetData(d, a)
  BY <1>1, <1>11, SetDataHolds
<1>12. CASE RemoveData
  BY <1>1, <1>12, RemoveDataHolds
<1>13. CASE DeleteEntry
  BY <1>1, <1>13, DeleteEntryHolds
<1>14. CASE DeleteChildArray
  BY <1>1, <1>14, DeleteChildArrayHolds
<1>15. CASE EnterDirectory
  BY <1>1, <1>15, EnterDirectoryHolds
<1>16. CASE EnterFCO
  BY <1>1, <1>16, EnterFCOHolds
<1>17. CASE Return
  BY <1>1, <1>17, ReturnHolds
<1>. QED
  BY <1>2, <1>3, <1>4, <1>5, <1>6, <1>7, <1>8, <1>9, <1>10, <1>11, <1>12, <1>13, <1>14, <1>15, <1>16,
     <1>17 DEF TreeNext

(* Whatever is created, deleted and rewritten through the iterators, and    *)
(* however deep their stack is, the records stay a tree of sorted lists,    *)
(* and every iterator agrees with what is on disk.                          *)
THEOREM TreeStaysWellFormed == TreeSpec => []TreeWellFormed
<1>1. TreeSpec => []TreeInv
  BY StartHolds, NextHolds, PTL DEF TreeSpec
<1>2. TreeInv => TreeWellFormed
  BY TreeHeldIsWellFormed DEF TreeInv
<1>. QED BY <1>1, <1>2, PTL

-----------------------------------------------------------------------------
(* What is seen of the records: the entries of each array at their paths.   *)

Members(l) == {l[m] : m \in DOMAIN l}
Spot(R, L, P, e, q) == \E i \in InfosOf(R) : e \in Members(L[i]) /\ q = Append(P[i], R[e].name)
Shows(R, L, P, q, v) == \E e : Spot(R, L, P, e, q) /\ v = PayloadAt(R, e)
DataIs(R, L, P) ==
  /\ DataOf(R) = [q \in DOMAIN DataOf(R) |-> DataOf(R)[q]]
  /\ \A q : q \in DOMAIN DataOf(R) <=> \E v : Shows(R, L, P, q, v)
  /\ \A q, v : Shows(R, L, P, q, v) => DataOf(R)[q] = v
PathsOf(R) == {x.path : x \in Arrays(R)}

(* Where an entry is seen, and with what payload.                           *)
LEMMA DataShown ==
  ASSUME NEW R, NEW L, NEW P, Forest(R, L, P)
  PROVE  DataIs(R, L, P)
<1>1. /\ DataOf(R) = [p \in DOMAIN DataOf(R) |-> DataOf(R)[p]]
      /\ \A p : p \in DOMAIN DataOf(R) <=>
           \E i \in InfosOf(R) : \E k \in DOMAIN L[i] : p = PathAt(R, L, P, i, k)
      /\ \A i \in InfosOf(R) : \A k \in DOMAIN L[i] :
           DataOf(R)[PathAt(R, L, P, i, k)] = PayloadAt(R, L[i][k])
  BY DataRead
<1>2. ASSUME NEW q PROVE q \in DOMAIN DataOf(R) <=> \E v : Shows(R, L, P, q, v)
  <2>1. ASSUME q \in DOMAIN DataOf(R) PROVE \E v : Shows(R, L, P, q, v)
    <3>1. PICK i \in InfosOf(R) : \E k \in DOMAIN L[i] : q = PathAt(R, L, P, i, k)
      BY <1>1, <2>1
    <3>2. PICK k \in DOMAIN L[i] : q = PathAt(R, L, P, i, k)
      BY <3>1
    <3>3. Spot(R, L, P, L[i][k], q)
      BY <3>2 DEF Members, PathAt, Spot
    <3>4. Shows(R, L, P, q, PayloadAt(R, L[i][k]))
      BY <3>3 DEF Shows
    <3>. QED BY <3>4
  <2>2. ASSUME NEW v, Shows(R, L, P, q, v) PROVE q \in DOMAIN DataOf(R)
    BY <1>1, <2>2 DEF Shows, Spot, Members, PathAt
  <2>. QED BY <2>1, <2>2
<1>3. ASSUME NEW q, NEW v, Shows(R, L, P, q, v) PROVE DataOf(R)[q] = v
  BY <1>1, <1>3 DEF Shows, Spot, Members, PathAt
<1>. QED BY <1>1, <1>2, <1>3 DEF DataIs

(* The arrays seen are at the paths of P.                                   *)
LEMMA PathsShown ==
  ASSUME NEW R, NEW L, NEW P, Forest(R, L, P)
  PROVE  PathsOf(R) = {P[i] : i \in InfosOf(R)}
<1>1. ASSUME NEW x \in Arrays(R) PROVE x.path \in {P[i] : i \in InfosOf(R)}
  BY ArraysAre
<1>2. ASSUME NEW i \in InfosOf(R) PROVE P[i] \in PathsOf(R)
  <2>1. [path |-> P[i], array |-> i] \in Arrays(R)
    BY ArraysAre
  <2>2. [path |-> P[i], array |-> i].path = P[i]
    OBVIOUS
  <2>. QED BY <2>1, <2>2 DEF PathsOf
<1>. QED BY <1>1, <1>2 DEF PathsOf

LEMMA InitShown == TreeInit => Tree!Init
<1>. SUFFICES ASSUME TreeInit PROVE Tree!Init
  OBVIOUS
<1>1. PICK L, P : TreeHolds(L, P)
  BY StartHolds DEF TreeInv
<1>2. Forest(records, L, P)
  BY <1>1 DEF TreeHolds
<1>3. DOMAIN records = {Root} /\ records[Root].type = "info"
  BY DEF TreeInit, ArrayInfo
<1>4. InfosOf(records) = {Root} /\ EntriesOf(records) = {}
  BY <1>3 DEF InfosOf, EntriesOf
<1>5. P[Root] = <<>> /\ L[Root] \in Seq({})
  BY <1>2, <1>4 DEF Forest, Paths, Lists
<1>6. Members(L[Root]) = {}
  <2>1. \A m \in DOMAIN L[Root] : L[Root][m] \in {}
    BY <1>5
  <2>. QED BY <2>1 DEF Members
<1>7. TreeArrays = {<<>>}
  <2>1. PathsOf(records) = {P[i] : i \in InfosOf(records)}
    BY <1>2, PathsShown
  <2>. QED BY <1>4, <1>5, <2>1 DEF TreeArrays, PathsOf
<1>8. TreeData = <<>>
  <2>1. DataIs(records, L, P)
    BY <1>2, DataShown
  <2>2. \A q, v : ~ Shows(records, L, P, q, v)
    BY <1>4, <1>6 DEF Shows, Spot
  <2>3. DOMAIN TreeData = {} /\ TreeData = [q \in DOMAIN TreeData |-> TreeData[q]]
    BY <2>1, <2>2 DEF DataIs, TreeData
  <2>. HIDE DEF TreeData
  <2>. QED BY <2>3
<1>. QED BY <1>7, <1>8 DEF Tree!Init

(* The place of the entry that a step is about.                             *)
LEMMA EntryShown ==
  ASSUME NEW R, NEW L, NEW P, Forest(R, L, P), NEW i \in InfosOf(R), NEW k \in DOMAIN L[i],
         NEW p, p = PathAt(R, L, P, i, k)
  PROVE  /\ p \in Tree!Path
         /\ Spot(R, L, P, L[i][k], p)
         /\ R[L[i][k]].child = Null => p \notin PathsOf(R)
<1>1. /\ P[i] \in Seq(Name) /\ Len(P[i]) \in Nat /\ Len(P[i]) < MaxDepth
      /\ p \in Seq(Name) /\ p # <<>> /\ Len(p) = Len(P[i]) + 1
  BY PathFacts
<1>2. p \in Tree!Path
  <2>1. Len(p) <= MaxDepth
    BY <1>1, HierAssumption
  <2>. QED BY <1>1, <2>1, BoundedPath DEF Tree!Path, Tree!SeqOf, SeqOf
<1>3. Spot(R, L, P, L[i][k], p)
  <2>1. L[i][k] \in Members(L[i])
    BY DEF Members
  <2>. QED BY <2>1 DEF Spot, PathAt
<1>4. ASSUME R[L[i][k]].child = Null, p \in PathsOf(R) PROVE FALSE
  <2>1. PICK c \in InfosOf(R) : P[c] = p
    BY <1>4, PathsShown
  <2>2. c # Root
    BY <1>1, <2>1 DEF Forest, Paths
  <2>3. PICK j \in InfosOf(R) : \E m \in DOMAIN L[j] : R[L[j][m]].child = c
    BY <2>2 DEF Forest, Paths
  <2>4. PICK m \in DOMAIN L[j] : R[L[j][m]].child = c
    BY <2>3
  <2>5. c # Null
    BY NodeKinds DEF Forest
  <2>6. P[c] = PathAt(R, L, P, j, m)
    BY SMTT(30), <2>4, <2>5 DEF Forest, Paths, PathAt
  <2>a. PathAt(R, L, P, i, k) = PathAt(R, L, P, j, m)
    BY <2>1, <2>6
  <2>7. i = j /\ k = m
    BY <2>a, PathsDiffer
  <2>. QED BY <1>4, <2>4, <2>5, <2>7
<1>. QED BY <1>2, <1>3, <1>4

(* Only entries are seen.                                                   *)
LEMMA SpotFacts ==
  ASSUME NEW R, NEW L, NEW P, Forest(R, L, P), NEW e, NEW q, Spot(R, L, P, e, q)
  PROVE  e \in EntriesOf(R) /\ \E i \in InfosOf(R) : \E k \in DOMAIN L[i] : e = L[i][k] /\ q = PathAt(R, L, P, i, k)
<1>1. PICK i \in InfosOf(R) : e \in Members(L[i]) /\ q = Append(P[i], R[e].name)
  BY DEF Spot
<1>2. PICK k \in DOMAIN L[i] : e = L[i][k]
  BY <1>1 DEF Members
<1>3. q = PathAt(R, L, P, i, k) /\ e \in EntriesOf(R)
  BY <1>1, <1>2, OnePlace DEF PathAt, Forest
<1>. QED BY <1>2, <1>3

(* An entry is seen at one path, and no other entry is seen there.          *)
LEMMA OneSpot ==
  ASSUME NEW R, NEW L, NEW P, Forest(R, L, P), NEW e, NEW q, Spot(R, L, P, e, q),
         NEW f, NEW r, Spot(R, L, P, f, r)
  PROVE  e = f <=> q = r
<1>1. PICK i \in InfosOf(R) : \E k \in DOMAIN L[i] : e = L[i][k] /\ q = PathAt(R, L, P, i, k)
  BY SpotFacts
<1>2. PICK k \in DOMAIN L[i] : e = L[i][k] /\ q = PathAt(R, L, P, i, k)
  BY <1>1
<1>3. PICK j \in InfosOf(R) : \E m \in DOMAIN L[j] : f = L[j][m] /\ r = PathAt(R, L, P, j, m)
  BY SpotFacts
<1>4. PICK m \in DOMAIN L[j] : f = L[j][m] /\ r = PathAt(R, L, P, j, m)
  BY <1>3
<1>5. ASSUME e = f PROVE q = r
  <2>0. L[i][k] = L[j][m]
    BY <1>2, <1>4, <1>5
  <2>1. i = j /\ k = m
    BY <2>0, OnePlace DEF Forest
  <2>. QED BY <1>2, <1>4, <2>1
<1>6. ASSUME q = r PROVE e = f
  <2>1. PathAt(R, L, P, i, k) = PathAt(R, L, P, j, m)
    BY <1>2, <1>4, <1>6
  <2>2. i = j /\ k = m
    BY <2>1, PathsDiffer
  <2>. QED BY <1>2, <1>4, <2>2
<1>. QED BY <1>5, <1>6

(* Two functions are the same that show the same.                           *)
LEMMA DataFrom ==
  ASSUME NEW R, NEW L, NEW P, Forest(R, L, P),
         NEW f, f = [q \in DOMAIN f |-> f[q]],
         \A q : q \in DOMAIN f <=> \E e : Spot(R, L, P, e, q),
         \A q, e : Spot(R, L, P, e, q) => f[q] = PayloadAt(R, e)
  PROVE  DataOf(R) = f
<1>1. DataIs(R, L, P)
  BY DataShown
<1>2. DataOf(R) = [q \in DOMAIN DataOf(R) |-> DataOf(R)[q]]
  BY <1>1 DEF DataIs
<1>3. \A q : q \in DOMAIN DataOf(R) <=> \E e : Spot(R, L, P, e, q)
  BY <1>1 DEF DataIs, Shows
<1>4. \A q, e : Spot(R, L, P, e, q) => DataOf(R)[q] = PayloadAt(R, e)
  BY <1>1 DEF DataIs, Shows
<1>5. PICK g : g = DataOf(R)
  OBVIOUS
<1>6. DOMAIN g = DOMAIN f
  BY <1>3, <1>5
<1>7. \A q \in DOMAIN f : g[q] = f[q]
  BY <1>3, <1>4, <1>5, <1>6
<1>8. g = [q \in DOMAIN g |-> g[q]]
  BY <1>2, <1>5
<1>9. g = f
  BY <1>6, <1>7, <1>8
<1>. QED BY <1>5, <1>9

(* The data seen, entry by entry.                                           *)
LEMMA DataHas ==
  ASSUME NEW R, NEW L, NEW P, Forest(R, L, P)
  PROVE  /\ DataOf(R) = [q \in DOMAIN DataOf(R) |-> DataOf(R)[q]]
         /\ \A q : q \in DOMAIN DataOf(R) <=> \E e : Spot(R, L, P, e, q)
         /\ \A q, e : Spot(R, L, P, e, q) => DataOf(R)[q] = PayloadAt(R, e)
<1>1. DataIs(R, L, P)
  BY DataShown
<1>. QED BY <1>1 DEF DataIs, Shows

(* The same is seen if the entries and payloads at every path are the same. *)
LEMMA SameShown ==
  ASSUME NEW R, NEW L, NEW P, Forest(R, L, P), NEW R2, NEW L2, NEW P2, Forest(R2, L2, P2),
         \A e, q : Spot(R2, L2, P2, e, q) <=> Spot(R, L, P, e, q),
         \A e \in EntriesOf(R) : PayloadAt(R2, e) = PayloadAt(R, e)
  PROVE  DataOf(R2) = DataOf(R)
<1>1. PICK f : f = DataOf(R)
  OBVIOUS
<1>2. /\ f = [q \in DOMAIN f |-> f[q]]
      /\ \A q : q \in DOMAIN f <=> \E e : Spot(R, L, P, e, q)
      /\ \A q, e : Spot(R, L, P, e, q) => f[q] = PayloadAt(R, e)
  BY <1>1, DataHas
<1>3. \A e, q : Spot(R, L, P, e, q) => e \in EntriesOf(R)
  BY SpotFacts
<1>4. \A q : q \in DOMAIN f <=> \E e : Spot(R2, L2, P2, e, q)
  BY <1>2
<1>5. \A q, e : Spot(R2, L2, P2, e, q) => f[q] = PayloadAt(R2, e)
  BY <1>2, <1>3
<1>6. DataOf(R2) = f
  BY <1>2, <1>4, <1>5, DataFrom
<1>. QED BY <1>1, <1>6

(* One payload is seen to change if one entry's does.                       *)
LEMMA OneShownOtherwise ==
  ASSUME NEW R, NEW L, NEW P, Forest(R, L, P), NEW R2, NEW L2, NEW P2, Forest(R2, L2, P2),
         \A e, q : Spot(R2, L2, P2, e, q) <=> Spot(R, L, P, e, q),
         NEW x, NEW p, Spot(R, L, P, x, p),
         \A e \in EntriesOf(R) \ {x} : PayloadAt(R2, e) = PayloadAt(R, e)
  PROVE  p \in DOMAIN DataOf(R) /\ DataOf(R2) = [DataOf(R) EXCEPT ![p] = PayloadAt(R2, x)]
<1>1. PICK d : d = DataOf(R)
  OBVIOUS
<1>2. /\ d = [q \in DOMAIN d |-> d[q]]
      /\ \A q : q \in DOMAIN d <=> \E e : Spot(R, L, P, e, q)
      /\ \A q, e : Spot(R, L, P, e, q) => d[q] = PayloadAt(R, e)
  BY <1>1, DataHas
<1>3. \A e, q : Spot(R, L, P, e, q) => e \in EntriesOf(R) /\ (e = x <=> q = p)
  BY SpotFacts, OneSpot
<1>4. PICK f : f = [d EXCEPT ![p] = PayloadAt(R2, x)]
  OBVIOUS
<1>5. p \in DOMAIN d
  BY <1>2
<1>6. /\ f = [q \in DOMAIN f |-> f[q]] /\ DOMAIN f = DOMAIN d /\ f[p] = PayloadAt(R2, x)
      /\ \A q \in DOMAIN d : q # p => f[q] = d[q]
  BY <1>2, <1>4, <1>5
<1>7. \A q : q \in DOMAIN f <=> \E e : Spot(R2, L2, P2, e, q)
  BY <1>2, <1>6
<1>8. ASSUME NEW q, NEW e, Spot(R2, L2, P2, e, q) PROVE f[q] = PayloadAt(R2, e)
  <2>1. Spot(R, L, P, e, q) /\ q \in DOMAIN d
    BY <1>2, <1>8
  <2>. QED BY <1>2, <1>3, <1>6, <2>1
<1>9. DataOf(R2) = f
  BY <1>6, <1>7, <1>8, DataFrom
<1>. QED BY <1>1, <1>4, <1>5, <1>9

(* One more entry is seen if there is one more.                             *)
LEMMA OneMoreShown ==
  ASSUME NEW R, NEW L, NEW P, Forest(R, L, P), NEW R2, NEW L2, NEW P2, Forest(R2, L2, P2),
         NEW x, NEW p, x \notin EntriesOf(R),
         \A e, q : Spot(R2, L2, P2, e, q) <=> Spot(R, L, P, e, q) \/ (e = x /\ q = p),
         \A e \in EntriesOf(R) : PayloadAt(R2, e) = PayloadAt(R, e),
         PayloadAt(R2, x) = NoPayload
  PROVE  /\ p \notin DOMAIN DataOf(R)
         /\ DataOf(R2) = [q \in DOMAIN DataOf(R) \cup {p} |-> IF q = p THEN NoPayload ELSE DataOf(R)[q]]
<1>1. PICK d : d = DataOf(R)
  OBVIOUS
<1>2. /\ d = [q \in DOMAIN d |-> d[q]]
      /\ \A q : q \in DOMAIN d <=> \E e : Spot(R, L, P, e, q)
      /\ \A q, e : Spot(R, L, P, e, q) => d[q] = PayloadAt(R, e)
  BY <1>1, DataHas
<1>3. \A e, q : Spot(R, L, P, e, q) => e \in EntriesOf(R)
  BY SpotFacts
<1>4. p \notin DOMAIN d
  <2>1. ASSUME NEW e, Spot(R, L, P, e, p) PROVE FALSE
    <3>1. Spot(R2, L2, P2, e, p) /\ Spot(R2, L2, P2, x, p) /\ e # x
      BY <1>3, <2>1
    <3>. QED BY <3>1, OneSpot
  <2>. QED BY <1>2, <2>1
<1>5. PICK f : f = [q \in DOMAIN d \cup {p} |-> IF q = p THEN NoPayload ELSE d[q]]
  OBVIOUS
<1>6. /\ f = [q \in DOMAIN f |-> f[q]] /\ DOMAIN f = DOMAIN d \cup {p} /\ f[p] = NoPayload
      /\ \A q \in DOMAIN d : f[q] = d[q]
  BY <1>4, <1>5
<1>7. \A q : q \in DOMAIN f <=> \E e : Spot(R2, L2, P2, e, q)
  BY <1>2, <1>6
<1>8. ASSUME NEW q, NEW e, Spot(R2, L2, P2, e, q) PROVE f[q] = PayloadAt(R2, e)
  <2>1. CASE Spot(R, L, P, e, q)
    BY <1>2, <1>3, <1>6, <2>1
  <2>2. CASE e = x /\ q = p
    BY <1>6, <2>2
  <2>. QED BY <1>8, <2>1, <2>2
<1>9. DataOf(R2) = f
  BY <1>6, <1>7, <1>8, DataFrom
<1>. QED BY <1>1, <1>4, <1>5, <1>9

Without(d, p) == [q \in DOMAIN d \ {p} |-> d[q]]

(* One entry is seen no more if it is gone.                                 *)
LEMMA OneLessShown ==
  ASSUME NEW R, NEW L, NEW P, Forest(R, L, P), NEW R2, NEW L2, NEW P2, Forest(R2, L2, P2),
         NEW x, NEW p, Spot(R, L, P, x, p),
         \A e, q : Spot(R2, L2, P2, e, q) <=> Spot(R, L, P, e, q) /\ e # x,
         \A e \in EntriesOf(R) \ {x} : PayloadAt(R2, e) = PayloadAt(R, e)
  PROVE  DataOf(R2) = Without(DataOf(R), p)
<1>1. PICK d : d = DataOf(R)
  OBVIOUS
<1>2. /\ d = [q \in DOMAIN d |-> d[q]]
      /\ \A q : q \in DOMAIN d <=> \E e : Spot(R, L, P, e, q)
      /\ \A q, e : Spot(R, L, P, e, q) => d[q] = PayloadAt(R, e)
  BY <1>1, DataHas
<1>3. \A e, q : Spot(R, L, P, e, q) => e \in EntriesOf(R) /\ (e = x <=> q = p)
  BY SpotFacts, OneSpot
<1>4. PICK f : f = [q \in DOMAIN d \ {p} |-> d[q]]
  OBVIOUS
<1>5. /\ f = [q \in DOMAIN f |-> f[q]] /\ DOMAIN f = DOMAIN d \ {p}
      /\ \A q \in DOMAIN d \ {p} : f[q] = d[q]
  BY <1>4
<1>6. \A q : q \in DOMAIN f <=> \E e : Spot(R2, L2, P2, e, q)
  BY <1>2, <1>3, <1>5
<1>7. \A q, e : Spot(R2, L2, P2, e, q) => f[q] = PayloadAt(R2, e)
  BY <1>2, <1>3, <1>5
<1>8. DataOf(R2) = f
  BY <1>5, <1>6, <1>7, DataFrom
<1>. QED BY <1>1, <1>4, <1>8 DEF Without

(* The effect of each change on the places of the entries.                  *)

(* Every entry stays where it was seen while lists and paths do.            *)
LEMMA SpotsKept ==
  ASSUME NEW R, NEW L, NEW P, Forest(R, L, P), NEW R2, InfosOf(R2) = InfosOf(R),
         \A g \in EntriesOf(R) : R2[g].name = R[g].name
  PROVE  \A e, q : Spot(R2, L, P, e, q) <=> Spot(R, L, P, e, q)
<1>1. \A i \in InfosOf(R) : \A e \in Members(L[i]) : e \in EntriesOf(R)
  BY OnePlace DEF Members, Forest
<1>. QED BY <1>1 DEF Spot

(* A new array that is empty shows no entry.                                *)
LEMMA SpotsAfterArrayAdded ==
  ASSUME NEW R, NEW L, NEW P, Forest(R, L, P), NEW x, NEW a, NEW p, NEW L2, NEW P2, NEW R2,
         L2 = With(L, InfosOf(R), a, <<>>), P2 = With(P, InfosOf(R), a, p), ArrayAdded(R, R2, x, a, L2, P2)
  PROVE  \A e, q : Spot(R2, L2, P2, e, q) <=> Spot(R, L, P, e, q)
<1>1. \A i \in InfosOf(R) : \A e \in Members(L[i]) : e \in EntriesOf(R)
  BY OnePlace DEF Members, Forest
<1>2. /\ InfosOf(R2) = InfosOf(R) \cup {a} /\ a \notin InfosOf(R)
      /\ \A g \in EntriesOf(R) : R2[g].name = R[g].name
  BY DEF ArrayAdded
<1>3. /\ L2[a] = <<>> /\ \A i \in InfosOf(R) : L2[i] = L[i] /\ P2[i] = P[i]
  BY <1>2 DEF With
<1>4. Members(L2[a]) = {}
  BY <1>3 DEF Members
<1>. QED BY <1>1, <1>2, <1>3, <1>4 DEF Spot

(* An empty array showed none.                                              *)
LEMMA SpotsAfterArrayDropped ==
  ASSUME NEW R, NEW L, NEW P, Forest(R, L, P), NEW c \in InfosOf(R), L[c] = <<>>, NEW L2, NEW P2, NEW R2,
         L2 = [j \in InfosOf(R) \ {c} |-> L[j]], P2 = [j \in InfosOf(R) \ {c} |-> P[j]],
         InfosOf(R2) = InfosOf(R) \ {c}, \A g \in EntriesOf(R) : R2[g].name = R[g].name
  PROVE  \A e, q : Spot(R2, L2, P2, e, q) <=> Spot(R, L, P, e, q)
<1>1. \A i \in InfosOf(R) : \A e \in Members(L[i]) : e \in EntriesOf(R)
  BY OnePlace DEF Members, Forest
<1>2. Members(L[c]) = {}
  BY DEF Members
<1>3. \A i \in InfosOf(R) \ {c} : L2[i] = L[i] /\ P2[i] = P[i]
  OBVIOUS
<1>. QED BY <1>1, <1>2, <1>3 DEF Spot

(* A list with an entry inserted has that one more.                         *)
LEMMA MembersAfterInsert ==
  ASSUME NEW S, NEW s \in Seq(S), NEW k \in 1..(Len(s) + 1), NEW x \in S
  PROVE  Members(InsertAt(s, k, x)) = Members(s) \cup {x}
<1>1. PICK t : t = InsertAt(s, k, x)
  OBVIOUS
<1>2. Inserted(S, s, k, x, t)
  BY <1>1, InsertFacts
<1>3. /\ Len(s) \in Nat /\ DOMAIN s = 1..Len(s) /\ DOMAIN t = 1..(Len(s) + 1) /\ k \in Nat
      /\ \A m \in 1..(k - 1) : t[m] = s[m]
      /\ t[k] = x
      /\ \A m \in k..Len(s) : t[m + 1] = s[m]
  BY <1>2 DEF Inserted
<1>4. ASSUME NEW m \in DOMAIN s PROVE s[m] \in Members(t)
  <2>1. CASE m < k
    <3>1. m \in 1..(k - 1) /\ m \in DOMAIN t
      BY <1>3, <2>1
    <3>. QED BY <1>3, <3>1 DEF Members
  <2>2. CASE k <= m
    <3>1. m \in k..Len(s) /\ m + 1 \in DOMAIN t
      BY <1>3, <2>2
    <3>. QED BY <1>3, <3>1 DEF Members
  <2>. QED BY <1>3, <2>1, <2>2
<1>5. x \in Members(t)
  BY <1>3 DEF Members
<1>6. ASSUME NEW m \in DOMAIN t PROVE t[m] \in Members(s) \cup {x}
  <2>1. CASE m < k
    <3>1. m \in 1..(k - 1) /\ m \in DOMAIN s
      BY <1>3, <2>1
    <3>. QED BY <1>3, <3>1 DEF Members
  <2>2. CASE m = k
    BY <1>3, <2>2
  <2>3. CASE k < m
    <3>1. m - 1 \in k..Len(s) /\ (m - 1) + 1 = m /\ m - 1 \in DOMAIN s
      BY <1>3, <2>3
    <3>2. t[m] = s[m - 1]
      BY <1>3, <3>1
    <3>. QED BY <3>1, <3>2 DEF Members
  <2>. QED BY <1>3, <2>1, <2>2, <2>3
<1>7. Members(t) = Members(s) \cup {x}
  BY <1>4, <1>5, <1>6 DEF Members
<1>. QED BY <1>1, <1>7

(* A list with an entry removed has that one less.                          *)
LEMMA MembersAfterRemove ==
  ASSUME NEW S, NEW s \in Seq(S), NEW k \in DOMAIN s, \A m, n \in DOMAIN s : s[m] = s[n] => m = n
  PROVE  Members(RemoveAt(s, k)) = Members(s) \ {s[k]}
<1>1. PICK t : t = RemoveAt(s, k)
  OBVIOUS
<1>2. Removed(S, s, k, t)
  BY <1>1, RemoveFacts
<1>3. /\ Len(s) \in Nat /\ DOMAIN s = 1..Len(s) /\ DOMAIN t = 1..(Len(s) - 1) /\ k \in Nat
      /\ \A m \in 1..(k - 1) : t[m] = s[m]
      /\ \A m \in k..(Len(s) - 1) : t[m] = s[m + 1]
  BY <1>2 DEF Removed
<1>4. ASSUME NEW m \in DOMAIN s, m # k PROVE s[m] \in Members(t)
  <2>1. CASE m < k
    <3>1. m \in 1..(k - 1) /\ m \in DOMAIN t
      BY <1>3, <2>1
    <3>. QED BY <1>3, <3>1 DEF Members
  <2>2. CASE k < m
    <3>1. m - 1 \in k..(Len(s) - 1) /\ (m - 1) + 1 = m /\ m - 1 \in DOMAIN t
      BY <1>3, <2>2
    <3>2. t[m - 1] = s[m]
      BY <1>3, <3>1
    <3>. QED BY <3>1, <3>2 DEF Members
  <2>. QED BY <1>3, <1>4, <2>1, <2>2
<1>5. ASSUME NEW m \in DOMAIN t PROVE t[m] \in Members(s) \ {s[k]}
  <2>1. CASE m < k
    <3>1. m \in 1..(k - 1) /\ m \in DOMAIN s /\ m # k
      BY <1>3, <2>1
    <3>. QED BY <1>3, <3>1 DEF Members
  <2>2. CASE k <= m
    <3>1. m \in k..(Len(s) - 1) /\ m + 1 \in DOMAIN s /\ m + 1 # k
      BY <1>3, <2>2
    <3>2. t[m] = s[m + 1]
      BY <1>3, <3>1
    <3>. QED BY <3>1, <3>2 DEF Members
  <2>. QED BY <1>3, <2>1, <2>2
<1>6. Members(t) = Members(s) \ {s[k]}
  BY <1>4, <1>5 DEF Members
<1>. QED BY <1>1, <1>6

(* An inserted entry is seen at its array's path and its name; the others   *)
(* stay.                                                                    *)
LEMMA SpotsAfterInsert ==
  ASSUME NEW R, NEW L, NEW P, Forest(R, L, P), NEW i \in InfosOf(R), NEW k \in 1..(Len(L[i]) + 1),
         NEW a, NEW L2, NEW R2, EntryInserted(R, R2, L, L2, P, i, k, a)
  PROVE  \A e, q : Spot(R2, L2, P, e, q) <=>
           Spot(R, L, P, e, q) \/ (e = a /\ q = Append(P[i], R2[a].name))
<1>1. \A j \in InfosOf(R) : \A e \in Members(L[j]) : e \in EntriesOf(R)
  BY OnePlace DEF Members, Forest
<1>2. /\ InfosOf(R2) = InfosOf(R) /\ a \notin EntriesOf(R) /\ \A j \in InfosOf(R) \ {i} : L2[j] = L[j]
      /\ \A g \in EntriesOf(R) : R2[g].name = R[g].name
      /\ L2[i] = InsertAt(L[i], k, a)
  BY DEF EntryInserted
<1>3. Members(L2[i]) = Members(L[i]) \cup {a}
  <2>1. PICK S : S = EntriesOf(R) \cup {a}
    OBVIOUS
  <2>2. L[i] \in Seq(EntriesOf(R))
    BY DEF Forest, Lists
  <2>3. L[i] \in Seq(S) /\ a \in S
    BY <2>1, <2>2
  <2>. QED BY <1>2, <2>3, MembersAfterInsert
<1>4. \A j \in InfosOf(R) : \A e : e \in Members(L2[j]) <=> e \in Members(L[j]) \/ (j = i /\ e = a)
  BY <1>2, <1>3
<1>. QED BY <1>1, <1>2, <1>4 DEF Spot

(* A removed entry is not seen; the others stay.                            *)
LEMMA SpotsAfterRemove ==
  ASSUME NEW R, NEW L, NEW P, Forest(R, L, P), NEW i \in InfosOf(R), NEW k \in DOMAIN L[i],
         NEW L2, NEW R2, EntryTaken(R, R2, L, L2, P, i, k)
  PROVE  \A e, q : Spot(R2, L2, P, e, q) <=> Spot(R, L, P, e, q) /\ e # L[i][k]
<1>1. \A j \in InfosOf(R) : \A e \in Members(L[j]) : e \in EntriesOf(R)
  BY OnePlace DEF Members, Forest
<1>2. /\ InfosOf(R2) = InfosOf(R) /\ \A j \in InfosOf(R) \ {i} : L2[j] = L[j]
      /\ \A g \in EntriesOf(R) \ {L[i][k]} : R2[g].name = R[g].name
      /\ L2[i] = RemoveAt(L[i], k)
  BY DEF EntryTaken
<1>3. Members(L2[i]) = Members(L[i]) \ {L[i][k]}
  <2>1. L[i] \in Seq(EntriesOf(R))
    BY DEF Forest, Lists
  <2>2. \A m, n \in DOMAIN L[i] : L[i][m] = L[i][n] => m = n
    BY OnePlace DEF Forest
  <2>. QED BY <1>2, <2>1, <2>2, MembersAfterRemove
<1>4. \A j \in InfosOf(R) \ {i} : L[i][k] \notin Members(L[j])
  BY OnePlace DEF Forest, Members
<1>5. \A j \in InfosOf(R) : \A e : e \in Members(L2[j]) <=> e \in Members(L[j]) /\ e # L[i][k]
  BY <1>2, <1>3, <1>4
<1>. QED BY <1>1, <1>2, <1>5 DEF Spot

-----------------------------------------------------------------------------
(* Each step is a step of the tree, or none.                                *)

(* The paths that a step changes are among those the abstract step is       *)
(* chosen from.                                                             *)
LEMMA TouchedData ==
  ASSUME NEW p \in Tree!Path,
         \/ (p \in DOMAIN TreeData) # (p \in DOMAIN TreeData')
         \/ p \in DOMAIN TreeData /\ TreeData[p] # TreeData'[p]
  PROVE  p \in Tree!Touched
BY DEF Tree!Touched

LEMMA TouchedArray ==
  ASSUME NEW p \in Tree!Path, p \in (TreeArrays \ TreeArrays') \cup (TreeArrays' \ TreeArrays)
  PROVE  p \in Tree!Touched
BY DEF Tree!Touched

(* The same arrays are seen while their paths are the same.                 *)
LEMMA SameArrays ==
  ASSUME NEW L, NEW P, NEW L2, Forest(records, L, P), Forest(records', L2, P),
         InfosOf(records') = InfosOf(records)
  PROVE  TreeArrays' = TreeArrays
<1>1. PathsOf(records) = {P[i] : i \in InfosOf(records)}
  BY PathsShown
<1>2. PathsOf(records') = {P[i] : i \in InfosOf(records)}
  <2>1. PICK R2 : R2 = records'
    OBVIOUS
  <2>2. Forest(R2, L2, P) /\ InfosOf(R2) = InfosOf(records)
    BY <2>1
  <2>3. PathsOf(R2) = {P[i] : i \in InfosOf(R2)}
    BY <2>2, PathsShown
  <2>. QED BY <2>1, <2>2, <2>3
<1>. QED BY <1>1, <1>2 DEF TreeArrays, PathsOf

ValueAt(R, a) == IF a = Null THEN NoPayload ELSE R[a].value

(* A change of one payload is seen at its entry.                            *)
LEMMA PayloadStep ==
  ASSUME NEW L, NEW P, Forest(records, L, P), NEW i \in InfosOf(records), NEW k \in DOMAIN L[i],
         NEW e, e = L[i][k], NEW a, PayloadChange(records, records', e, a),
         records'[e].name = records[e].name,
         NEW d, d = ValueAt(records', a), d \in TreePayload \cup {NoPayload}
  PROVE  [Tree!Next]_(Tree!vars)
<1>1. e \in EntriesOf(records)
  BY OnePlace DEF Forest
<1>2. PICK R2 : R2 = records'
  OBVIOUS
<1>3. PayloadChange(records, R2, e, a)
  BY <1>2
<1>4. InfosOf(R2) = InfosOf(records)
  BY <1>1, <1>3, PayloadChanged
<1>5. \A g \in EntriesOf(records) \ {e} : R2[g] = records[g] /\ PayloadAt(R2, g) = PayloadAt(records, g)
  BY <1>1, <1>3, PayloadChanged
<1>6. PayloadAt(R2, e) = d
  <2>1. PayloadAt(R2, e) = IF a = Null THEN NoPayload ELSE R2[a].value
    BY <1>1, <1>3, PayloadChanged
  <2>. QED BY <1>2, <2>1 DEF ValueAt
<1>7. Forest(R2, L, P)
  BY <1>1, <1>3, PayloadChanged
<1>8. \A g \in EntriesOf(records) : R2[g].name = records[g].name
  BY <1>2, <1>5
<1>9. \A g, q : Spot(R2, L, P, g, q) <=> Spot(records, L, P, g, q)
  BY <1>4, <1>8, SpotsKept
<1>10. PICK p : p = PathAt(records, L, P, i, k)
  OBVIOUS
<1>11. p \in Tree!Path /\ Spot(records, L, P, e, p)
  BY <1>10, EntryShown
<1>12. p \in DOMAIN DataOf(records) /\ DataOf(R2) = [DataOf(records) EXCEPT ![p] = PayloadAt(R2, e)]
  BY <1>5, <1>7, <1>9, <1>11, OneShownOtherwise
<1>13. p \in DOMAIN TreeData /\ TreeData' = [TreeData EXCEPT ![p] = d]
  BY <1>2, <1>6, <1>12 DEF TreeData
<1>14. TreeArrays' = TreeArrays
  BY <1>2, <1>4, <1>7, SameArrays
<1>15. CASE TreeData' = TreeData
  BY <1>14, <1>15 DEF Tree!vars
<1>16. CASE TreeData' # TreeData
  <2>1. TreeData[p] # TreeData'[p]
    <3>1. PICK f : f = TreeData
      OBVIOUS
    <3>2. f = [q \in DOMAIN f |-> f[q]]
      BY <3>1, DataHas DEF TreeData
    <3>3. PICK g : g = TreeData'
      OBVIOUS
    <3>4. g = [f EXCEPT ![p] = d] /\ g # f
      BY <1>13, <1>16, <3>1, <3>3
    <3>5. f[p] # g[p]
      BY <1>13, <3>1, <3>2, <3>4
    <3>. QED BY <3>1, <3>3, <3>5
  <2>2. p \in Tree!Touched
    BY <1>11, <1>13, <2>1, TouchedData
  <2>3. Tree!SetData(p, d)
    BY <1>13, <1>14 DEF Tree!SetData, Tree!Entries
  <2>. QED BY <1>11, <2>2, <2>3 DEF Tree!Next
<1>. QED BY <1>15, <1>16

LEMMA RemoveDataStep ==
  ASSUME NEW L, NEW P, TreeHolds(L, P), RemoveData
  PROVE  [Tree!Next]_(Tree!vars)
<1>1. ~ Done(Top)
  BY DEF RemoveData, HasData
<1>2. PICK i, k, e : CurrentIs(L, P, i, k, e)
  BY <1>1, CurrentFacts
<1>3. /\ PayloadChange(records, records', e, Null)
      /\ records'[e] \in EntryNode /\ records'[e].name = records[e].name
      /\ records'[e] = [records[e] EXCEPT !.data = Null]
      /\ SetTop([Top EXCEPT !.entries[Top.iter] = records'[e]])
  BY <1>2, RemoveDataWrites
<1>4. Forest(records, L, P) /\ i \in InfosOf(records) /\ k \in DOMAIN L[i] /\ e = L[i][k]
  BY <1>2 DEF CurrentIs
<1>5. NoPayload = ValueAt(records', Null)
  BY DEF ValueAt
<1>. QED BY <1>3, <1>4, <1>5, PayloadStep

LEMMA SetDataStep ==
  ASSUME NEW L, NEW P, TreeHolds(L, P), NEW d \in TreePayload, NEW a \in Addr, SetData(d, a)
  PROVE  [Tree!Next]_(Tree!vars)
<1>1. ~ Done(Top)
  BY DEF SetData
<1>2. PICK i, k, e : CurrentIs(L, P, i, k, e)
  BY <1>1, CurrentFacts
<1>3. /\ PayloadChange(records, records', e, a) /\ a # Null /\ records'[a].value = d
      /\ records'[e] \in EntryNode /\ records'[e].name = records[e].name
      /\ records'[e] = [records[e] EXCEPT !.data = a]
      /\ SetTop([Top EXCEPT !.entries[Top.iter] = records'[e]])
  BY <1>2, SetDataWrites
<1>4. Forest(records, L, P) /\ i \in InfosOf(records) /\ k \in DOMAIN L[i] /\ e = L[i][k]
  BY <1>2 DEF CurrentIs
<1>5. d \in TreePayload \cup {NoPayload} /\ d = ValueAt(records', a)
  BY <1>3 DEF ValueAt
<1>6. PayloadChange(records, records', e, a) /\ records'[e].name = records[e].name
  BY <1>3
<1>7. PICK v : v = d
  OBVIOUS
<1>8. v \in TreePayload \cup {NoPayload} /\ v = ValueAt(records', a)
  BY <1>5, <1>7
<1>. HIDE DEF SetData
<1>. QED BY <1>4, <1>6, <1>8, PayloadStep

LEMMA CreateEntryStep ==
  ASSUME NEW L, NEW P, TreeHolds(L, P), NEW a \in Addr, NEW name \in Name, CreateEntry(name, a)
  PROVE  Tree!Next
<1>1. PICK i : i = Top.infoAddr
  OBVIOUS
<1>2. PICK k : k = UpperBound(Top, name)
  OBVIOUS
<1>3. /\ i \in InfosOf(records) /\ k \in 1..(Len(L[i]) + 1)
      /\ EntryAdded(records, records', i, L[i], k, a, name)
      /\ \A m \in DOMAIN L[i] : records[L[i][m]].name # name /\ (records[L[i][m]].name < name <=> m < k)
      /\ \E h : /\ AtLink(h, i, L[i], k)
                /\ Inserted(EntryNode, [m \in DOMAIN L[i] |-> records[L[i][m]]], k,
                            Entry(name, Null, Null, At(L[i], k)), h.entries)
                /\ SetTop(WithLink(h, k, a))
  BY <1>1, <1>2, CreateEntryWrites
<1>4. Forest(records, L, P)
  BY TopFacts
<1>5. PICK L2 : L2 = [L EXCEPT ![i] = InsertAt(L[i], k, a)]
  OBVIOUS
<1>6. PICK R2 : R2 = records'
  OBVIOUS
<1>7. EntryInserted(records, R2, L, L2, P, i, k, a)
  <2>1. EntryInserted(records, records', L, L2, P, i, k, a)
    BY <1>3, <1>4, <1>5, EntryIsAdded
  <2>. QED BY <1>6, <2>1
<1>8. R2[a].name = name
  BY <1>3, <1>6 DEF EntryAdded, Entry
<1>9. PICK p : p = Append(P[i], name)
  OBVIOUS
<1>10. \A e, q : Spot(R2, L2, P, e, q) <=> Spot(records, L, P, e, q) \/ (e = a /\ q = p)
  <2>1. \A e, q : Spot(R2, L2, P, e, q) <=>
           Spot(records, L, P, e, q) \/ (e = a /\ q = Append(P[i], R2[a].name))
    BY <1>3, <1>4, <1>7, SpotsAfterInsert
  <2>. QED BY <1>8, <1>9, <2>1
<1>11. /\ a \notin EntriesOf(records) /\ Forest(R2, L2, P) /\ PayloadAt(R2, a) = NoPayload
       /\ \A e \in EntriesOf(records) : PayloadAt(R2, e) = PayloadAt(records, e)
       /\ InfosOf(R2) = InfosOf(records)
  BY <1>7 DEF EntryInserted
<1>12. /\ p \notin DOMAIN DataOf(records)
       /\ DataOf(R2) = [q \in DOMAIN DataOf(records) \cup {p} |-> IF q = p THEN NoPayload ELSE DataOf(records)[q]]
  BY <1>4, <1>10, <1>11, OneMoreShown
<1>13. /\ p \notin DOMAIN TreeData
       /\ TreeData' = [q \in DOMAIN TreeData \cup {p} |-> IF q = p THEN NoPayload ELSE TreeData[q]]
  BY <1>6, <1>12 DEF TreeData
<1>14. TreeArrays' = TreeArrays
  BY <1>4, <1>6, <1>11, SameArrays
<1>15. /\ P[i] \in Seq(Name) /\ Len(P[i]) \in Nat /\ Len(P[i]) < MaxDepth
  BY <1>3, <1>4, PathFacts
<1>16. p \in Seq(Name) /\ p # <<>> /\ Len(p) = Len(P[i]) + 1 /\ Front(p) = P[i]
  <2>1. \A s \in Seq(Name), x \in Name : /\ Append(s, x) \in Seq(Name) /\ Append(s, x) # <<>>
                                         /\ Len(Append(s, x)) = Len(s) + 1
                                         /\ Front(Append(s, x)) = s
    BY DEF Front
  <2>. QED BY <1>9, <1>15, <2>1
<1>17. p \in Tree!Path
  <2>1. Len(p) <= MaxDepth
    BY <1>15, <1>16, HierAssumption
  <2>. QED BY <1>16, <2>1, BoundedPath DEF Tree!Path, Tree!SeqOf, SeqOf
<1>18. Tree!Front(p) \in TreeArrays
  <2>1. P[i] \in PathsOf(records)
    BY <1>3, <1>4, PathsShown
  <2>2. Tree!Front(p) = Front(p)
    BY DEF Front, Tree!Front
  <2>. QED BY <1>16, <2>1, <2>2 DEF TreeArrays, PathsOf
<1>19. p \in DOMAIN TreeData'
  BY <1>13
<1>20. p \in Tree!Touched
  BY <1>13, <1>17, <1>19, TouchedData
<1>21. Tree!CreateEntry(p)
  BY <1>13, <1>14, <1>18 DEF Tree!CreateEntry, Tree!Entries
<1>. QED BY <1>17, <1>20, <1>21 DEF Tree!Next

LEMMA DeleteEntryStep ==
  ASSUME NEW L, NEW P, TreeHolds(L, P), DeleteEntry
  PROVE  Tree!Next
<1>1. ~ Done(Top)
  BY DEF DeleteEntry
<1>2. PICK i, k, e : CurrentIs(L, P, i, k, e)
  BY <1>1, CurrentFacts
<1>3. Forest(records, L, P) /\ i \in InfosOf(records) /\ k \in DOMAIN L[i] /\ e = L[i][k]
  BY <1>2 DEF CurrentIs
<1>4. /\ EntryRemoved(records, records', i, L[i], k)
      /\ records[e].child = Null /\ records[e].data = Null /\ records[e].next \in Link
      /\ \E h : /\ AtLink(h, i, L[i], k)
                /\ Removed(EntryNode, [m \in DOMAIN L[i] |-> records[L[i][m]]], k, h.entries)
                /\ SetTop(WithLink(h, k, records[e].next))
  BY <1>2, DeleteEntryWrites
<1>5. PICK L2 : L2 = [L EXCEPT ![i] = RemoveAt(L[i], k)]
  OBVIOUS
<1>6. PICK R2 : R2 = records'
  OBVIOUS
<1>7. EntryTaken(records, R2, L, L2, P, i, k)
  <2>1. EntryTaken(records, records', L, L2, P, i, k)
    BY <1>3, <1>4, <1>5, EntryIsRemoved
  <2>. QED BY <1>6, <2>1
<1>8. \A f, q : Spot(R2, L2, P, f, q) <=> Spot(records, L, P, f, q) /\ f # e
  BY <1>3, <1>7, SpotsAfterRemove
<1>9. /\ Forest(R2, L2, P) /\ InfosOf(R2) = InfosOf(records)
      /\ \A f \in EntriesOf(records) \ {e} : PayloadAt(R2, f) = PayloadAt(records, f)
  BY <1>3, <1>7 DEF EntryTaken
<1>10. PICK p : p = PathAt(records, L, P, i, k)
  OBVIOUS
<1>11. p \in Tree!Path /\ Spot(records, L, P, e, p) /\ p \notin PathsOf(records)
  BY <1>3, <1>4, <1>10, EntryShown
<1>12. DataOf(R2) = Without(DataOf(records), p)
  <2>1. /\ Forest(records, L, P) /\ Forest(R2, L2, P) /\ Spot(records, L, P, e, p)
        /\ \A f \in EntriesOf(records) \ {e} : PayloadAt(R2, f) = PayloadAt(records, f)
    BY <1>3, <1>9, <1>11
  <2>. QED BY <1>8, <2>1, OneLessShown
<1>13. p \in DOMAIN DataOf(records) /\ DataOf(records)[p] = NoPayload
  BY <1>3, <1>4, <1>11, DataHas DEF PayloadAt
<1>14. /\ p \in DOMAIN TreeData /\ TreeData[p] = NoPayload
       /\ TreeData' = [q \in DOMAIN TreeData \ {p} |-> TreeData[q]]
  BY <1>6, <1>12, <1>13 DEF TreeData, Without
<1>15. TreeArrays' = TreeArrays
  BY <1>3, <1>6, <1>9, SameArrays
<1>16. p \notin TreeArrays
  BY <1>11 DEF TreeArrays, PathsOf
<1>17. p \notin DOMAIN TreeData'
  BY <1>14
<1>18. p \in Tree!Touched
  BY <1>11, <1>14, <1>17, TouchedData
<1>19. Tree!DeleteEntry(p)
  BY <1>14, <1>15, <1>16 DEF Tree!DeleteEntry, Tree!Entries
<1>. QED BY <1>11, <1>18, <1>19 DEF Tree!Next

LEMMA CreateChildArrayStep ==
  ASSUME NEW L, NEW P, TreeHolds(L, P), NEW a \in Addr, CreateChildArray(a)
  PROVE  Tree!Next
<1>1. ~ Done(Top)
  BY DEF CreateChildArray
<1>2. PICK i, k, e : CurrentIs(L, P, i, k, e)
  BY <1>1, CurrentFacts
<1>3. Forest(records, L, P) /\ i \in InfosOf(records) /\ k \in DOMAIN L[i] /\ e = L[i][k]
  BY <1>2 DEF CurrentIs
<1>4. /\ ChildAdded(records, records', i, e, a)
      /\ records[e].child = Null /\ Len(PathAt(records, L, P, i, k)) < MaxDepth
      /\ records'[e] \in EntryNode /\ records'[e].name = records[e].name
      /\ SetTop([Top EXCEPT !.entries[Top.iter] = records'[e]])
  BY <1>2, CreateChildArrayWrites
<1>5. PICK p : p = PathAt(records, L, P, i, k)
  OBVIOUS
<1>6. PICK L2 : L2 = With(L, InfosOf(records), a, <<>>)
  OBVIOUS
<1>7. PICK P2 : P2 = With(P, InfosOf(records), a, p)
  OBVIOUS
<1>8. PICK R2 : R2 = records'
  OBVIOUS
<1>9. ArrayAdded(records, R2, e, a, L2, P2)
  <2>1. ArrayAdded(records, records', e, a, L2, P2)
    BY <1>3, <1>4, <1>5, <1>6, <1>7, ChildIsAdded
  <2>. QED BY <1>8, <2>1
<1>10. \A f, q : Spot(R2, L2, P2, f, q) <=> Spot(records, L, P, f, q)
  BY <1>3, <1>6, <1>7, <1>9, SpotsAfterArrayAdded
<1>11. /\ Forest(R2, L2, P2) /\ InfosOf(R2) = InfosOf(records) \cup {a} /\ a \notin InfosOf(records)
       /\ \A f \in EntriesOf(records) : PayloadAt(R2, f) = PayloadAt(records, f)
  BY <1>9 DEF ArrayAdded
<1>12. DataOf(R2) = DataOf(records)
  BY <1>3, <1>10, <1>11, SameShown
<1>13. PathsOf(R2) = PathsOf(records) \cup {p}
  <2>1. PathsOf(records) = {P[j] : j \in InfosOf(records)}
    BY <1>3, PathsShown
  <2>2. PathsOf(R2) = {P2[j] : j \in InfosOf(R2)}
    BY <1>11, PathsShown
  <2>3. P2[a] = p /\ \A j \in InfosOf(records) : P2[j] = P[j]
    BY <1>7, <1>11 DEF With
  <2>. QED BY <1>11, <2>1, <2>2, <2>3
<1>14. p \in Tree!Path /\ Spot(records, L, P, e, p) /\ p \notin PathsOf(records)
  BY <1>3, <1>4, <1>5, EntryShown
<1>15. p \in DOMAIN DataOf(records)
  BY <1>3, <1>14, DataHas
<1>16. /\ p \in DOMAIN TreeData /\ TreeData' = TreeData
       /\ p \notin TreeArrays /\ TreeArrays' = TreeArrays \cup {p}
  BY <1>8, <1>12, <1>13, <1>14, <1>15 DEF TreeData, TreeArrays, PathsOf
<1>17. p \in Tree!Touched
  BY <1>14, <1>16, TouchedArray
<1>18. Tree!CreateChildArray(p)
  BY <1>16 DEF Tree!CreateChildArray, Tree!Entries
<1>. QED BY <1>14, <1>17, <1>18 DEF Tree!Next

LEMMA DeleteChildArrayStep ==
  ASSUME NEW L, NEW P, TreeHolds(L, P), DeleteChildArray
  PROVE  Tree!Next
<1>1. ~ Done(Top)
  BY DEF DeleteChildArray, CanDescend
<1>2. PICK i, k, e : CurrentIs(L, P, i, k, e)
  BY <1>1, CurrentFacts
<1>3. Forest(records, L, P) /\ i \in InfosOf(records) /\ k \in DOMAIN L[i] /\ e = L[i][k]
  BY <1>2 DEF CurrentIs
<1>4. /\ ChildDropped(records, records', e)
      /\ records[e].child # Null /\ records[records[e].child].array = Null
      /\ records'[e] \in EntryNode /\ records'[e].name = records[e].name
      /\ SetTop([Top EXCEPT !.entries[Top.iter] = records'[e]])
  BY <1>2, DeleteChildArrayWrites
<1>5. PICK p : p = PathAt(records, L, P, i, k)
  OBVIOUS
<1>c. PICK c : c = records[e].child
  OBVIOUS
<1>6. PICK L2 : L2 = [j \in InfosOf(records) \ {c} |-> L[j]]
  OBVIOUS
<1>7. PICK P2 : P2 = [j \in InfosOf(records) \ {c} |-> P[j]]
  OBVIOUS
<1>8. PICK R2 : R2 = records'
  OBVIOUS
<1>9. /\ InfosOf(R2) = InfosOf(records) \ {c} /\ EntriesOf(R2) = EntriesOf(records)
      /\ c \in InfosOf(records) /\ P[c] = PathAt(records, L, P, i, k) /\ L[c] = <<>>
      /\ \A j \in InfosOf(records) \ {c} : R2[j] = records[j]
      /\ \A g \in EntriesOf(records) \ {L[i][k]} : R2[g] = records[g]
      /\ \A g \in EntriesOf(records) : PayloadAt(R2, g) = PayloadAt(records, g) /\ R2[g].name = records[g].name
      /\ Forest(R2, L2, P2)
  <2>1. ChildDropped(records, R2, L[i][k]) /\ c = records[L[i][k]].child /\ c # Null /\ records[c].array = Null
    BY <1>3, <1>4, <1>c, <1>8
  <2>2. P[c] = PathAt(records, L, P, i, k) /\ ArrayDropped(records, R2, L, L[i][k], c, L2, P2)
    BY SMTT(30), <1>3, <1>6, <1>7, <2>1, ChildIsDropped
  <2>. QED BY <2>2 DEF ArrayDropped
<1>10. \A f, q : Spot(R2, L2, P2, f, q) <=> Spot(records, L, P, f, q)
  BY <1>3, <1>6, <1>7, <1>9, SpotsAfterArrayDropped
<1>12. DataOf(R2) = DataOf(records)
  BY <1>3, <1>9, <1>10, SameShown
<1>13. PathsOf(R2) = PathsOf(records) \ {p} /\ p \in PathsOf(records)
  <2>1. PathsOf(records) = {P[j] : j \in InfosOf(records)}
    BY <1>3, PathsShown
  <2>2. PathsOf(R2) = {P2[j] : j \in InfosOf(R2)}
    BY <1>9, PathsShown
  <2>3. \A j \in InfosOf(records) \ {c} : P2[j] = P[j]
    BY <1>7
  <2>4. \A j \in InfosOf(records) : P[j] = P[c] => j = c
    BY <1>3, <1>9 DEF Forest, Paths
  <2>5. P[c] = p
    BY <1>5, <1>9
  <2>. QED BY <1>9, <2>1, <2>2, <2>3, <2>4, <2>5
<1>14. p \in Tree!Path /\ Spot(records, L, P, e, p)
  BY <1>3, <1>5, EntryShown
<1>15. p \in DOMAIN DataOf(records)
  BY <1>3, <1>14, DataHas
<1>16. ASSUME NEW q \in DOMAIN DataOf(records), Front(q) = p PROVE FALSE
  <2>1. \E f : Spot(records, L, P, f, q)
    BY <1>3, DataHas
  <2>2. PICK f : Spot(records, L, P, f, q)
    BY <2>1
  <2>3. PICK j \in InfosOf(records) : \E m \in DOMAIN L[j] : f = L[j][m] /\ q = PathAt(records, L, P, j, m)
    BY <1>3, <2>2, SpotFacts
  <2>4. PICK m \in DOMAIN L[j] : q = PathAt(records, L, P, j, m)
    BY <2>3
  <2>5. Front(PathAt(records, L, P, j, m)) = P[j]
    BY <1>3, PathFacts
  <2>6. P[j] = P[c]
    BY <1>5, <1>9, <1>16, <2>4, <2>5
  <2>7. j = c
    BY <1>3, <1>9, <2>6 DEF Forest, Paths
  <2>8. DOMAIN L[c] = {}
    BY <1>9
  <2>. QED BY <2>4, <2>7, <2>8
<1>17. /\ p \in DOMAIN TreeData /\ TreeData' = TreeData
       /\ p \in TreeArrays /\ TreeArrays' = TreeArrays \ {p}
  BY <1>8, <1>12, <1>13, <1>15 DEF TreeData, TreeArrays, PathsOf
<1>18. p \in Tree!Touched
  BY <1>14, <1>17, TouchedArray
<1>19. Tree!ChildrenOf(p) = {}
  <2>1. \A q : Tree!Front(q) = Front(q)
    BY DEF Front, Tree!Front
  <2>. QED BY <1>16, <2>1 DEF Tree!ChildrenOf, Tree!Entries, TreeData
<1>20. Tree!DeleteChildArray(p)
  BY <1>17, <1>19 DEF Tree!DeleteChildArray, Tree!Entries
<1>. QED BY <1>14, <1>18, <1>20 DEF Tree!Next

(* Every operation of an iterator is an operation of the tree, or changes   *)
(* nothing seen.                                                            *)
LEMMA StepShown == TreeInv /\ [TreeNext]_treeVars => [Tree!Next]_(Tree!vars)
<1>. SUFFICES ASSUME TreeInv, [TreeNext]_treeVars PROVE [Tree!Next]_(Tree!vars)
  OBVIOUS
<1>1. PICK L, P : TreeHolds(L, P)
  BY DEF TreeInv
<1>2. ASSUME UNCHANGED records PROVE UNCHANGED Tree!vars
  BY <1>2 DEF Tree!vars, TreeData, TreeArrays
<1>3. CASE UNCHANGED treeVars
  BY <1>2, <1>3 DEF treeVars
<1>4. CASE \E call \in {"edit", "dir"} : NewIterator(call)
  BY <1>2, <1>4 DEF NewIterator
<1>5. CASE Descend \/ Ascend \/ SeekBegin \/ NextEntry
  BY <1>2, <1>5 DEF Descend, Ascend, SeekBegin, NextEntry
<1>6. CASE \E name \in Name : SeekTo(name) \/ CreateExistingEntry(name)
  BY <1>2, <1>6 DEF SeekTo, CreateExistingEntry
<1>7. CASE \E a \in Addr : CreateChildArray(a)
  BY <1>1, <1>7, CreateChildArrayStep
<1>8. CASE \E a \in Addr : \E name \in Name : CreateEntry(name, a)
  BY <1>1, <1>8, CreateEntryStep
<1>9. CASE \E a \in Addr : \E d \in TreePayload : SetData(d, a)
  BY <1>1, <1>9, SetDataStep
<1>10. CASE RemoveData
  BY <1>1, <1>10, RemoveDataStep
<1>11. CASE DeleteEntry
  BY <1>1, <1>11, DeleteEntryStep
<1>12. CASE DeleteChildArray
  BY <1>1, <1>12, DeleteChildArrayStep
<1>13. CASE EnterDirectory \/ EnterFCO \/ Return
  BY <1>2, <1>13 DEF EnterDirectory, EnterFCO, Return
<1>. QED
  BY <1>3, <1>4, <1>5, <1>6, <1>7, <1>8, <1>9, <1>10, <1>11, <1>12, <1>13 DEF TreeNext

(* The records, read from the root down, are the abstract tree: every call  *)
(* is one of its operations on the one entry the iterator is at, or none.   *)
THEOREM RecordsAreTheTree == TreeSpec => ImplementsHierTree
<1>1. TreeSpec => []TreeInv
  BY StartHolds, NextHolds, PTL DEF TreeSpec
<1>. QED BY <1>1, InitShown, StepShown, PTL DEF TreeSpec, ImplementsHierTree, Tree!Spec
===============================================================================
