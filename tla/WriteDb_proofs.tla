---------------------------- MODULE WriteDb_proofs ----------------------------
(* The two ways in which the entries of a database come about.              *)
(*                                                                          *)
(* A database that is generated holds what nothing happened to as it is,    *)
(* and nothing else, for any file system and any policy.  The invariant     *)
(* follows the walk: of what is still to come the database has nothing, of  *)
(* the rest it has what is right, and an array without children is one of a *)
(* directory that is being walked.                                          *)
(*                                                                          *)
(* An update applies exactly the entries of a report that fit the database, *)
(* and leaves a tidy database, for any report, database, policy and set of  *)
(* flags; and from a whole report it makes what would be generated.  The    *)
(* invariant says what the database holds after any part of the entries: an *)
(* entry is judged by what was there before the update, since no two are of *)
(* one name and none disturbs what is held under another.                   *)
EXTENDS GenerateDb, UpdateDb, FcoDatabase_proofs

-----------------------------------------------------------------------------
(* The walk of a generation.                                                *)

Frame == [dir : Name, names : Seq(Int)]

(* The walk will come to p, or to where it would be.                        *)
ToCome(w, o, p) == \/ \E i \in DOMAIN w : DueIn(w[i].dir, w[i].names, p)
                   \/ \E i \in DOMAIN o : Above(o[i], p)

(* A directory inside another is at a name of it that was passed.           *)
Outside(frame, p) == Above(frame.dir, p) /\ ~DueIn(frame.dir, frame.names, p)
Nested(w, o) == /\ \A i, j \in DOMAIN w : i < j => Outside(w[i], w[j].dir)
                /\ \A i \in DOMAIN w, j \in DOMAIN o : Outside(w[i], o[j])

(* What is below a directory inside another is outside the other too.       *)
LEMMA OutsideBelow ==
  ASSUME NEW frame \in Frame, NEW d \in Name, Outside(frame, d),
         NEW p \in Name, AtOrAbove(d, p)
  PROVE  Outside(frame, p)
<1>1. frame.dir \in Name
  BY DEF Frame
<1>2. /\ AtOrAbove(frame.dir, d) /\ Len(frame.dir) < Len(d) /\ Len(d) <= Len(p)
      /\ Len(frame.dir) \in Nat /\ Len(d) \in Nat /\ Len(p) \in Nat
  BY <1>1, NameFacts, AboveFacts DEF Outside
<1>3. Above(frame.dir, p)
  <2>1. AtOrAbove(frame.dir, p) /\ Len(frame.dir) < Len(p)
    BY <1>1, <1>2, AtOrAboveOrder
  <2>2. QED
    BY <2>1, <1>1, AboveFacts
<1>4. ASSUME NEW n \in Int, AtOrAbove(Append(frame.dir, n), p)
      PROVE  AtOrAbove(Append(frame.dir, n), d)
  <2>1. Append(frame.dir, n) \in Name /\ Len(Append(frame.dir, n)) = Len(frame.dir) + 1
    BY <1>1, ChildFacts
  <2>2. Len(Append(frame.dir, n)) <= Len(d)
    BY <2>1, <1>2
  <2>3. QED
    BY <1>4, <2>1, <2>2, AboveSame
<1>5. QED
  BY <1>3, <1>4 DEF Outside, DueIn

LEMMA NamesReplaced ==
  ASSUME NEW frame, NEW names, DOMAIN frame = {"dir", "names"}
  PROVE  [frame EXCEPT !.names = names] = [dir |-> frame.dir, names |-> names]
OBVIOUS

(* The object at p is gone into next, or nothing is.                        *)
Opens(o, p) == o = <<>> \/ o = <<p>>

LEMMA OneOrNone ==
  ASSUME NEW p \in Name, NEW o, Opens(o, p)
  PROVE  /\ o \in Seq(Name) /\ Len(o) <= 1 /\ \A j \in DOMAIN o : o[j] = p
         /\ \A q \in Name : (\E j \in DOMAIN o : Above(o[j], q)) <=> o # <<>> /\ Above(p, q)
<1>1. CASE o = <<p>>
  <2>1. o \in Seq(Name) /\ Len(o) = 1 /\ DOMAIN o = {1} /\ o[1] = p
    BY <1>1
  <2>2. \A x : <<x>> # <<>>
    OBVIOUS
  <2>3. o # <<>>
    BY <1>1, <2>2
  <2>4. QED
    BY <2>1, <2>3
<1>2. CASE o = <<>>
  BY <1>2
<1>3. QED
  BY <1>1, <1>2 DEF Opens

(* The walk when these names of the innermost directory are still to come.  *)
WithNames(w, names) == [w EXCEPT ![Len(w)].names = names]

(* A name is taken from the innermost directory, and what is below it is to *)
(* be gone into or not: of the rest the same is to come as before.          *)
Taken(w, names, p, o2, w2) ==
  /\ w2 \in Seq(Frame) /\ DOMAIN w2 = DOMAIN w
  /\ \A i \in DOMAIN w : /\ w2[i].dir = w[i].dir
                         /\ i # Len(w) => w2[i] = w[i]
  /\ w2[Len(w)].names = names
  /\ o2 \in Seq(Name) /\ Len(o2) <= 1 /\ \A i \in DOMAIN o2 : o2[i] = p
  /\ Nested(w2, o2)
  /\ \A q \in Name :
       IF AtOrAbove(p, q)
       THEN /\ ToCome(w2, o2, q) <=> o2 # <<>> /\ p # q
            /\ ToCome(w, <<>>, q)
       ELSE ToCome(w2, o2, q) <=> ToCome(w, <<>>, q)

LEMMA NameTaken ==
  ASSUME NEW w \in Seq(Frame), w # <<>>, Nested(w, <<>>), NEW n \in Int,
         Has(w[Len(w)].names, n),
         NEW names \in Seq(Int), \A m \in Int : Has(names, m) <=> Has(w[Len(w)].names, m) /\ m # n,
         NEW p, p = Append(w[Len(w)].dir, n), NEW o2, Opens(o2, p),
         NEW w2, w2 = WithNames(w, names)
  PROVE  Taken(w, names, p, o2, w2)
<1> DEFINE l == Len(w)
           d == w[l].dir
           frame == [dir |-> d, names |-> names]
<1>0. p = Append(d, n)
  OBVIOUS
<1>1. /\ l \in Nat /\ l \in 1..l /\ DOMAIN w = 1..l
      /\ \A i \in 1..l : w[i] \in Frame
  <2>1. l \in Nat \ {0}
    BY EmptySeq
  <2>2. QED
    BY <2>1, LenProperties, ElementOfSeq
<1>2. d \in Name /\ frame \in Frame
  BY <1>1 DEF Frame
<1>3. /\ w2 \in Seq(Frame) /\ DOMAIN w2 = 1..l
      /\ w2[l] = frame /\ \A i \in 1..l : i # l => w2[i] = w[i]
  <2>1. DOMAIN w[l] = {"dir", "names"}
    BY <1>1 DEF Frame
  <2>2. [w[l] EXCEPT !.names = names] = frame
    <3> DEFINE g == w[l]
    <3>1. DOMAIN g = {"dir", "names"}
      BY <2>1
    <3> HIDE DEF g
    <3>2. [g EXCEPT !.names = names] = [dir |-> g.dir, names |-> names]
      BY <3>1, NamesReplaced
    <3>3. QED
      BY <3>2 DEF g
  <2>3. w2 = [w EXCEPT ![l] = [w[l] EXCEPT !.names = names]]
    BY DEF WithNames
  <2>4. w2 = [w EXCEPT ![l] = frame]
    BY <2>2, <2>3
  <2> HIDE DEF frame, l
  <2>5. QED
    BY <2>4, <1>1, <1>2, ExceptSeq
<1>4. p \in Name /\ Above(d, p)
  BY <1>0, <1>2, ChildFacts
<1>5. /\ o2 \in Seq(Name) /\ Len(o2) <= 1 /\ \A j \in DOMAIN o2 : o2[j] = p
      /\ \A q \in Name : (\E j \in DOMAIN o2 : Above(o2[j], q)) <=> o2 # <<>> /\ Above(p, q)
  BY <1>4, OneOrNone
<1>6. w2[l].dir = d /\ w2[l].names = names
  BY <1>3
<1> HIDE DEF frame, l
<1>7. \A i \in 1..l : i # l => Outside(w[i], d)
  <2>1. \A i \in 1..l : i # l => i < l
    BY <1>1
  <2>2. QED
    BY <2>1, <1>1 DEF Nested
<1>8. ASSUME NEW q \in Name, AtOrAbove(d, q), NEW i \in 1..l, i # l
      PROVE  Outside(w[i], q)
  BY <1>1, <1>2, <1>7, <1>8, OutsideBelow
<1>9. /\ Has(w[l].names, n)
      /\ \A m \in Int : Has(names, m) <=> Has(w[l].names, m) /\ m # n
  BY DEF l
<1>10. ASSUME NEW q \in Name, AtOrAbove(p, q)
       PROVE  /\ ToCome(w2, o2, q) <=> o2 # <<>> /\ p # q
              /\ ToCome(w, <<>>, q)
  <2>1. AtOrAbove(d, q)
    BY <1>2, <1>4, <1>10, AtOrAboveOrder DEF Above
  <2>2. \A i \in 1..l : i # l => ~DueIn(w[i].dir, w[i].names, q)
    BY <2>1, <1>8 DEF Outside
  <2>3. DueIn(d, w[l].names, q) /\ ~DueIn(d, names, q)
    BY <1>0, <1>2, <1>9, <1>10, DueInFacts DEF l
  <2>4. Above(p, q) <=> p # q
    BY <1>10 DEF Above
  <2>5. ~ \E i \in DOMAIN w2 : DueIn(w2[i].dir, w2[i].names, q)
    BY <2>2, <2>3, <1>3, <1>6
  <2>6. \E i \in DOMAIN w : DueIn(w[i].dir, w[i].names, q)
    BY <2>3, <1>1
  <2>7. QED
    BY <2>4, <2>5, <2>6, <1>5 DEF ToCome
<1>11. ASSUME NEW q \in Name, ~AtOrAbove(p, q)
       PROVE  ToCome(w2, o2, q) <=> ToCome(w, <<>>, q)
  <2>1. DueIn(d, names, q) <=> DueIn(d, w[l].names, q)
    BY <1>0, <1>9, <1>11 DEF DueIn, l
  <2>2. ~Above(p, q)
    BY <1>11 DEF Above
  <2>3. \A i \in 1..l : DueIn(w2[i].dir, w2[i].names, q) <=> DueIn(w[i].dir, w[i].names, q)
    BY <2>1, <1>3, <1>6
  <2>4. (\E i \in DOMAIN w2 : DueIn(w2[i].dir, w2[i].names, q))
          <=> \E i \in DOMAIN w : DueIn(w[i].dir, w[i].names, q)
    BY <2>3, <1>1, <1>3
  <2>5. QED
    BY <2>2, <2>4, <1>5 DEF ToCome
<1>12. Nested(w2, o2)
  <2>1. ASSUME NEW i \in 1..l, NEW j \in 1..l, i < j
        PROVE  Outside(w2[i], w2[j].dir)
    <3>1. i # l /\ w2[i] = w[i] /\ w2[j].dir = w[j].dir
      BY <2>1, <1>1, <1>3, <1>6
    <3>2. QED
      BY <2>1, <3>1, <1>1 DEF Nested
  <2>2. ASSUME NEW i \in 1..l
        PROVE  Outside(w2[i], p)
    <3>1. CASE i = l
      <4>1. AtOrAbove(p, p)
        BY <1>4, AtOrAboveOrder
      <4>2. ~DueIn(d, names, p)
        BY <4>1, <1>0, <1>2, <1>4, <1>9, DueInFacts DEF l
      <4>3. QED
        BY <3>1, <4>2, <1>4, <1>6 DEF Outside
    <3>2. CASE i # l
      BY <3>2, <1>3, <1>4, <1>8 DEF Above
    <3>3. QED
      BY <3>1, <3>2
  <2>3. \A i \in DOMAIN w2, j \in DOMAIN o2 : Outside(w2[i], o2[j])
    BY <2>2, <1>3, <1>5
  <2>4. \A i, j \in DOMAIN w2 : i < j => Outside(w2[i], w2[j].dir)
    BY <2>1, <1>3
  <2>5. QED
    BY <2>3, <2>4 DEF Nested
<1>13. QED
  BY <1>1, <1>3, <1>5, <1>6, <1>10, <1>11, <1>12 DEF Taken, l, frame

(* A directory is opened.                                                   *)
LEMMA DirOpened ==
  ASSUME NEW w \in Seq(Frame), NEW d \in Name, Nested(w, <<d>>), NEW names \in Seq(Int)
  PROVE  LET w2 == Append(w, [dir |-> d, names |-> names])
         IN /\ w2 \in Seq(Frame) /\ DOMAIN w2 = 1 .. Len(w) + 1
            /\ w2[Len(w) + 1] = [dir |-> d, names |-> names]
            /\ \A i \in DOMAIN w : w2[i] = w[i]
            /\ Nested(w2, <<>>)
            /\ \A q \in Name :
                 IF Above(d, q)
                 THEN ToCome(w2, <<>>, q) <=> DueIn(d, names, q)
                 ELSE ToCome(w2, <<>>, q) <=> ToCome(w, <<d>>, q)
<1> DEFINE l == Len(w)
           frame == [dir |-> d, names |-> names]
           w2 == Append(w, frame)
<1>1. l \in Nat /\ DOMAIN w = 1..l /\ \A i \in 1..l : w[i] \in Frame
  BY LenProperties, ElementOfSeq
<1>2. frame \in Frame
  BY DEF Frame
<1>3. /\ w2 \in Seq(Frame) /\ DOMAIN w2 = 1 .. l + 1
      /\ w2[l + 1] = frame /\ \A i \in 1..l : w2[i] = w[i]
  <2>1. w2 \in Seq(Frame) /\ Len(w2) = l + 1
    BY <1>2, AppendProperties
  <2>2. w2[l + 1] = frame /\ \A i \in 1..l : w2[i] = w[i]
    BY <1>2, AppendProperties
  <2>3. DOMAIN w2 = 1 .. Len(w2)
    BY <2>1, LenProperties
  <2>4. QED
    BY <2>1, <2>2, <2>3
<1>4. frame.dir = d /\ frame.names = names
  OBVIOUS
<1> HIDE DEF w2, frame, l
<1>5. \A i \in 1..l : Outside(w[i], d)
  <2>1. 1 \in DOMAIN <<d>> /\ <<d>>[1] = d
    OBVIOUS
  <2>2. \A i \in 1..l : Outside(w[i], <<d>>[1])
    BY <2>1, <1>1 DEF Nested
  <2>3. QED
    BY <2>1, <2>2
<1>6. ASSUME NEW q \in Name
      PROVE  (\E i \in DOMAIN w2 : DueIn(w2[i].dir, w2[i].names, q))
               <=> (\E i \in DOMAIN w : DueIn(w[i].dir, w[i].names, q)) \/ DueIn(d, names, q)
  <2>1. \A i \in 1 .. l + 1 : i \in 1..l \/ i = l + 1
    BY <1>1
  <2>2. l + 1 \in 1 .. l + 1 /\ \A i \in 1..l : i \in 1 .. l + 1
    BY <1>1
  <2>3. QED
    BY <2>1, <2>2, <1>1, <1>3, <1>4
<1>7. ASSUME NEW q \in Name, Above(d, q)
      PROVE  ToCome(w2, <<>>, q) <=> DueIn(d, names, q)
  <2>1. AtOrAbove(d, q)
    BY <1>7 DEF Above
  <2>2. \A i \in 1..l : Outside(w[i], q)
    BY <2>1, <1>1, <1>5, OutsideBelow
  <2>3. QED
    BY <2>2, <1>1, <1>6 DEF ToCome, Outside
<1>8. ASSUME NEW q \in Name, ~Above(d, q)
      PROVE  ToCome(w2, <<>>, q) <=> ToCome(w, <<d>>, q)
  <2>1. ~DueIn(d, names, q)
    BY <1>8, DueInFacts
  <2>2. ~ \E j \in DOMAIN <<d>> : Above(<<d>>[j], q)
    BY <1>8
  <2>3. QED
    BY <2>1, <2>2, <1>6 DEF ToCome
<1>9. Nested(w2, <<>>)
  <2>1. ASSUME NEW i \in 1 .. l + 1, NEW j \in 1 .. l + 1, i < j
        PROVE  Outside(w2[i], w2[j].dir)
    <3>1. i \in 1..l /\ w2[i] = w[i]
      BY <2>1, <1>1, <1>3
    <3>2. CASE j = l + 1
      BY <3>1, <3>2, <1>3, <1>4, <1>5
    <3>3. CASE j # l + 1
      <4>1. j \in 1..l /\ w2[j] = w[j]
        BY <3>3, <1>1, <1>3
      <4>2. QED
        BY <2>1, <3>1, <4>1, <1>1 DEF Nested
    <3>4. QED
      BY <3>2, <3>3
  <2>2. QED
    BY <2>1, <1>3 DEF Nested
<1>10. QED
  BY <1>1, <1>3, <1>7, <1>8, <1>9 DEF w2, frame, l

(* A directory that is done with is left.                                   *)
LEMMA DirLeft ==
  ASSUME NEW w \in Seq(Frame), w # <<>>, Nested(w, <<>>), w[Len(w)].names = <<>>
  PROVE  /\ Front(w) \in Seq(Frame)
         /\ \A i \in DOMAIN Front(w) : /\ i \in DOMAIN w /\ Front(w)[i] = w[i]
                                       /\ Above(w[i].dir, w[Len(w)].dir)
         /\ \A i \in DOMAIN w : i = Len(w) \/ i \in DOMAIN Front(w)
         /\ Nested(Front(w), <<>>)
         /\ \A q \in Name : ToCome(Front(w), <<>>, q) <=> ToCome(w, <<>>, q)
<1> DEFINE l == Len(w)
           w2 == Front(w)
<1>1. l \in Nat /\ l > 0 /\ l \in 1..l /\ DOMAIN w = 1..l
  <2>1. l \in Nat \ {0}
    BY EmptySeq
  <2>2. QED
    BY <2>1, LenProperties
<1>2. w2 \in Seq(Frame) /\ DOMAIN w2 = 1 .. l - 1 /\ \A i \in 1 .. l - 1 : w2[i] = w[i]
  <2>1. /\ SubSeq(w, 1, l - 1) \in Seq(Frame)
        /\ Len(SubSeq(w, 1, l - 1)) = IF 1 <= l - 1 THEN (l - 1) - 1 + 1 ELSE 0
        /\ \A i \in 1 .. (l - 1) - 1 + 1 : SubSeq(w, 1, l - 1)[i] = w[1 + i - 1]
    BY <1>1, SubSeqProperties, Z3
  <2>2. w2 \in Seq(Frame) /\ Len(w2) = l - 1 /\ \A i \in 1 .. l - 1 : w2[i] = w[i]
    BY <2>1, <1>1 DEF Front
  <2>3. QED
    BY <2>2, LenProperties
<1> HIDE DEF w2
<1>3. Nested(w2, <<>>)
  <2>1. ASSUME NEW i \in 1 .. l - 1, NEW j \in 1 .. l - 1, i < j
        PROVE  Outside(w2[i], w2[j].dir)
    BY <2>1, <1>1, <1>2 DEF Nested
  <2>2. QED
    BY <2>1, <1>2 DEF Nested
<1>4. /\ \A i \in 1..l : i = l \/ i \in 1 .. l - 1
      /\ \A i \in 1 .. l - 1 : i \in 1..l /\ i < l
  <2>1. \A k \in Nat : /\ \A i \in 1..k : i = k \/ i \in 1 .. k - 1
                       /\ \A i \in 1 .. k - 1 : i \in 1..k /\ i < k
    OBVIOUS
  <2>2. QED
    BY <2>1, <1>1
<1>5. ASSUME NEW q \in Name
      PROVE  ToCome(w2, <<>>, q) <=> ToCome(w, <<>>, q)
  <2>1. ~DueIn(w[l].dir, w[l].names, q)
    BY DEF DueIn, Has
  <2>2. (\E i \in DOMAIN w2 : DueIn(w2[i].dir, w2[i].names, q))
          <=> \E i \in DOMAIN w : DueIn(w[i].dir, w[i].names, q)
    BY <2>1, <1>1, <1>2, <1>4
  <2>3. QED
    BY <2>2 DEF ToCome
<1>6. \A i \in 1 .. l - 1 : Above(w[i].dir, w[l].dir)
  BY <1>1, <1>4 DEF Nested, Outside
<1>7. QED
  BY <1>1, <1>2, <1>3, <1>4, <1>5, <1>6 DEF w2, l

-----------------------------------------------------------------------------
(* The invariant.                                                           *)

Types == /\ IsTree(fs) /\ DOMAIN fs \subseteq Path /\ \A p \in DOMAIN fs : fs[p] \in Object
         /\ touched \subseteq Path
         /\ \E policy \in Policies : specs = CreateFCOSpecs(policy)
         /\ todo \subseteq specs /\ spec \in specs
         /\ \A e \in errors : \E s \in specs : Reaches(s, e)

(* A directory that is gone into was entered into the database, with an     *)
(* array for its children; those still to come are there or were.           *)
DirOK(d) == /\ d \in Path /\ Reaches(spec, d) /\ ~Crosses(spec, d)
            /\ CanDescend(db, d) /\ HasFCOData(db, d)
FrameOK(frame) ==
  /\ DirOK(frame.dir)
  /\ Sorted(frame.names)
  /\ \A n \in Int : Has(frame.names, n) => Append(frame.dir, n) \in DOMAIN fs \cup touched
WalkOK ==
  /\ walk \in Seq(Frame) /\ \A i \in DOMAIN walk : FrameOK(walk[i])
  /\ opening \in Seq(Name) /\ Len(opening) <= 1 /\ \A i \in DOMAIN opening : DirOK(opening[i])
  /\ Nested(walk, opening)
  /\ ~Idle => spec \notin todo

(* An error for an object at or above p that was there stands for whatever  *)
(* is missing.                                                              *)
Excused(p)  == \E e \in errors : AtOrAbove(e, p) /\ e \in DOMAIN fs \cup touched
Gone(s, p)  == p \in touched \/ Excused(p) \/ ~Seen(fs, s, p)
Right(s, p) == p \notin touched /\ ~Excused(p) =>
                 IF Seen(fs, s, p) THEN HasFCOData(db, p) /\ db.data[p] = FcoOf(fs, s, p)
                                   ELSE ~HasFCOData(db, p)

(* Nothing is recorded of what is still to come, the rest is right.         *)
Due(s, p)    == s \in todo \/ (s = spec /\ ToCome(walk, opening, p))
Status(s, p) == IF Due(s, p) THEN ~HasFCOData(db, p) ELSE Right(s, p)
Progress     == \A s \in specs, p \in Path : Reaches(s, p) => Status(s, p)

(* An array without children is one of a directory that is gone into.       *)
InWalk(p) == \/ \E i \in DOMAIN walk : walk[i].dir = p
             \/ \E i \in DOMAIN opening : opening[i] = p
Shape == /\ IsDb(db) /\ Entries(db) \subseteq Path
         /\ \A p \in Contents(db) : \E s \in specs : Reaches(s, p)
         /\ \A p \in Entries(db) : /\ CanDescend(db, p) => Children(db, p) # {} \/ InWalk(p)
                                   /\ CanDescend(db, p) \/ HasFCOData(db, p)

IInv == Types /\ WalkOK /\ Progress /\ Shape

-----------------------------------------------------------------------------
LEMMA SpecsFacts ==
  ASSUME GenerateAssumption, Types
  PROVE  /\ \A s \in specs : /\ s.start \in Name \ {<<>>} /\ Reaches(s, s.start)
                             /\ NoData \notin Fcos(s.props)
         /\ \A s, t \in specs, p \in Name : Reaches(s, p) /\ Reaches(t, p) => s = t
<1>1. PICK policy \in Policies : specs = CreateFCOSpecs(policy)
  BY DEF Types
<1>2. PolicyAssumption(policy) /\ DataAssumption(policy)
  BY DEF GenerateAssumption
<1>3. \A s \in specs : s.start \in Name \ {<<>>} /\ Reaches(s, s.start) /\ NoData \notin Fcos(s.props)
  BY <1>1, <1>2, RuleFacts DEF DataAssumption
<1>4. \A s, t \in specs, p \in Name : Reaches(s, p) /\ Reaches(t, p) => s = t
  BY <1>1, <1>2, OneRuleReaches
<1>5. QED
  BY <1>3, <1>4

LEMMA InitEstablishes == ASSUME GenerateAssumption PROVE Init => IInv
<1> SUFFICES ASSUME Init
             PROVE  IInv
  OBVIOUS
<1>1. PICK policy \in Policies : specs = CreateFCOSpecs(policy)
  BY DEF Init
<1>2. Types
  <2>1. TreeAssumption(fs)
    BY DEF GenerateAssumption, Init
  <2>2. QED
    BY <1>1, <2>1 DEF Init, Types, TreeAssumption
<1>3. walk = <<>> /\ opening = <<>> /\ DOMAIN walk = {} /\ DOMAIN opening = {}
  BY DEF Init
<1>4. WalkOK
  <2>1. walk \in Seq(Frame) /\ opening \in Seq(Name) /\ Len(opening) <= 1
    BY <1>3
  <2>2. Nested(walk, opening) /\ Idle
    BY <1>3 DEF Nested, Idle
  <2>3. QED
    BY <1>3, <2>1, <2>2 DEF WalkOK
<1>5. db = EmptyDb /\ db.data = <<>> /\ db.arrays = {<<>>} /\ Entries(db) = {}
  BY DEF Init, EmptyDb, Entries
<1>6. Shape
  <2>1. db.data = [p \in Entries(db) |-> db.data[p]]
    BY <1>5
  <2>2. IsDb(db)
    BY <1>5, <2>1 DEF IsDb, Rooted, EmptyDb
  <2>3. QED
    BY <1>5, <2>2 DEF Shape, Contents
<1>7. Progress
  BY <1>5 DEF Init, Progress, Status, Due, HasFCOData
<1>8. QED
  BY <1>2, <1>4, <1>6, <1>7 DEF IInv

-----------------------------------------------------------------------------
(* What is to come, and the rest.                                           *)

(* The file system and the objects that were changed are as they were.      *)
Calm == fs' = fs /\ touched' = touched /\ specs' = specs

(* Where nothing is recorded anew, what was right stays right, and what     *)
(* there is nothing of is right as it is when it is gone.                   *)
LEMMA RestRight ==
  ASSUME Calm, errors \subseteq errors', NEW t, NEW q,
         HasFCOData(db, q) <=> HasFCOData(db', q),
         HasFCOData(db, q) => db.data[q] = db'.data[q]
  PROVE  /\ Right(t, q) => Right(t, q)'
         /\ Gone(t, q) => Gone(t, q)'
         /\ ~HasFCOData(db, q) /\ Gone(t, q)' => Right(t, q)'
<1>1. Excused(q) => Excused(q)'
  BY DEF Excused, Calm
<1>2. Seen(fs, t, q)' = Seen(fs, t, q) /\ FcoOf(fs, t, q)' = FcoOf(fs, t, q) /\ (touched' = touched)
  BY DEF Calm
<1>3. Right(t, q) => Right(t, q)'
  BY <1>1, <1>2 DEF Right
<1>4. Gone(t, q) => Gone(t, q)'
  BY <1>1, <1>2 DEF Gone
<1>5. ASSUME ~HasFCOData(db, q), Gone(t, q)'
      PROVE  Right(t, q)'
  BY <1>5, <1>2 DEF Gone, Right
<1>6. QED
  BY <1>3, <1>4, <1>5

(* It is the turn of p in rule s: of a rule that is begun its start point,  *)
(* otherwise an object the walk has come to.                                *)
Turn(s, p) == /\ s \in todo => Idle /\ p = s.start
              /\ s \notin todo => s = spec
              /\ spec' = s /\ todo' = todo \ {s}

(* What is to come once the object at p is dealt with: what is below it, if *)
(* it is gone into, and of the rest what was to come.                       *)
ToComeAfter(p, b) ==
  \A q \in Name : IF AtOrAbove(p, q)
                  THEN ToCome(walk', opening', q) <=> b /\ p # q
                  ELSE ToCome(walk', opening', q) <=> ToCome(walk, opening, q)

LEMMA ProgressAfter ==
  ASSUME GenerateAssumption, Types, Progress, NEW s \in specs, NEW p \in Name, Reaches(s, p),
         Calm, errors \subseteq errors', SameBut(db, db', p), Turn(s, p),
         NEW b \in BOOLEAN, ToComeAfter(p, b),
         \A q \in Path : Above(p, q) /\ Reaches(s, q) =>
           ~HasFCOData(db, q) /\ (b \/ Gone(s, q)'),
         p \in Path => Right(s, p)'
  PROVE  Progress'
<1> SUFFICES ASSUME NEW t \in specs, NEW q \in Path, Reaches(t, q)
             PROVE  Status(t, q)'
  BY DEF Progress, Calm
<1>1. q \in Name
  BY PathFacts
<1>2. Status(t, q)
  BY DEF Progress
<1>3. s \notin todo' /\ spec' = s /\ (t # s => (t \in todo' <=> t \in todo))
  BY DEF Turn
<1>4. ASSUME q # p
      PROVE  /\ HasFCOData(db', q) <=> HasFCOData(db, q)
             /\ Right(t, q) => Right(t, q)'
             /\ ~HasFCOData(db, q) /\ Gone(t, q)' => Right(t, q)'
  <2>1. /\ HasFCOData(db, q) <=> HasFCOData(db', q)
        /\ HasFCOData(db, q) => db.data[q] = db'.data[q]
    BY <1>4 DEF SameBut
  <2>2. QED
    BY <2>1, RestRight
<1>5. HasFCOData(db, q)' <=> HasFCOData(db', q)
  OBVIOUS
<1>6. CASE t = s /\ q = p
  <2>1. AtOrAbove(p, p)
    BY AtOrAboveOrder
  <2>2. ~ToCome(walk', opening', p)
    BY <2>1 DEF ToComeAfter
  <2>3. ~Due(s, p)'
    BY <1>3, <2>2 DEF Due
  <2>4. QED
    BY <1>6, <2>3 DEF Status
<1>7. CASE t = s /\ Above(p, q)
  <2>1. ~HasFCOData(db, q) /\ (b \/ Gone(s, q)')
    BY <1>7
  <2>2. AtOrAbove(p, q) /\ p # q
    BY <1>7 DEF Above
  <2>3. ToCome(walk', opening', q) <=> b
    BY <1>1, <2>2 DEF ToComeAfter
  <2>4. Due(s, q)' <=> b
    BY <1>3, <2>3 DEF Due
  <2>5. QED
    BY <1>4, <1>5, <1>7, <2>1, <2>2, <2>4 DEF Status
<1>8. CASE t = s /\ ~AtOrAbove(p, q)
  <2>1. s \notin todo /\ s = spec
    BY <1>8 DEF Turn, Reaches
  <2>2. ToCome(walk', opening', q) <=> ToCome(walk, opening, q)
    BY <1>1, <1>8 DEF ToComeAfter
  <2>3. Due(s, q)' <=> Due(s, q)
    BY <1>3, <2>1, <2>2 DEF Due
  <2>4. q # p
    BY <1>1, <1>8, AtOrAboveOrder
  <2>5. QED
    BY <1>2, <1>4, <1>5, <1>8, <2>3, <2>4 DEF Status
<1>9. CASE t # s
  <2>1. q # p
    BY <1>1, <1>9, SpecsFacts
  <2>2. s = spec \/ ~ToCome(walk, opening, q)
    <3>1. Idle => ~ToCome(walk, opening, q)
      BY DEF Idle, ToCome
    <3>2. QED
      BY <3>1 DEF Turn
  <2>3. Due(t, q)' <=> Due(t, q)
    BY <1>3, <1>9, <2>2 DEF Due
  <2>4. QED
    BY <1>2, <1>4, <1>5, <2>1, <2>3 DEF Status
<1>10. t = s /\ AtOrAbove(p, q) => q = p \/ Above(p, q)
  BY DEF Above
<1>11. QED
  BY <1>6, <1>7, <1>8, <1>9, <1>10

(* A step that records nothing: what is no longer to come is gone.          *)
LEMMA WalkOnly ==
  ASSUME GenerateAssumption, Types, Progress, Calm, errors \subseteq errors', Same(db, db'),
         spec' = spec, todo' = todo,
         \A q \in Path : Reaches(spec, q) =>
           /\ ToCome(walk', opening', q) => ToCome(walk, opening, q)
           /\ ToCome(walk, opening, q) => ToCome(walk', opening', q) \/ Gone(spec, q)'
  PROVE  Progress'
<1> SUFFICES ASSUME NEW t \in specs, NEW q \in Path, Reaches(t, q)
             PROVE  Status(t, q)'
  BY DEF Progress, Calm
<1>1. /\ HasFCOData(db, q) <=> HasFCOData(db', q)
      /\ HasFCOData(db, q) => db.data[q] = db'.data[q]
  BY DEF Same
<1>2. /\ Right(t, q) => Right(t, q)'
      /\ ~HasFCOData(db, q) /\ Gone(t, q)' => Right(t, q)'
  BY <1>1, RestRight
<1>3. HasFCOData(db, q)' <=> HasFCOData(db, q)
  BY <1>1
<1>4. Status(t, q)
  BY DEF Progress
<1>5. /\ Due(t, q)' => Due(t, q)
      /\ Due(t, q) => Due(t, q)' \/ Gone(t, q)'
  BY DEF Due
<1>6. QED
  BY <1>2, <1>3, <1>4, <1>5 DEF Status

(* What comes of looking at an object that a rule reaches.                  *)
LEMMA LookedFacts ==
  ASSUME GenerateAssumption, Types, NEW s \in specs, NEW p \in Name, p # <<>>, Reaches(s, p),
         NEW works \in BOOLEAN, Report(p, works), Calm,
         NEW o, o = Look(s, p, works)
  PROVE  /\ errors \subseteq errors' /\ \A e \in errors' : \E t \in specs : Reaches(t, e)
         /\ o.type = "dir" => p \in DOMAIN fs /\ ~Crosses(s, p)
         /\ o.type = "dir" \/ \A q \in Name : Above(p, q) => Gone(s, q)'
         /\ p \in DOMAIN fs /\ ~Excused(p)' => o = InitializeTypeInfo(fs, s, p)
         /\ o # InvalidObject => p \in DOMAIN fs
         /\ CalcProps(o, s.props) # NoData
<1>1. /\ Path \subseteq Name \ {<<>>} /\ s.start \in Name /\ AtOrAbove(s.start, p)
      /\ DOMAIN fs \subseteq Path /\ IsTree(fs) /\ \A q \in DOMAIN fs : fs[q] \in Object
  BY PathFacts, SpecsFacts DEF Types, Reaches
<1>2. errors' = errors \/ errors' = errors \cup {p}
  BY DEF Report
<1>3. errors \subseteq errors' /\ \A e \in errors' : \E t \in specs : Reaches(t, e)
  BY <1>2 DEF Types
<1>4. (works /\ p \in DOMAIN fs) \/ p \in errors'
  BY DEF Report
<1>5. ASSUME NEW q \in Name, AtOrAbove(p, q), p \in DOMAIN fs, ~works
      PROVE  Excused(q)'
  BY <1>4, <1>5 DEF Excused, Calm
<1>6. p \in DOMAIN fs => fs[p].type \in {"file", "dir"}
  BY <1>1 DEF Object
<1>7. o = IF works /\ p \in DOMAIN fs /\ ~Crosses(s, p) THEN fs[p] ELSE InvalidObject
  BY DEF Look, InitializeTypeInfo
<1>8. o.type = "dir" => p \in DOMAIN fs /\ ~Crosses(s, p)
  BY <1>7 DEF InvalidObject
<1>9. ASSUME o.type # "dir", NEW q \in Name, Above(p, q)
      PROVE  Gone(s, q)'
  <2>1. CASE p \in DOMAIN fs /\ ~works
    <3>1. Excused(q)'
      BY <2>1, <1>5, <1>9 DEF Above
    <3>2. QED
      BY <3>1 DEF Gone
  <2>2. CASE ~(p \in DOMAIN fs /\ ~works)
    <3>1. ~IsDir(fs, p) \/ Crosses(s, p)
      BY <2>2, <1>7, <1>9 DEF IsDir
    <3>2. ~Seen(fs, s, q)
      BY <3>1, <1>1, <1>9, NotSeenBelow
    <3>3. Seen(fs, s, q)' = Seen(fs, s, q)
      BY DEF Calm, Seen
    <3>4. QED
      BY <3>2, <3>3 DEF Gone
  <2>3. QED
    BY <2>1, <2>2
<1>10. ASSUME p \in DOMAIN fs, ~Excused(p)'
       PROVE  o = InitializeTypeInfo(fs, s, p)
  <2>1. works
    BY <1>5, <1>10, AtOrAboveOrder
  <2>2. QED
    BY <2>1, <1>7 DEF InitializeTypeInfo
<1>11. CalcProps(o, s.props) # NoData
  <2>1. o \in Object \cup {InvalidObject}
    BY <1>1, <1>7
  <2>2. CalcProps(o, s.props) \in Fcos(s.props)
    BY <2>1, FcosFacts
  <2>3. QED
    BY <2>2, SpecsFacts
<1>12. QED
  BY <1>3, <1>7, <1>8, <1>9, <1>10, <1>11

(* A directory gets an array and is opened.                                 *)
LEMMA Descended ==
  ASSUME NEW d, IsDb(d), NEW p \in Entries(d), NEW o, Descend(d, p, o)
  PROVE  /\ IsDb(db') /\ Entries(db') = Entries(d) /\ db'.data = d.data /\ Same(d, db')
         /\ db'.arrays = IF o.type = "dir" THEN d.arrays \cup {p} ELSE d.arrays
         /\ opening' = IF o.type = "dir" THEN <<p>> ELSE <<>>
<1>1. CASE o.type = "dir"
  <2>1. db' = AddChildArray(d, p) /\ opening' = <<p>>
    BY <1>1 DEF Descend
  <2>2. QED
    BY <1>1, <2>1, ArrayAdded
<1>2. CASE o.type # "dir"
  BY <1>2 DEF Descend, Same
<1>3. QED
  BY <1>1, <1>2

(* What is recorded of a directory stays.                                   *)
LEMMA DirStays ==
  ASSUME spec' = spec, NEW d, DirOK(d), CanDescend(db, d) => CanDescend(db', d),
         HasFCOData(db, d) => HasFCOData(db', d)
  PROVE  DirOK(d)'
BY DEF DirOK

-----------------------------------------------------------------------------
(* The steps.                                                               *)

LEMMA TopFacts ==
  ASSUME WalkOK, walk # <<>>, opening = <<>>
  PROVE  /\ Len(walk) \in DOMAIN walk /\ Top = walk[Len(walk)]
         /\ Top \in Frame /\ FrameOK(Top)
         /\ Top.dir \in Name /\ Top.names \in Seq(Int)
         /\ spec \notin todo /\ walk \in Seq(Frame) /\ Nested(walk, <<>>)
<1>1. walk \in Seq(Frame)
  BY DEF WalkOK
<1>2. Len(walk) \in Nat \ {0} /\ DOMAIN walk = 1..Len(walk)
  BY <1>1, EmptySeq, LenProperties
<1>3. Len(walk) \in 1..Len(walk)
  BY <1>2
<1>4. Top \in Frame
  BY <1>1, <1>3, ElementOfSeq DEF Top
<1>5. QED
  BY <1>1, <1>2, <1>3, <1>4 DEF WalkOK, Top, Frame, Idle

(* The next name is taken from the innermost directory.                     *)
LEMMA HereFacts ==
  ASSUME GenerateAssumption, Types, WalkOK, AtObject, walk' = Advanced,
         opening' = <<>> \/ opening' = <<Here>>
  PROVE  /\ Here \in Name /\ Here # <<>> /\ Front(Here) = Top.dir
         /\ Here \in DOMAIN fs \cup touched
         /\ ~ShouldStopDescent(spec, Here) => Reaches(spec, Here)
         /\ AtOrAbove(spec.start, Here)
         /\ walk' \in Seq(Frame) /\ DOMAIN walk' = DOMAIN walk
         /\ \A i \in DOMAIN walk : walk'[i].dir = walk[i].dir
         /\ \A i \in DOMAIN walk : \A n \in Int : Has(walk'[i].names, n) => Has(walk[i].names, n)
         /\ \A i \in DOMAIN walk : Sorted(walk'[i].names)
         /\ opening' \in Seq(Name) /\ Len(opening') <= 1
         /\ \A i \in DOMAIN opening' : opening'[i] = Here
         /\ Nested(walk', opening')
         /\ ToComeAfter(Here, opening' # <<>>)
         /\ \A q \in Name : AtOrAbove(Here, q) => ToCome(walk, opening, q)
<1>1. walk # <<>> /\ opening = <<>> /\ Top.names # <<>>
  BY DEF AtObject
<1>2. /\ Len(walk) \in DOMAIN walk /\ Top = walk[Len(walk)] /\ FrameOK(Top)
      /\ Top.dir \in Name /\ Top.names \in Seq(Int) /\ walk \in Seq(Frame) /\ Nested(walk, <<>>)
  BY <1>1, TopFacts
<1>3. PICK n \in Int : n = Head(Top.names)
  BY <1>1, <1>2, TailFacts DEF FrameOK
<1>4. PICK names \in Seq(Int) : names = Tail(Top.names)
  BY <1>1, <1>2, TailFacts DEF FrameOK
<1>5. /\ n \in Int /\ names \in Seq(Int) /\ Sorted(names) /\ Has(Top.names, n)
      /\ \A m \in Int : Has(names, m) <=> Has(Top.names, m) /\ m # n
  BY <1>1, <1>2, <1>3, <1>4, TailFacts DEF FrameOK
<1>6. Here = Append(Top.dir, n)
  BY <1>3 DEF Here
<1>7. walk' = WithNames(walk, names)
  <2>1. names = Tail(walk[Len(walk)].names)
    BY <1>2, <1>4
  <2>2. QED
    BY <2>1 DEF Advanced, WithNames
<1>8. opening' = <<>> \/ opening' = <<Here>>
  OBVIOUS
<1>9. /\ walk' \in Seq(Frame) /\ DOMAIN walk' = DOMAIN walk
      /\ \A i \in DOMAIN walk : /\ walk'[i].dir = walk[i].dir
                                /\ i # Len(walk) => walk'[i] = walk[i]
      /\ walk'[Len(walk)].names = names
      /\ opening' \in Seq(Name) /\ Len(opening') <= 1 /\ \A i \in DOMAIN opening' : opening'[i] = Here
      /\ Nested(walk', opening')
      /\ ToComeAfter(Here, opening' # <<>>)
      /\ \A q \in Name : AtOrAbove(Here, q) => ToCome(walk, opening, q)
  <2>1. Has(walk[Len(walk)].names, n)
    BY <1>2, <1>5
  <2>2. \A m \in Int : Has(names, m) <=> Has(walk[Len(walk)].names, m) /\ m # n
    BY <1>2, <1>5
  <2>3. Here = Append(walk[Len(walk)].dir, n)
    BY <1>2, <1>6
  <2>4. PICK p : p = Here
    OBVIOUS
  <2>5. PICK o2 : o2 = opening'
    OBVIOUS
  <2>6. PICK w2 : w2 = walk'
    OBVIOUS
  <2>7. Taken(walk, names, p, o2, w2)
    <3>1. w2 = WithNames(walk, names)
      BY <2>6, <1>7
    <3>2. Opens(o2, p)
      BY <2>4, <2>5, <1>8 DEF Opens
    <3>3. p = Append(walk[Len(walk)].dir, n)
      BY <2>3, <2>4
    <3>4. walk \in Seq(Frame) /\ walk # <<>> /\ Nested(walk, <<>>)
      BY <1>1, <1>2
    <3>5. n \in Int /\ names \in Seq(Int)
      BY <1>5
    <3>6. QED
      BY <2>1, <2>2, <3>1, <3>2, <3>3, <3>4, <3>5, NameTaken
  <2>8. /\ ToComeAfter(Here, opening' # <<>>)
        /\ \A q \in Name : AtOrAbove(Here, q) => ToCome(walk, opening, q)
    BY <2>4, <2>5, <2>6, <2>7, <1>1 DEF Taken, ToComeAfter
  <2>9. QED
    BY <2>4, <2>5, <2>6, <2>7, <2>8 DEF Taken
<1>10. /\ \A i \in DOMAIN walk : \A m \in Int : Has(walk'[i].names, m) => Has(walk[i].names, m)
       /\ \A i \in DOMAIN walk : Sorted(walk'[i].names)
  <2>1. \A i \in DOMAIN walk : Sorted(walk[i].names)
    BY DEF WalkOK, FrameOK
  <2>2. QED
    BY <2>1, <1>2, <1>5, <1>9
<1>11. /\ spec.start \in Name /\ Reaches(spec, Top.dir)
       /\ Here \in Name /\ Here # <<>> /\ Front(Here) = Top.dir /\ AtOrAbove(Top.dir, Here)
  BY <1>2, <1>5, <1>6, SpecsFacts, ChildFacts DEF Types, FrameOK, DirOK, Above
<1>12. Here \in DOMAIN fs \cup touched
  BY <1>2, <1>5, <1>6 DEF FrameOK
<1>13. ~ShouldStopDescent(spec, Here) => Reaches(spec, Here)
  BY <1>2, <1>5, <1>6, <1>11, ReachesChild
<1>14. AtOrAbove(spec.start, Here)
  BY <1>2, <1>11, AtOrAboveOrder DEF Reaches
<1>15. QED
  BY <1>9, <1>10, <1>11, <1>12, <1>13, <1>14

LEMMA ProcessSpecKeeps ==
  ASSUME GenerateAssumption
  PROVE  \A works \in BOOLEAN : \A s \in todo : IInv /\ ProcessSpec(s, works) => IInv'
<1>0. SUFFICES ASSUME NEW works \in BOOLEAN, NEW s \in todo, IInv, ProcessSpec(s, works),
                      NEW p, p = s.start, NEW o, o = Look(s, p, works)
               PROVE  IInv'
  OBVIOUS
<1> DEFINE f == CalcProps(o, s.props)
           d == SetFCOData(CreatePath(db, p), p, f)
<1>1. /\ Types /\ WalkOK /\ Progress /\ Shape /\ Idle /\ Report(p, works) /\ Calm
      /\ IF o = InvalidObject THEN db' = db /\ opening' = opening ELSE Descend(d, p, o)
      /\ todo' = todo \ {s} /\ spec' = s /\ walk' = walk
  BY <1>0 DEF IInv, ProcessSpec, Calm, Call
<1>2. walk = <<>> /\ opening = <<>> /\ walk' = <<>>
  BY <1>1 DEF Idle
<1>3. s \in specs /\ p \in Name /\ p # <<>> /\ Reaches(s, p) /\ s.start \in Name /\ NoData \notin Fcos(s.props)
  BY <1>0, <1>1, SpecsFacts DEF Types
<1>4. /\ errors \subseteq errors' /\ \A e \in errors' : \E t \in specs : Reaches(t, e)
      /\ o.type = "dir" => p \in DOMAIN fs /\ ~Crosses(s, p)
      /\ o.type = "dir" \/ \A q \in Name : Above(p, q) => Gone(s, q)'
      /\ p \in DOMAIN fs /\ ~Excused(p)' => o = InitializeTypeInfo(fs, s, p)
      /\ o # InvalidObject => p \in DOMAIN fs
      /\ f # NoData
  BY <1>0, <1>1, <1>3, LookedFacts
<1>5. ~Crosses(s, p)
  BY <1>0, <1>3, CrossesFacts
<1>6. /\ DOMAIN fs \subseteq Path /\ Path \subseteq Name \ {<<>>} /\ IsTree(fs)
      /\ IsDb(db) /\ Entries(db) \subseteq Path
  BY <1>1, PathFacts DEF Types, Shape
<1>7. Tidy(db)
  <2>1. \A q : ~InWalk(q)
    BY <1>2 DEF InWalk
  <2>2. QED
    BY <2>1, <1>1 DEF Shape, Tidy
<1>8. o = InvalidObject => o.type # "dir"
  BY DEF InvalidObject
<1>9. opening' = IF o.type = "dir" THEN <<p>> ELSE <<>>
  BY <1>1, <1>2, <1>8 DEF Descend
<1>10. o # InvalidObject =>
         /\ IsDb(db') /\ Entries(db') \subseteq Path /\ p \in Entries(db')
         /\ HasFCOData(db', p) /\ db'.data[p] = f /\ SameBut(db, db', p)
         /\ o.type = "dir" => CanDescend(db', p)
         /\ \A q \in Entries(db') : /\ CanDescend(db', q) => Children(db', q) # {} \/ (q = p /\ o.type = "dir")
                                    /\ CanDescend(db', q) \/ HasFCOData(db', q)
  <2>0. SUFFICES ASSUME o # InvalidObject
                 PROVE  /\ IsDb(db') /\ Entries(db') \subseteq Path /\ p \in Entries(db')
                        /\ HasFCOData(db', p) /\ db'.data[p] = f /\ SameBut(db, db', p)
                        /\ o.type = "dir" => CanDescend(db', p)
                        /\ \A q \in Entries(db') :
                             /\ CanDescend(db', q) => Children(db', q) # {} \/ (q = p /\ o.type = "dir")
                             /\ CanDescend(db', q) \/ HasFCOData(db', q)
    OBVIOUS
  <2>1. /\ IsDb(d) /\ Entries(d) = Entries(db) \cup PathsTo(p)
        /\ HasFCOData(d, p) /\ d.data[p] = f /\ SameBut(db, d, p)
    BY <1>3, <1>4, <1>6, CreateAndSet
  <2>2. Tidy(d)
    BY <1>3, <1>4, <1>6, <1>7, CreateTidy
  <2>3. PathsTo(p) \subseteq Path
    <3>1. ASSUME NEW q \in PathsTo(p)
          PROVE  q \in Path
      <4>1. q \in Name /\ q # <<>> /\ AtOrAbove(q, p)
        BY <1>3, PrefixSets
      <4>2. p \in DOMAIN fs /\ DOMAIN fs \subseteq Name \ {<<>>}
        BY <2>0, <1>4, <1>6
      <4>3. q \in DOMAIN fs
        BY <4>1, <4>2, <1>6, TreeFacts
      <4>4. QED
        BY <4>3, <1>6
    <3>2. QED
      BY <3>1
  <2>4. p \in Entries(d) /\ Descend(d, p, o)
    BY <2>0, <2>1, <1>1 DEF HasFCOData
  <2> HIDE DEF d
  <2>5. /\ IsDb(db') /\ Entries(db') = Entries(d) /\ db'.data = d.data /\ Same(d, db')
        /\ db'.arrays = IF o.type = "dir" THEN d.arrays \cup {p} ELSE d.arrays
    BY <2>1, <2>4, Descended
  <2>6. /\ HasFCOData(db', p) /\ db'.data[p] = f /\ SameBut(db, db', p)
    BY <2>1, <2>5 DEF Same, SameBut
  <2>7. o.type = "dir" => CanDescend(db', p)
    BY <2>4, <2>5 DEF CanDescend
  <2>8. ASSUME NEW q \in Entries(db')
        PROVE  /\ CanDescend(db', q) => Children(db', q) # {} \/ (q = p /\ o.type = "dir")
               /\ CanDescend(db', q) \/ HasFCOData(db', q)
    <3>1. /\ CanDescend(d, q) => Children(d, q) # {}
          /\ CanDescend(d, q) \/ HasFCOData(d, q)
      BY <2>2, <2>5, <2>8 DEF Tidy
    <3>2. Children(db', q) = Children(d, q) /\ (HasFCOData(d, q) => HasFCOData(db', q))
      BY <2>5 DEF Children, Same
    <3>3. /\ CanDescend(db', q) => CanDescend(d, q) \/ (q = p /\ o.type = "dir")
          /\ CanDescend(d, q) => CanDescend(db', q)
      BY <2>5 DEF CanDescend
    <3>4. QED
      BY <3>1, <3>2, <3>3
  <2>9. QED
    BY <2>1, <2>3, <2>4, <2>5, <2>6, <2>7, <2>8, <1>6
<1> HIDE DEF d, f
<1>11. WalkOK'
  <2>1. walk' \in Seq(Frame) /\ DOMAIN walk' = {}
    BY <1>2
  <2>2. Opens(opening', p)
    BY <1>9 DEF Opens
  <2>3. /\ opening' \in Seq(Name) /\ Len(opening') <= 1 /\ \A i \in DOMAIN opening' : opening'[i] = p
    BY <2>2, <1>3, OneOrNone
  <2>4. o.type = "dir" => DirOK(p)'
    BY <1>1, <1>3, <1>4, <1>6, <1>8, <1>10 DEF DirOK
  <2>5. (\A i \in DOMAIN opening : DirOK(opening[i]))'
    <3>1. DOMAIN opening' # {} => o.type = "dir"
      BY <1>9
    <3>2. QED
      BY <3>1, <2>3, <2>4
  <2>6. Nested(walk, opening)'
    BY <2>1 DEF Nested
  <2>7. (spec \notin todo)'
    BY <1>1
  <2>8. QED
    BY <2>1, <2>3, <2>5, <2>6, <2>7 DEF WalkOK
<1>12. Progress'
  <2>1. Turn(s, p)
    BY <1>0, <1>1 DEF Turn
  <2>2. PICK b \in BOOLEAN : b <=> o.type = "dir"
    OBVIOUS
  <2>3. ToComeAfter(p, b)
    <3>1. \A q : ~ToCome(walk, opening, q)
      BY <1>2 DEF ToCome
    <3>2. ASSUME NEW q \in Name
          PROVE  ToCome(walk', opening', q) <=> b /\ Above(p, q)
      <4>1. Opens(opening', p) /\ (opening' # <<>> <=> b)
        BY <2>2, <1>9 DEF Opens
      <4>2. (\E j \in DOMAIN opening' : Above(opening'[j], q)) <=> b /\ Above(p, q)
        BY <4>1, <1>3, OneOrNone
      <4>3. ~ \E i \in DOMAIN walk' : DueIn(walk'[i].dir, walk'[i].names, q)
        BY <1>2
      <4>4. QED
        BY <4>2, <4>3 DEF ToCome
    <3>3. QED
      BY <3>1, <3>2 DEF ToComeAfter, Above
  <2>4. SameBut(db, db', p)
    BY <1>1, <1>10 DEF SameBut
  <2>5. ASSUME NEW q \in Path, Reaches(s, q)
        PROVE  ~HasFCOData(db, q)
    BY <2>5, <1>0, <1>1, <1>3 DEF Progress, Status, Due
  <2>6. ASSUME NEW q \in Path, Above(p, q), Reaches(s, q)
        PROVE  ~HasFCOData(db, q) /\ (b \/ Gone(s, q)')
    BY <2>2, <2>5, <2>6, <1>4, <1>6
  <2>7. p \in Path => Right(s, p)'
    <3>1. SUFFICES ASSUME p \in Path, p \notin touched, ~Excused(p)'
                   PROVE  IF Seen(fs, s, p) THEN HasFCOData(db', p) /\ db'.data[p] = FcoOf(fs, s, p)
                                            ELSE ~HasFCOData(db', p)
      BY <1>1 DEF Right, Calm, Seen, FcoOf, InitializeTypeInfo
    <3>2. Seen(fs, s, p) <=> p \in DOMAIN fs
      BY <1>0 DEF Seen
    <3>3. CASE p \in DOMAIN fs
      <4>1. o = InitializeTypeInfo(fs, s, p)
        BY <3>1, <3>3, <1>4
      <4>2. o = fs[p] /\ fs[p] \in Object
        BY <4>1, <3>3, <1>1, <1>5 DEF InitializeTypeInfo, Types
      <4>3. o # InvalidObject
        BY <4>2 DEF Object, InvalidObject
      <4>4. QED
        BY <3>2, <3>3, <4>1, <4>3, <1>10 DEF FcoOf, f
    <3>4. CASE p \notin DOMAIN fs
      <4>1. db' = db
        BY <3>4, <1>1, <1>4
      <4>2. ~HasFCOData(db, p)
        BY <2>5, <3>1, <1>3
      <4>3. QED
        BY <3>2, <3>4, <4>1, <4>2
    <3>5. QED
      BY <3>3, <3>4
  <2>8. QED
    BY <2>1, <2>3, <2>4, <2>6, <2>7, <1>1, <1>3, <1>4, ProgressAfter
<1>13. Shape'
  <2>1. o.type = "dir" => InWalk(p)'
    BY <1>9 DEF InWalk
  <2>2. CASE o = InvalidObject
    <3>1. db' = db /\ specs' = specs
      BY <2>2, <1>1 DEF Calm
    <3>2. \A q : ~InWalk(q)
      BY <1>2 DEF InWalk
    <3>3. QED
      BY <3>1, <3>2, <1>1 DEF Shape
  <2>3. CASE o # InvalidObject
    <3>1. \A q \in Contents(db') : \E t \in specs : Reaches(t, q)
      <4>1. ASSUME NEW q \in Contents(db'), q # p
            PROVE  q \in Contents(db)
        BY <2>3, <4>1, <1>10 DEF Contents, SameBut, HasFCOData
      <4>2. QED
        BY <4>1, <1>1, <1>3 DEF Shape
    <3>2. QED
      BY <2>1, <2>3, <3>1, <1>1, <1>10 DEF Shape, Calm
  <2>4. QED
    BY <2>2, <2>3
<1>14. Types'
  BY <1>1, <1>3, <1>4 DEF Types, Calm
<1>15. QED
  BY <1>11, <1>12, <1>13, <1>14 DEF IInv

LEMMA SkipObjectKeeps ==
  ASSUME GenerateAssumption
  PROVE  IInv /\ SkipObject => IInv'
<1>0. SUFFICES ASSUME IInv, SkipObject
               PROVE  IInv'
  OBVIOUS
<1>1. /\ Types /\ WalkOK /\ Progress /\ Shape /\ AtObject /\ ShouldStopDescent(spec, Here)
      /\ walk' = Advanced /\ Calm /\ opening' = opening /\ opening = <<>> /\ walk # <<>>
      /\ UNCHANGED <<todo, spec, db, errors>>
  BY <1>0 DEF IInv, SkipObject, Calm, AtObject
<1>2. /\ Here \in Name /\ AtOrAbove(spec.start, Here)
      /\ walk' \in Seq(Frame) /\ DOMAIN walk' = DOMAIN walk
      /\ \A i \in DOMAIN walk : walk'[i].dir = walk[i].dir
      /\ \A i \in DOMAIN walk : \A n \in Int : Has(walk'[i].names, n) => Has(walk[i].names, n)
      /\ \A i \in DOMAIN walk : Sorted(walk'[i].names)
      /\ opening' \in Seq(Name) /\ Len(opening') <= 1
      /\ Nested(walk', opening')
      /\ ToComeAfter(Here, opening' # <<>>)
  BY <1>1, HereFacts
<1>3. WalkOK'
  <2>1. \A i \in DOMAIN walk : FrameOK(walk[i])
    BY <1>1 DEF WalkOK
  <2>2. (\A i \in DOMAIN walk : FrameOK(walk[i]))'
    BY <2>1, <1>1, <1>2 DEF FrameOK, DirOK, Calm
  <2>3. (\A i \in DOMAIN opening : DirOK(opening[i]))'
    BY <1>1
  <2>4. (~Idle => spec \notin todo)'
    BY <1>1, TopFacts
  <2>5. QED
    BY <2>2, <2>3, <2>4, <1>2 DEF WalkOK
<1>4. ASSUME NEW q \in Path, Reaches(spec, q)
      PROVE  ~AtOrAbove(Here, q)
  <2>1. SUFFICES ASSUME AtOrAbove(Here, q)
                 PROVE  FALSE
    OBVIOUS
  <2>2. q \in Name /\ spec.start \in Name
    BY <1>1, PathFacts, SpecsFacts DEF Types
  <2>3. Reaches(spec, Here)
    BY <2>1, <2>2, <1>2, <1>4, ReachedAbove
  <2>4. QED
    BY <2>2, <2>3, <1>1, <1>2, ReachedNotStopped
<1>5. Progress'
  <2>1. \A q \in Path : Reaches(spec, q) => (ToCome(walk', opening', q) <=> ToCome(walk, opening, q))
    BY <1>2, <1>4, PathFacts DEF ToComeAfter
  <2>2. Same(db, db')
    BY <1>1 DEF Same
  <2>3. QED
    BY <2>1, <2>2, <1>1, WalkOnly
<1>6. Shape'
  <2>1. \A p : InWalk(p)' <=> InWalk(p)
    BY <1>1, <1>2 DEF InWalk
  <2>2. QED
    BY <2>1, <1>1 DEF Shape, Calm
<1>7. Types'
  BY <1>1 DEF Types, Calm
<1>8. QED
  BY <1>3, <1>5, <1>6, <1>7 DEF IInv

LEMMA ProcessObjectKeeps ==
  ASSUME GenerateAssumption
  PROVE  \A works \in BOOLEAN : IInv /\ ProcessObject(works) => IInv'
<1>0. SUFFICES ASSUME NEW works \in BOOLEAN, IInv, ProcessObject(works),
                      NEW p, p = Here, NEW o, o = Look(spec, p, works), NEW s, s = spec
               PROVE  IInv'
  OBVIOUS
<1> DEFINE f == CalcProps(o, s.props)
           d == AddFCO(db, p, f)
<1>1. /\ Types /\ WalkOK /\ Progress /\ Shape /\ AtObject /\ ~ShouldStopDescent(s, p)
      /\ Report(p, works) /\ walk' = Advanced /\ Calm /\ opening = <<>> /\ walk # <<>>
      /\ Descend(d, p, o) /\ todo' = todo /\ spec' = spec
  BY <1>0 DEF IInv, ProcessObject, Calm, Call, AtObject
<1>2. /\ Len(walk) \in DOMAIN walk /\ Top = walk[Len(walk)] /\ FrameOK(Top) /\ s \notin todo
  BY <1>0, <1>1, TopFacts
<1>3. opening' = IF o.type = "dir" THEN <<p>> ELSE <<>>
  BY <1>1 DEF Descend
<1>4. /\ p \in Name /\ p # <<>> /\ Front(p) = Top.dir /\ Reaches(s, p)
      /\ p \in DOMAIN fs \cup touched
      /\ walk' \in Seq(Frame) /\ DOMAIN walk' = DOMAIN walk
      /\ \A i \in DOMAIN walk : walk'[i].dir = walk[i].dir
      /\ \A i \in DOMAIN walk : \A n \in Int : Has(walk'[i].names, n) => Has(walk[i].names, n)
      /\ \A i \in DOMAIN walk : Sorted(walk'[i].names)
      /\ opening' \in Seq(Name) /\ Len(opening') <= 1 /\ \A i \in DOMAIN opening' : opening'[i] = p
      /\ Nested(walk', opening')
      /\ ToComeAfter(p, opening' # <<>>)
      /\ \A q \in Name : AtOrAbove(p, q) => ToCome(walk, opening, q)
  <2>1. opening' = <<>> \/ opening' = <<Here>>
    BY <1>0, <1>3
  <2>2. QED
    BY <2>1, <1>0, <1>1, HereFacts
<1>5. s \in specs /\ s.start \in Name /\ p \in Path
  BY <1>0, <1>1, <1>4, SpecsFacts DEF Types
<1>6. /\ errors \subseteq errors' /\ \A e \in errors' : \E t \in specs : Reaches(t, e)
      /\ o.type = "dir" => p \in DOMAIN fs /\ ~Crosses(s, p)
      /\ o.type = "dir" \/ \A q \in Name : Above(p, q) => Gone(s, q)'
      /\ p \in DOMAIN fs /\ ~Excused(p)' => o = InitializeTypeInfo(fs, s, p)
      /\ f # NoData
  BY <1>0, <1>1, <1>4, <1>5, LookedFacts
<1>7. /\ IsDb(db) /\ Top.dir \in db.arrays /\ Top.dir \in Path /\ ~Crosses(s, Top.dir)
  BY <1>0, <1>1, <1>2 DEF Shape, FrameOK, DirOK, CanDescend
<1>8. /\ IsDb(d) /\ Entries(d) = Entries(db) \cup {p} /\ d.arrays = db.arrays
      /\ HasFCOData(d, p) /\ d.data[p] = f /\ SameBut(db, d, p)
  BY <1>4, <1>6, <1>7, FcoAdded
<1> HIDE DEF d
<1>9. /\ IsDb(db') /\ Entries(db') = Entries(db) \cup {p}
      /\ db'.arrays = IF o.type = "dir" THEN db.arrays \cup {p} ELSE db.arrays
      /\ HasFCOData(db', p) /\ db'.data[p] = f /\ SameBut(db, db', p)
  <2>1. /\ IsDb(db') /\ Entries(db') = Entries(d) /\ db'.data = d.data /\ Same(d, db')
        /\ db'.arrays = IF o.type = "dir" THEN d.arrays \cup {p} ELSE d.arrays
    BY <1>1, <1>8, Descended
  <2>2. QED
    BY <2>1, <1>8 DEF Same, SameBut
<1> HIDE DEF f
<1>10. /\ \A q : HasFCOData(db, q) => HasFCOData(db', q)
       /\ \A q : CanDescend(db, q) => CanDescend(db', q)
       /\ \A q : CanDescend(db', q) => CanDescend(db, q) \/ (q = p /\ o.type = "dir")
                                       \/ (q = p /\ p \in db.arrays)
       /\ \A q : Children(db, q) \subseteq Children(db', q)
  BY <1>9 DEF SameBut, CanDescend, Children
<1>11. WalkOK'
  <2>1. \A i \in DOMAIN walk : FrameOK(walk[i])
    BY <1>1 DEF WalkOK
  <2>2. \A q : DirOK(q) => DirOK(q)'
    BY <1>1, <1>10, DirStays
  <2>3. (\A i \in DOMAIN walk : FrameOK(walk[i]))'
    BY <2>1, <2>2, <1>1, <1>4 DEF FrameOK, Calm
  <2>4. (\A i \in DOMAIN opening : DirOK(opening[i]))'
    <3>1. ASSUME o.type = "dir"
          PROVE  DirOK(p)'
      <4>1. CanDescend(db', p)
        BY <3>1, <1>9 DEF CanDescend
      <4>2. QED
        BY <4>1, <3>1, <1>0, <1>1, <1>4, <1>5, <1>6, <1>9 DEF DirOK
    <3>2. DOMAIN opening' # {} => o.type = "dir"
      BY <1>3
    <3>3. QED
      BY <3>1, <3>2, <1>4
  <2>5. (~Idle => spec \notin todo)'
    BY <1>0, <1>1, <1>2
  <2>6. QED
    BY <2>3, <2>4, <2>5, <1>4 DEF WalkOK
<1>12. Progress'
  <2>1. Turn(s, p)
    BY <1>0, <1>1, <1>2 DEF Turn
  <2>2. PICK b \in BOOLEAN : b <=> opening' # <<>>
    OBVIOUS
  <2>3. ToComeAfter(p, b) /\ (b <=> o.type = "dir")
    BY <2>2, <1>3, <1>4 DEF ToComeAfter
  <2>4. ASSUME NEW q \in Path, Above(p, q), Reaches(s, q)
        PROVE  ~HasFCOData(db, q) /\ (b \/ Gone(s, q)')
    <3>1. q \in Name /\ AtOrAbove(p, q)
      BY <2>4, PathFacts DEF Above
    <3>2. Due(s, q)
      BY <3>1, <1>0, <1>4 DEF Due
    <3>3. ~HasFCOData(db, q)
      BY <2>4, <3>2, <1>1, <1>5 DEF Progress, Status
    <3>4. QED
      BY <2>3, <2>4, <3>1, <3>3, <1>6
  <2>5. Right(s, p)'
    <3>1. SUFFICES ASSUME p \notin touched, ~Excused(p)'
                   PROVE  Seen(fs, s, p) /\ HasFCOData(db', p) /\ db'.data[p] = FcoOf(fs, s, p)
      BY <1>1 DEF Right, Calm
    <3>2. p \in DOMAIN fs /\ o = InitializeTypeInfo(fs, s, p)
      BY <3>1, <1>4, <1>6
    <3>3. Seen(fs, s, p)
      BY <3>2, <1>4, <1>7 DEF Seen
    <3>4. QED
      BY <3>2, <3>3, <1>9 DEF FcoOf, f
  <2>6. QED
    BY <2>1, <2>3, <2>4, <2>5, <1>1, <1>4, <1>5, <1>6, <1>9, ProgressAfter
<1>13. Shape'
  <2>1. \A q : InWalk(q) => InWalk(q)'
    BY <1>1, <1>4 DEF InWalk
  <2>2. o.type = "dir" => InWalk(p)'
    BY <1>3 DEF InWalk
  <2>3. ASSUME NEW q \in Entries(db')
        PROVE  /\ CanDescend(db', q) => Children(db', q) # {} \/ InWalk(q)'
               /\ CanDescend(db', q) \/ HasFCOData(db', q)
    <3>1. CASE q \in Entries(db)
      <4>1. /\ CanDescend(db, q) => Children(db, q) # {} \/ InWalk(q)
            /\ CanDescend(db, q) \/ HasFCOData(db, q)
        BY <3>1, <1>1 DEF Shape
      <4>2. CanDescend(db', q) => CanDescend(db, q) \/ (q = p /\ o.type = "dir")
        BY <3>1, <1>10 DEF CanDescend
      <4>3. QED
        BY <4>1, <4>2, <2>1, <2>2, <1>10
    <3>2. CASE q \notin Entries(db)
      <4>1. q = p
        BY <3>2, <2>3, <1>9
      <4>2. p \notin db.arrays
        BY <3>2, <4>1, <1>4, <1>7 DEF IsDb, Rooted
      <4>3. CanDescend(db', p) => o.type = "dir"
        BY <3>2, <4>1, <4>2, <1>10 DEF CanDescend
      <4>4. QED
        BY <4>1, <4>3, <2>2, <1>9
    <3>3. QED
      BY <3>1, <3>2
  <2>4. \A q \in Contents(db') : \E t \in specs : Reaches(t, q)
    <3>1. ASSUME NEW q \in Contents(db')
          PROVE  \E t \in specs : Reaches(t, q)
      <4>1. CASE q = p
        BY <4>1, <1>4, <1>5
      <4>2. CASE q # p
        <5>1. q \in Contents(db)
          BY <4>2, <3>1, <1>9 DEF Contents, SameBut, HasFCOData
        <5>2. QED
          BY <5>1, <1>1 DEF Shape
      <4>3. QED
        BY <4>1, <4>2
    <3>2. QED
      BY <3>1
  <2>5. Entries(db') \subseteq Path
    BY <1>1, <1>5, <1>9 DEF Shape
  <2>6. QED
    BY <2>3, <2>4, <2>5, <1>1, <1>9 DEF Shape, Calm
<1>14. Types'
  BY <1>1, <1>6 DEF Types, Calm
<1>15. QED
  BY <1>11, <1>12, <1>13, <1>14 DEF IInv

LEMMA LeaveDirKeeps ==
  ASSUME GenerateAssumption
  PROVE  IInv /\ LeaveDir => IInv'
<1>0. SUFFICES ASSUME IInv, LeaveDir, NEW d, d = Top.dir
               PROVE  IInv'
  OBVIOUS
<1>1. /\ Types /\ WalkOK /\ Progress /\ Shape /\ opening = <<>> /\ walk # <<>> /\ Top.names = <<>>
      /\ walk' = Front(walk) /\ Calm /\ opening' = opening
      /\ UNCHANGED <<todo, spec, errors>>
      /\ db' = IF CanRemoveChildArray(db, d) THEN RemoveChildArray(db, d) ELSE db
  BY <1>0 DEF IInv, LeaveDir, Calm
<1>2. /\ Len(walk) \in DOMAIN walk /\ Top = walk[Len(walk)] /\ FrameOK(Top) /\ d \in Name
      /\ spec \notin todo /\ walk \in Seq(Frame) /\ Nested(walk, <<>>)
  BY <1>0, <1>1, TopFacts
<1>3. /\ walk' \in Seq(Frame)
      /\ \A i \in DOMAIN walk' : i \in DOMAIN walk /\ walk'[i] = walk[i] /\ Above(walk[i].dir, d)
      /\ \A i \in DOMAIN walk : i = Len(walk) \/ i \in DOMAIN walk'
      /\ Nested(walk', <<>>)
      /\ \A q \in Name : ToCome(walk', <<>>, q) <=> ToCome(walk, <<>>, q)
  <2>1. walk[Len(walk)].names = <<>> /\ d = walk[Len(walk)].dir
    BY <1>0, <1>1, <1>2
  <2>2. QED
    BY <2>1, <1>1, <1>2, DirLeft
<1>4. /\ IsDb(db) /\ d \in Entries(db) /\ CanDescend(db, d) /\ HasFCOData(db, d)
  BY <1>0, <1>1, <1>2 DEF Shape, FrameOK, DirOK, CanDescend
<1>5. /\ IsDb(db') /\ Entries(db') = Entries(db) /\ db'.data = db.data /\ Same(db, db')
      /\ db'.arrays = IF Children(db, d) = {} THEN db.arrays \ {d} ELSE db.arrays
  <2>1. CASE Children(db, d) = {}
    <3>1. db' = RemoveChildArray(db, d)
      BY <2>1, <1>1, <1>4 DEF CanRemoveChildArray
    <3>2. QED
      BY <2>1, <3>1, <1>4, ArrayRemoved
  <2>2. CASE Children(db, d) # {}
    BY <2>2, <1>1, <1>4 DEF CanRemoveChildArray, Same
  <2>3. QED
    BY <2>1, <2>2
<1>6. /\ \A q : HasFCOData(db, q) <=> HasFCOData(db', q)
      /\ \A q : CanDescend(db', q) => CanDescend(db, q) /\ (q = d => Children(db, d) # {})
      /\ \A q : CanDescend(db, q) /\ q # d => CanDescend(db', q)
      /\ \A q : Children(db', q) = Children(db, q)
  BY <1>5 DEF Same, CanDescend, Children
<1>7. WalkOK'
  <2>1. ASSUME NEW i \in DOMAIN walk'
        PROVE  FrameOK(walk[i])'
    <3>1. PICK frame : frame = walk[i]
      OBVIOUS
    <3>2. walk'[i] = frame /\ frame.dir # d /\ FrameOK(frame)
      BY <2>1, <3>1, <1>1, <1>3 DEF Above, WalkOK
    <3>3. DirOK(frame.dir)'
      BY <3>2, <1>1, <1>6, DirStays DEF FrameOK
    <3>4. FrameOK(frame)'
      BY <3>2, <3>3, <1>1 DEF FrameOK, Calm
    <3>5. QED
      BY <3>2, <3>4
  <2>2. opening' = <<>> /\ opening' \in Seq(Name) /\ Len(opening') <= 1 /\ DOMAIN opening' = {}
    BY <1>1
  <2>3. (spec \notin todo)'
    BY <1>1, <1>2
  <2>4. QED
    BY <2>1, <2>2, <2>3, <1>3 DEF WalkOK
<1>8. Progress'
  <2>1. \A q \in Path : ToCome(walk', opening', q) <=> ToCome(walk, opening, q)
    BY <1>1, <1>3, PathFacts
  <2>2. QED
    BY <2>1, <1>1, <1>5, WalkOnly
<1>9. Shape'
  <2>1. \A q : InWalk(q) => q = d \/ InWalk(q)'
    <3>1. ASSUME NEW q, InWalk(q), q # d
          PROVE  \E i \in DOMAIN walk' : walk'[i].dir = q
      <4>1. PICK i \in DOMAIN walk : walk[i].dir = q
        BY <3>1, <1>1 DEF InWalk
      <4>2. i # Len(walk)
        BY <3>1, <4>1, <1>0, <1>2
      <4>3. QED
        BY <4>1, <4>2, <1>3
    <3>2. QED
      BY <3>1 DEF InWalk
  <2>2. ASSUME NEW q \in Entries(db')
        PROVE  /\ CanDescend(db', q) => Children(db', q) # {} \/ InWalk(q)'
               /\ CanDescend(db', q) \/ HasFCOData(db', q)
    <3>1. /\ CanDescend(db, q) => Children(db, q) # {} \/ InWalk(q)
          /\ CanDescend(db, q) \/ HasFCOData(db, q)
      BY <2>2, <1>1, <1>5 DEF Shape
    <3>2. CASE q = d
      BY <3>2, <1>4, <1>6
    <3>3. CASE q # d
      BY <3>1, <3>3, <2>1, <1>6
    <3>4. QED
      BY <3>2, <3>3
  <2>3. Contents(db') = Contents(db)
    BY <1>5, <1>6 DEF Contents
  <2>4. QED
    BY <2>2, <2>3, <1>1, <1>5 DEF Shape, Calm
<1>10. Types'
  BY <1>1 DEF Types, Calm
<1>11. QED
  BY <1>7, <1>8, <1>9, <1>10 DEF IInv

LEMMA OpenDirKeeps ==
  ASSUME GenerateAssumption
  PROVE  \A works \in BOOLEAN : IInv /\ OpenDir(works) => IInv'
<1>0. SUFFICES ASSUME NEW works \in BOOLEAN, IInv, OpenDir(works), NEW d, d = opening[1],
                      NEW readable, readable = (works /\ IsDir(fs, d)),
                      NEW names, names = (IF readable THEN GetChildrenNames(fs, d) ELSE <<>>)
               PROVE  IInv'
  OBVIOUS
<1>1. /\ Types /\ WalkOK /\ Progress /\ Shape /\ Calm /\ opening' = <<>> /\ opening # <<>>
      /\ UNCHANGED <<todo, spec, db>>
      /\ walk' = Append(walk, [dir |-> d, names |-> names])
      /\ errors' = IF readable THEN errors ELSE errors \cup {d}
  BY <1>0 DEF IInv, OpenDir, Calm, Call
<1>2. /\ opening = <<d>> /\ d \in Name /\ DirOK(d) /\ walk \in Seq(Frame)
      /\ Nested(walk, <<d>>) /\ spec \notin todo /\ \A i \in DOMAIN walk : FrameOK(walk[i])
      /\ 1 \in DOMAIN opening /\ \A j \in DOMAIN opening : j = 1
  <2>1. opening \in Seq(Name) /\ Len(opening) <= 1 /\ Len(opening) \in Nat \ {0}
    BY <1>1, EmptySeq DEF WalkOK
  <2>2. Len(opening) = 1 /\ DOMAIN opening = 1..1
    <3>1. \A k \in Nat \ {0} : k <= 1 => k = 1
      OBVIOUS
    <3>2. Len(opening) = 1
      BY <2>1, <3>1
    <3>3. DOMAIN opening = 1..Len(opening)
      BY <2>1, LenProperties
    <3>4. QED
      BY <3>2, <3>3
  <2>3. opening = <<opening[1]>> /\ opening[1] \in Name
    BY <2>1, <2>2, ElementOfSeq
  <2>4. \A j \in 1..1 : j = 1
    OBVIOUS
  <2>5. QED
    BY <2>2, <2>3, <2>4, <1>0, <1>1 DEF WalkOK, Idle
<1>3. /\ spec \in specs /\ spec.start \in Name /\ Reaches(spec, d) /\ ~Crosses(spec, d)
      /\ AtOrAbove(spec.start, d) /\ d \in Path
      /\ DOMAIN fs \subseteq Path /\ Path \subseteq Name \ {<<>>} /\ IsTree(fs)
  BY <1>1, <1>2, SpecsFacts, PathFacts DEF Types, DirOK, Reaches
<1>4. /\ names \in Seq(Int) /\ Sorted(names)
      /\ \A n \in Int : Has(names, n) <=> readable /\ Append(d, n) \in DOMAIN fs
  <2>1. CASE readable
    <3>1. /\ GetChildrenNames(fs, d) \in Seq(Int) /\ Sorted(GetChildrenNames(fs, d))
          /\ \A n \in Int : Has(GetChildrenNames(fs, d), n) <=> Append(d, n) \in DOMAIN fs
      BY <1>2, <1>3, NamesIn DEF GetChildrenNames, ChildrenIn
    <3>2. QED
      BY <2>1, <3>1, <1>0
  <2>2. CASE ~readable
    <3>1. <<>> \in Seq(Int) /\ Sorted(<<>>) /\ \A n : ~Has(<<>>, n)
      BY DEF Sorted, Has
    <3>2. QED
      BY <2>2, <3>1, <1>0
  <2>3. QED
    BY <2>1, <2>2
<1> DEFINE frame == [dir |-> d, names |-> names]
<1>5. /\ walk' \in Seq(Frame) /\ DOMAIN walk' = 1 .. Len(walk) + 1
      /\ walk'[Len(walk) + 1] = frame /\ \A i \in DOMAIN walk : walk'[i] = walk[i]
      /\ Nested(walk', <<>>)
      /\ \A q \in Name :
           IF Above(d, q)
           THEN ToCome(walk', <<>>, q) <=> DueIn(d, names, q)
           ELSE ToCome(walk', <<>>, q) <=> ToCome(walk, <<d>>, q)
  BY <1>1, <1>2, <1>4, DirOpened
<1>6. DOMAIN walk = 1..Len(walk) /\ Len(walk) \in Nat
  BY <1>2, LenProperties
<1>7. WalkOK'
  <2>1. FrameOK(frame)
    <3>1. frame.dir = d /\ frame.names = names
      OBVIOUS
    <3> HIDE DEF frame
    <3>2. QED
      BY <3>1, <1>2, <1>4 DEF FrameOK
  <2>2. \A i \in DOMAIN walk' : i \in DOMAIN walk \/ i = Len(walk) + 1
    BY <1>5, <1>6
  <2>3. \A i \in DOMAIN walk' : FrameOK(walk'[i])
    BY <2>1, <2>2, <1>2, <1>5
  <2>4. (\A i \in DOMAIN walk : FrameOK(walk[i]))'
    BY <2>3, <1>1 DEF FrameOK, DirOK, Calm
  <2>5. opening' \in Seq(Name) /\ Len(opening') <= 1 /\ DOMAIN opening' = {}
    BY <1>1
  <2>6. QED
    BY <2>4, <2>5, <1>1, <1>2, <1>5 DEF WalkOK
<1>8. errors \subseteq errors' /\ \A e \in errors' : \E s \in specs : Reaches(s, e)
  BY <1>1, <1>3 DEF Types
<1>9. Progress'
  <2>1. ASSUME NEW q \in Path, Reaches(spec, q)
        PROVE  /\ ToCome(walk', opening', q) => ToCome(walk, opening, q)
               /\ ToCome(walk, opening, q) => ToCome(walk', opening', q) \/ Gone(spec, q)'
    <3>1. q \in Name
      BY <1>3
    <3>2. CASE ~Above(d, q)
      BY <3>1, <3>2, <1>1, <1>2, <1>5
    <3>3. CASE Above(d, q)
      <4>1. PICK n \in Int : AtOrAbove(Append(d, n), q)
        BY <3>1, <3>3, <1>2, BelowIsAtChild
      <4>2. ToCome(walk', opening', q) <=> readable /\ Append(d, n) \in DOMAIN fs
        BY <3>1, <3>3, <4>1, <1>1, <1>2, <1>4, <1>5, DueInFacts
      <4>3. ToCome(walk, opening, q)
        BY <3>3, <1>0, <1>2 DEF ToCome
      <4>4. Append(d, n) \in Name /\ Append(d, n) # <<>> /\ DOMAIN fs \subseteq Name \ {<<>>}
        BY <1>2, <1>3, ChildFacts
      <4>5. Seen(fs, spec, q)' = Seen(fs, spec, q)
        BY <1>1 DEF Seen, Calm
      <4>6. ASSUME Append(d, n) \notin DOMAIN fs
            PROVE  Gone(spec, q)'
        <5>1. q \notin DOMAIN fs
          BY <4>1, <4>4, <4>6, <1>3, TreeFacts
        <5>2. QED
          BY <5>1, <4>5 DEF Gone, Seen
      <4>7. ASSUME ~readable
            PROVE  Gone(spec, q)'
        <5>1. CASE ~IsDir(fs, d)
          <6>1. d # <<>>
            BY <1>3
          <6>2. ~Seen(fs, spec, q)
            BY <5>1, <6>1, <3>1, <3>3, <4>4, <1>2, <1>3, NotSeenBelow
          <6>3. QED
            BY <6>2, <4>5 DEF Gone
        <5>2. CASE IsDir(fs, d)
          <6>1. d \in errors' /\ d \in DOMAIN fs /\ AtOrAbove(d, q)
            BY <5>2, <4>7, <3>3, <1>1 DEF IsDir, Above
          <6>2. Excused(q)'
            BY <6>1, <1>1 DEF Excused, Calm
          <6>3. QED
            BY <6>2 DEF Gone
        <5>3. QED
          BY <5>1, <5>2
      <4>8. QED
        BY <4>2, <4>3, <4>6, <4>7
    <3>4. QED
      BY <3>2, <3>3
  <2>2. Same(db, db')
    BY <1>1 DEF Same
  <2>3. QED
    BY <2>1, <2>2, <1>1, <1>8, WalkOnly
<1>10. Shape'
  <2>1. ASSUME NEW q, InWalk(q)
        PROVE  InWalk(q)'
    <3>1. CASE q = d
      <4>1. Len(walk) + 1 \in DOMAIN walk' /\ walk'[Len(walk) + 1].dir = d
        BY <1>5, <1>6
      <4>2. QED
        BY <3>1, <4>1 DEF InWalk
    <3>2. CASE q # d
      <4>1. PICK i \in DOMAIN walk : walk[i].dir = q
        BY <2>1, <3>2, <1>0, <1>2 DEF InWalk
      <4>2. i \in DOMAIN walk' /\ walk'[i].dir = q
        BY <4>1, <1>5, <1>6
      <4>3. QED
        BY <4>2 DEF InWalk
    <3>3. QED
      BY <3>1, <3>2
  <2>2. QED
    BY <2>1, <1>1 DEF Shape, Calm
<1>11. Types'
  BY <1>1, <1>8 DEF Types, Calm
<1>12. QED
  BY <1>7, <1>9, <1>10, <1>11 DEF IInv

(* What happens to the file system leaves a tree, and every object but one  *)
(* as it was.                                                               *)
LEMMA DisturbFacts ==
  ASSUME Types, Disturb
  PROVE  /\ IsTree(fs') /\ DOMAIN fs' \subseteq Path /\ \A q \in DOMAIN fs' : fs'[q] \in Object
         /\ touched \subseteq touched' /\ touched' \subseteq Path
         /\ DOMAIN fs \cup touched \subseteq DOMAIN fs' \cup touched'
         /\ \A q : q \notin touched' => /\ q \in DOMAIN fs' <=> q \in DOMAIN fs
                                        /\ q \in DOMAIN fs => fs'[q] = fs[q]
<1>1. PICK p \in Path : CreateObject(p) \/ ChangeObject(p) \/ RemoveObject(p)
  BY DEF Disturb
<1>2. touched' = touched \cup {p}
  BY <1>1 DEF CreateObject, ChangeObject, RemoveObject, Touch
<1>3. /\ IsTree(fs) /\ DOMAIN fs \subseteq Path /\ touched \subseteq Path
      /\ \A q \in DOMAIN fs : fs[q] \in Object
  BY DEF Types
<1>4. \E o \in Object :
        \/ /\ p \notin DOMAIN fs /\ (Len(p) = 1 \/ IsDir(fs, Front(p)))
           /\ fs' = [q \in DOMAIN fs \cup {p} |-> IF q = p THEN o ELSE fs[q]]
        \/ /\ p \in DOMAIN fs /\ (o.type = "dir" \/ ChildrenIn(fs, p) = {})
           /\ fs' = [fs EXCEPT ![p] = o]
        \/ ChildrenIn(fs, p) = {} /\ fs' = [q \in DOMAIN fs \ {p} |-> fs[q]]
  <2>1. CASE CreateObject(p)
    BY <2>1 DEF CreateObject
  <2>2. CASE ChangeObject(p)
    BY <2>2 DEF ChangeObject
  <2>3. CASE RemoveObject(p)
    BY <2>3, <1>3 DEF RemoveObject
  <2>4. QED
    BY <2>1, <2>2, <2>3, <1>1
<1>5. /\ IsTree(fs') /\ DOMAIN fs' \subseteq Path /\ \A q \in DOMAIN fs' : fs'[q] \in Object
      /\ DOMAIN fs \subseteq DOMAIN fs' \cup {p}
      /\ \A q : q # p => /\ q \in DOMAIN fs' <=> q \in DOMAIN fs
                         /\ q \in DOMAIN fs => fs'[q] = fs[q]
  BY <1>3, <1>4, ChangedTree
<1>6. QED
  BY <1>2, <1>3, <1>5

LEMMA DisturbedKeeps == IInv /\ Disturbed => IInv'
<1> SUFFICES ASSUME IInv, Disturbed
             PROVE  IInv'
  OBVIOUS
<1>1. Types /\ WalkOK /\ Progress /\ Shape
  BY DEF IInv
<1>2. UNCHANGED <<specs, todo, spec, db, walk, opening, errors>> /\ Disturb
  BY DEF Disturbed
<1>3. /\ IsTree(fs') /\ DOMAIN fs' \subseteq Path /\ \A q \in DOMAIN fs' : fs'[q] \in Object
      /\ touched \subseteq touched' /\ touched' \subseteq Path
      /\ DOMAIN fs \cup touched \subseteq DOMAIN fs' \cup touched'
      /\ \A q : q \notin touched' => /\ q \in DOMAIN fs' <=> q \in DOMAIN fs
                                     /\ q \in DOMAIN fs => fs'[q] = fs[q]
  BY <1>1, <1>2, DisturbFacts
<1>4. Types'
  BY <1>1, <1>2, <1>3 DEF Types
<1>5. WalkOK'
  <2>1. \A i \in DOMAIN walk : FrameOK(walk[i])
    BY <1>1 DEF WalkOK
  <2>2. (\A i \in DOMAIN walk : FrameOK(walk[i]))'
    BY <2>1, <1>2, <1>3 DEF FrameOK, DirOK
  <2>3. \A i \in DOMAIN opening : DirOK(opening[i])
    BY <1>1 DEF WalkOK
  <2>4. (\A i \in DOMAIN opening : DirOK(opening[i]))'
    BY <2>3, <1>2, <1>3 DEF DirOK
  <2>5. QED
    BY <2>2, <2>4, <1>1, <1>2 DEF WalkOK, Idle
<1>6. Progress'
  <2> SUFFICES ASSUME NEW t \in specs, NEW q \in Path, Reaches(t, q)
               PROVE  Status(t, q)'
    BY <1>2 DEF Progress
  <2>1. Status(t, q)
    BY <1>1 DEF Progress
  <2>2. (Due(t, q)' <=> Due(t, q)) /\ db' = db
    BY <1>2 DEF Due
  <2>3. Excused(q) => Excused(q)'
    BY <1>2, <1>3 DEF Excused
  <2>4. ASSUME q \notin touched'
        PROVE  /\ Seen(fs, t, q)' <=> Seen(fs, t, q)
               /\ FcoOf(fs, t, q)' = FcoOf(fs, t, q)
    <3>1. /\ q \in DOMAIN fs' <=> q \in DOMAIN fs
          /\ q \in DOMAIN fs => fs'[q] = fs[q]
      BY <2>4, <1>3
    <3>2. Seen(fs', t, q) <=> Seen(fs, t, q)
      BY <3>1 DEF Seen
    <3>3. FcoOf(fs', t, q) = FcoOf(fs, t, q)
      BY <3>1 DEF FcoOf, InitializeTypeInfo
    <3>4. QED
      BY <3>2, <3>3
  <2>5. Right(t, q) => Right(t, q)'
    <3> SUFFICES ASSUME Right(t, q), q \notin touched', ~Excused(q)'
                 PROVE  (IF Seen(fs, t, q) THEN HasFCOData(db, q) /\ db.data[q] = FcoOf(fs, t, q)
                                           ELSE ~HasFCOData(db, q))'
      BY DEF Right
    <3>1. IF Seen(fs, t, q) THEN HasFCOData(db, q) /\ db.data[q] = FcoOf(fs, t, q)
                            ELSE ~HasFCOData(db, q)
      BY <2>3, <1>3 DEF Right
    <3>2. QED
      BY <3>1, <2>2, <2>4
  <2>6. QED
    BY <2>1, <2>2, <2>5 DEF Status
<1>7. Shape'
  BY <1>1, <1>2 DEF Shape, InWalk
<1>8. QED
  BY <1>4, <1>5, <1>6, <1>7 DEF IInv

LEMMA NextKeeps == ASSUME GenerateAssumption PROVE IInv /\ [Next]_vars => IInv'
<1> SUFFICES ASSUME IInv, [Next]_vars
             PROVE  IInv'
  OBVIOUS
<1>1. CASE UNCHANGED vars
  BY <1>1 DEF vars, IInv, Types, WalkOK, Idle, FrameOK, DirOK, Progress, Status, Due, Right,
              Excused, Shape, InWalk
<1>2. CASE \E works \in BOOLEAN, s \in todo : ProcessSpec(s, works)
  BY <1>2, ProcessSpecKeeps
<1>3. CASE \E works \in BOOLEAN : OpenDir(works)
  BY <1>3, OpenDirKeeps
<1>4. CASE \E works \in BOOLEAN : ProcessObject(works)
  BY <1>4, ProcessObjectKeeps
<1>5. CASE SkipObject
  BY <1>5, SkipObjectKeeps
<1>6. CASE LeaveDir
  BY <1>6, LeaveDirKeeps
<1>7. CASE Disturbed
  BY <1>7, DisturbedKeeps
<1>8. QED
  BY <1>1, <1>2, <1>3, <1>4, <1>5, <1>6, <1>7 DEF Next, Step

(* All of it is kept: nothing that a rule reaches falls out of the walk     *)
(* without being recorded as it is.                                         *)
THEOREM Invariant == ASSUME GenerateAssumption PROVE Spec => []IInv
<1>1. Init => IInv
  BY InitEstablishes
<1>2. IInv /\ [Next]_vars => IInv'
  BY NextKeeps
<1>3. QED
  BY <1>1, <1>2, PTL DEF Spec

-----------------------------------------------------------------------------
(* What every state of a generation satisfies.  First: the file system      *)
(* stays a tree, every entry of the database hangs from an array of an      *)
(* entry, and errors are reported only for what a rule reaches.             *)
THEOREM TypeCorrect == ASSUME GenerateAssumption PROVE Spec => []TypeOK
<1>1. ASSUME IInv
      PROVE  TypeOK
  <2>1. Types /\ WalkOK /\ Shape
    BY <1>1 DEF IInv
  <2>2. \A n \in 1..Len(walk) : walk[n].dir \in Path
    <3>1. DOMAIN walk = 1..Len(walk)
      BY <2>1, LenProperties DEF WalkOK
    <3>2. QED
      BY <3>1, <2>1 DEF WalkOK, FrameOK, DirOK
  <2>3. QED
    BY <2>1, <2>2 DEF Types, Shape, IsDb, TypeOK
<1>2. QED
  BY <1>1, Invariant, PTL

(* When the generation is finished, every object that a rule reaches, and   *)
(* that nothing happened to, is recorded as it is, or has no entry if there *)
(* is none, unless there is an error for one above it: whatever happens to  *)
(* the other objects while the walk is under way, and whatever order the    *)
(* rules come in.                                                           *)
THEOREM UntouchedIsRecorded == ASSUME GenerateAssumption PROVE Spec => []UntouchedRecorded
<1>1. ASSUME IInv, Finished, NEW s \in specs, NEW p \in Path, Reaches(s, p), p \notin touched,
             \A e \in errors : AtOrAbove(e, p) => e \notin DOMAIN fs \cup touched
      PROVE  IF Seen(fs, s, p) THEN HasFCOData(db, p) /\ db.data[p] = FcoOf(fs, s, p)
                               ELSE ~HasFCOData(db, p)
  <2>1. s \notin todo /\ walk = <<>> /\ opening = <<>>
    BY <1>1 DEF Finished, Idle
  <2>2. ~Due(s, p)
    BY <2>1 DEF Due, ToCome
  <2>3. Right(s, p)
    BY <1>1, <2>2 DEF IInv, Progress, Status
  <2>4. ~Excused(p)
    BY <1>1 DEF Excused
  <2>5. QED
    BY <2>3, <2>4, <1>1 DEF Right
<1>2. IInv => UntouchedRecorded
  BY <1>1 DEF UntouchedRecorded
<1>3. QED
  BY <1>2, Invariant, PTL

(* When it is finished the database holds nothing that no rule reaches, no  *)
(* array without children and no entry that is there for nothing, though    *)
(* directories were emptied while they were walked.                         *)
THEOREM NothingIsUseless == ASSUME GenerateAssumption PROVE Spec => []NothingUseless
<1>1. ASSUME IInv, Finished
      PROVE  (\A p \in Contents(db) : \E s \in specs : Reaches(s, p)) /\ Tidy(db)
  <2>1. \A p : ~InWalk(p)
    BY <1>1 DEF Finished, Idle, InWalk
  <2>2. QED
    BY <1>1, <2>1 DEF IInv, Shape, Tidy
<1>2. IInv => NothingUseless
  BY <1>1 DEF NothingUseless
<1>3. QED
  BY <1>2, Invariant, PTL

(* The database that is generated, whatever the policy, the file system and *)
(* what becomes of it meanwhile: all that there is, as it is, and no more.  *)
THEOREM GeneratesSnapshot == ASSUME GenerateAssumption PROVE Spec => []GeneratedIsSnapshot
<1>1. UntouchedRecorded /\ NothingUseless => GeneratedIsSnapshot
  BY DEF GeneratedIsSnapshot
<1>2. QED
  BY <1>1, UntouchedIsRecorded, NothingIsUseless, PTL

-----------------------------------------------------------------------------
(* The invariant of an update.                                              *)

(* What an entry that is applied leaves under its name.                     *)
DataOf(e) == IF e.kind = "added" \/ ReplaceProps THEN e.new ELSE AddProps(e.new, was.data[e.path])
Applied(d, e) == IF e.kind = "removed" THEN ~HasFCOData(d, e.path)
                 ELSE HasFCOData(d, e.path) /\ d.data[e.path] = DataOf(e)
Untouched(d, p) == /\ HasFCOData(d, p) <=> HasFCOData(was, p)
                   /\ HasFCOData(d, p) => d.data[p] = was.data[p]

(* An entry is of one rule, and what it brings is an FCO.                   *)
IsEntry(e) == /\ e.path \in Path
              /\ e.kind \in {"added", "removed", "changed"}
              /\ e.kind # "removed" => e.new # NoData
              /\ e.kind = "changed" /\ HasFCOData(was, e.path) =>
                   AddProps(e.new, was.data[e.path]) # NoData

Given == /\ \E policy \in UpdatePolicies : rules = CreateFCOSpecs(policy)
         /\ reported \in UpdateTrees
         /\ \E now \in UpdateTrees : was = DbOf(Snapshot(now, rules))
         /\ \A e \in report : IsEntry(e)
         /\ \A e, f \in report : e.path = f.path => e = f

Done == report \ pending

(* No entry of the database is below all names of objects.                  *)
Within(d) == \A q \in Entries(d) : \E p \in Path : AtOrAbove(q, p)

Outcomes == /\ \A p : (\A e \in Done : e.path = p => ~Fits(e)) => Untouched(updated, p)
            /\ \A e \in Done : Fits(e) => Applied(updated, e)

UpdateInv == /\ Given
        /\ pending \subseteq report
        /\ IsDb(updated) /\ Tidy(updated) /\ Within(updated)
        /\ refused = {e.path : e \in {f \in Done : ~Fits(f)}}
        /\ Outcomes

-----------------------------------------------------------------------------
(* What the report says.                                                    *)

LEMMA ExpectedFacts ==
  ASSUME NEW f, NEW d, NEW s, NEW p, NEW e \in Expected(f, d, s, p)
  PROVE  /\ e.path = p /\ e.kind \in {"added", "removed", "changed"}
         /\ e.kind # "removed" => e.new = FcoOf(f, s, p)
         /\ \A g \in Expected(f, d, s, p) : g = e
<1> DEFINE new == FcoOf(f, s, p)
           old == d.data[p]
           X == {Entry(s, "changed", p, Adjusted(s, old, new), new, CompareFCOs(s, old, new)),
                 Added(s, p, new), Removed(s, p, old)}
<1>1. \A g \in X : g.path = p /\ g.kind \in {"added", "removed", "changed"}
                   /\ (g.kind # "removed" => g.new = new)
  BY DEF Added, Removed, Entry
<1>2. \E g \in X : Expected(f, d, s, p) = {g} \/ Expected(f, d, s, p) = {}
  BY DEF Expected
<1>3. QED
  BY <1>1, <1>2

LEMMA TrimmedFacts ==
  ASSUME NEW ss, NEW ignored, NEW t \in Trimmed(ss, ignored)
  PROVE  \E s \in ss : /\ t = [s EXCEPT !.props = @ \ ignored]
BY DEF Trimmed

LEMMA ReportFacts ==
  ASSUME NEW policy \in UpdatePolicies, rules = CreateFCOSpecs(policy), NEW f \in UpdateTrees,
         NEW d, NEW ignored, NEW now \in UpdateTrees, was = DbOf(Snapshot(now, rules)),
         NEW whole, whole = Difference(f, d, Trimmed(rules, ignored))
  PROVE  /\ \A e \in whole : IsEntry(e)
         /\ \A e, g \in whole : e.path = g.path => e = g
<1>1. PolicyAssumption(policy) /\ DataAssumption(policy) /\ TreeAssumption(f) /\ TreeAssumption(now)
  BY UpdateAssumption
<1>2. Path \subseteq Name \ {<<>>}
  BY FileTreeAssumption DEF Name
<1>3. ASSUME NEW e \in whole
      PROVE  \E s \in rules : \E t : /\ t = [s EXCEPT !.props = @ \ ignored]
                                     /\ e.path \in Path /\ Reaches(t, e.path)
                                     /\ e \in Expected(f, d, t, e.path)
  <2>1. PICK t \in Trimmed(rules, ignored), p \in Path : Reaches(t, p) /\ e \in Expected(f, d, t, p)
    BY DEF Difference
  <2>2. e.path = p
    BY <2>1, ExpectedFacts
  <2>3. PICK s \in rules : t = [s EXCEPT !.props = @ \ ignored]
    BY TrimmedFacts
  <2>4. QED
    BY <2>1, <2>2, <2>3
<1>4. ASSUME NEW s \in rules
      PROVE  LET t == [s EXCEPT !.props = @ \ ignored]
             IN /\ t.start = s.start /\ t.props \subseteq s.props
                /\ \A p : Reaches(t, p) <=> Reaches(s, p)
  <2>1. DOMAIN s = {"start", "depth", "stops", "props"}
    BY DEF CreateFCOSpecs
  <2> DEFINE t == [s EXCEPT !.props = @ \ ignored]
  <2>2. t.start = s.start /\ t.props \subseteq s.props /\ t.depth = s.depth /\ t.stops = s.stops
    BY <2>1
  <2> HIDE DEF t
  <2>3. \A p : Reaches(t, p) <=> Reaches(s, p)
    BY <2>2 DEF Reaches, ShouldStopDescent
  <2>4. QED
    BY <2>2, <2>3 DEF t
<1>5. ASSUME NEW e \in whole
      PROVE  IsEntry(e)
  <2>. PICK s \in rules : \E t : /\ t = [s EXCEPT !.props = @ \ ignored]
                                 /\ e.path \in Path /\ Reaches(t, e.path)
                                 /\ e \in Expected(f, d, t, e.path)
    BY <1>3
  <2>1. PICK t : /\ t = [s EXCEPT !.props = @ \ ignored]
                 /\ e.path \in Path /\ Reaches(t, e.path)
                 /\ e \in Expected(f, d, t, e.path)
    OBVIOUS
  <2>2. t.props \subseteq s.props /\ Reaches(s, e.path)
    BY <1>4, <2>1
  <2>3. e.kind \in {"added", "removed", "changed"} /\ (e.kind # "removed" => e.new = FcoOf(f, t, e.path))
    BY <2>1, ExpectedFacts
  <2>4. \A o \in Object \cup {InvalidObject} :
          /\ CalcProps(o, t.props) \in Fcos(s.props)
          /\ \A w \in Object \cup {InvalidObject} :
               AddProps(CalcProps(o, t.props), CalcProps(w, s.props)) \in Fcos(s.props)
    BY <2>2, FcosFacts
  <2>5. NoData \notin Fcos(s.props)
    BY <1>1 DEF DataAssumption
  <2>6. e.kind # "removed" => e.new # NoData
    BY <1>1, <2>3, <2>4, <2>5, LookedAt DEF FcoOf
  <2>7. ASSUME e.kind = "changed", HasFCOData(was, e.path)
        PROVE  AddProps(e.new, was.data[e.path]) # NoData
    <3>1. e.path \in Name
      BY <1>2, <2>1
    <3>2. was.data[e.path] = FcoOf(now, s, e.path)
      <4>1. PICK r \in rules : Reaches(r, e.path) /\ Seen(now, r, e.path)
        BY <1>1, <2>7, SnapshotFacts
      <4>2. r = s
        BY <1>1, <2>2, <3>1, <4>1, OneRuleReaches
      <4>3. QED
        BY <1>1, <4>1, <4>2, SnapshotFacts
    <3>3. QED
      BY <1>1, <2>3, <2>4, <2>5, <2>7, <3>2, LookedAt DEF FcoOf
  <2>8. QED
    BY <2>1, <2>3, <2>6, <2>7 DEF IsEntry
<1>6. ASSUME NEW e \in whole, NEW g \in whole, e.path = g.path
      PROVE  e = g
  <2>. PICK s \in rules : \E t : /\ t = [s EXCEPT !.props = @ \ ignored]
                                 /\ e.path \in Path /\ Reaches(t, e.path)
                                 /\ e \in Expected(f, d, t, e.path)
    BY <1>3
  <2>1. PICK t : /\ t = [s EXCEPT !.props = @ \ ignored]
                 /\ e.path \in Path /\ Reaches(t, e.path)
                 /\ e \in Expected(f, d, t, e.path)
    OBVIOUS
  <2>. PICK r \in rules : \E u : /\ u = [r EXCEPT !.props = @ \ ignored]
                                 /\ g.path \in Path /\ Reaches(u, g.path)
                                 /\ g \in Expected(f, d, u, g.path)
    BY <1>3
  <2>2. PICK u : /\ u = [r EXCEPT !.props = @ \ ignored]
                 /\ g.path \in Path /\ Reaches(u, g.path)
                 /\ g \in Expected(f, d, u, g.path)
    OBVIOUS
  <2>3. Reaches(s, e.path) /\ Reaches(r, e.path)
    BY <1>4, <1>6, <2>1, <2>2
  <2>4. s = r
    BY <1>1, <1>2, <2>1, <2>3, OneRuleReaches
  <2>5. QED
    BY <1>6, <2>1, <2>2, <2>4, ExpectedFacts
<1>7. QED
  BY <1>5, <1>6

LEMMA UpdateInitEstablishes == UpdateInit => UpdateInv
<1> SUFFICES ASSUME UpdateInit
             PROVE  UpdateInv
  OBVIOUS
<1>1. PICK policy \in UpdatePolicies : rules = CreateFCOSpecs(policy)
  BY DEF UpdateInit
<1>2. PICK before \in UpdateTrees, ignored \in Ignorable :
        report \in SUBSET Difference(reported, DbOf(Snapshot(before, rules)), Trimmed(rules, ignored))
  BY DEF UpdateInit
<1>3. PICK now \in UpdateTrees : was = DbOf(Snapshot(now, rules))
  BY DEF UpdateInit
<1>4. reported \in UpdateTrees /\ updated = was /\ pending = report /\ refused = {}
  BY DEF UpdateInit
<1>5. PolicyAssumption(policy) /\ DataAssumption(policy) /\ TreeAssumption(now)
  BY UpdateAssumption
<1>6. IsDb(was) /\ Tidy(was) /\ Entries(was) \subseteq Path
  BY <1>1, <1>3, <1>5, SnapshotFacts
<1>7. Given
  BY <1>1, <1>2, <1>3, <1>4, ReportFacts DEF Given
<1>8. Done = {}
  BY <1>4 DEF Done
<1>9. Path \subseteq Name
  BY FileTreeAssumption DEF Name
<1>10. Within(updated)
  BY <1>4, <1>6, <1>9, AtOrAboveOrder DEF Within
<1>11. QED
  BY <1>4, <1>6, <1>7, <1>8, <1>10 DEF UpdateInv, Outcomes, Untouched

-----------------------------------------------------------------------------
(* The steps.                                                               *)

(* The entry that is taken is judged as by the database before the update.  *)
LEMMA TakenFirst ==
  ASSUME UpdateInv, NEW e \in pending
  PROVE  e \in report /\ IsEntry(e) /\ Untouched(updated, e.path)
<1>1. e \in report /\ IsEntry(e) /\ e \notin Done
  BY DEF UpdateInv, Given, Done
<1>2. \A f \in Done : f.path # e.path
  BY <1>1 DEF UpdateInv, Given, Done
<1>3. QED
  BY <1>1, <1>2 DEF UpdateInv, Outcomes

GivenStays == rules' = rules /\ reported' = reported /\ was' = was /\ report' = report

LEMMA GivenAfter ==
  ASSUME UpdateInv, GivenStays, NEW e \in pending, pending' = pending \ {e}
  PROVE  /\ Given' /\ pending' \subseteq report' /\ Done' = Done \cup {e}
         /\ \A f : Fits(f)' <=> Fits(f)
         /\ \A f, d : Applied(d, f)' <=> Applied(d, f)
         /\ \A p, d : Untouched(d, p)' <=> Untouched(d, p)
<1>1. Given' /\ pending' \subseteq report'
  BY DEF UpdateInv, Given, GivenStays, IsEntry
<1>2. Done' = Done \cup {e}
  BY DEF UpdateInv, Done, GivenStays
<1>3. \A f : Fits(f)' <=> Fits(f)
  BY DEF Fits, GivenStays
<1>4. /\ \A f, d : Applied(d, f)' <=> Applied(d, f)
      /\ \A p, d : Untouched(d, p)' <=> Untouched(d, p)
  BY DEF Applied, Untouched, DataOf, GivenStays
<1>5. QED
  BY <1>1, <1>2, <1>3, <1>4

LEMMA RefusedKeeps ==
  ASSUME UpdateInv, GivenStays, NEW e \in pending, pending' = pending \ {e}, ~Fits(e), Refuse(e)
  PROVE  UpdateInv'
<1>1. updated' = updated /\ refused' = refused \cup {e.path}
  BY DEF Refuse
<1>2. Given' /\ pending' \subseteq report' /\ Done' = Done \cup {e}
  BY GivenAfter
<1>3. refused' = {f.path : f \in {g \in Done : ~Fits(g)} \cup {e}}
  BY <1>1 DEF UpdateInv
<1>4. {g \in Done' : ~Fits(g)'} = {g \in Done : ~Fits(g)} \cup {e}
  BY <1>2, GivenAfter
<1>5. refused' = {f.path : f \in {g \in Done : ~Fits(g)}}'
  BY <1>3, <1>4
<1>6. (\A p : (\A f \in Done : f.path = p => ~Fits(f)) => Untouched(updated, p))'
  BY <1>1, <1>2, GivenAfter DEF UpdateInv, Outcomes
<1>7. (\A f \in Done : Fits(f) => Applied(updated, f))'
  BY <1>1, <1>2, GivenAfter DEF UpdateInv, Outcomes
<1>8. QED
  BY <1>1, <1>2, <1>5, <1>6, <1>7 DEF UpdateInv, Outcomes, Within

LEMMA AppliedKeeps ==
  ASSUME UpdateInv, GivenStays, NEW e \in pending, pending' = pending \ {e}, Fits(e),
         NEW d, Apply(d), IsDb(d), Tidy(d), Within(d), SameBut(updated, d, e.path), Applied(d, e)
  PROVE  UpdateInv'
<1>1. updated' = d /\ refused' = refused
  BY DEF Apply
<1>2. Given' /\ pending' \subseteq report' /\ Done' = Done \cup {e}
  BY GivenAfter
<1>3. {g \in Done' : ~Fits(g)'} = {g \in Done : ~Fits(g)}
  BY <1>2, GivenAfter
<1>4. refused' = {f.path : f \in {g \in Done : ~Fits(g)}}'
  BY <1>1, <1>3 DEF UpdateInv
<1>5. \A f \in Done : f.path # e.path
  BY DEF UpdateInv, Given, Done
<1>6. ASSUME NEW p, \A f \in Done' : f.path = p => ~Fits(f)'
      PROVE  Untouched(d, p)'
  <2>1. p # e.path /\ \A f \in Done : f.path = p => ~Fits(f)
    BY <1>2, <1>6, GivenAfter
  <2>2. Untouched(updated, p)
    BY <2>1 DEF UpdateInv, Outcomes
  <2>3. Untouched(d, p)
    BY <2>1, <2>2 DEF SameBut, Untouched
  <2>4. QED
    BY <2>3, GivenAfter
<1>7. ASSUME NEW f \in Done', Fits(f)'
      PROVE  Applied(d, f)'
  <2>1. CASE f = e
    BY <2>1, GivenAfter
  <2>2. CASE f # e
    <3>1. f \in Done /\ Fits(f) /\ f.path # e.path
      BY <1>2, <1>5, <1>7, <2>2, GivenAfter
    <3>2. Applied(updated, f)
      BY <3>1 DEF UpdateInv, Outcomes
    <3>3. Applied(d, f)
      BY <3>1, <3>2 DEF SameBut, Applied
    <3>4. QED
      BY <3>3, GivenAfter
  <2>3. QED
    BY <2>1, <2>2
<1>8. (\A p : (\A f \in Done : f.path = p => ~Fits(f)) => Untouched(updated, p))'
  BY <1>1, <1>6
<1>9. (\A f \in Done : Fits(f) => Applied(updated, f))'
  BY <1>1, <1>7
<1>10. (IsDb(updated) /\ Tidy(updated) /\ Within(updated))'
  BY <1>1 DEF Within
<1>11. QED
  BY <1>2, <1>4, <1>8, <1>9, <1>10 DEF UpdateInv, Outcomes

(* Each step, under the database as it was for the name of its entry.       *)
LEMMA AddKeeps ==
  ASSUME UpdateInv, GivenStays, NEW e \in pending, AddFCOOf(e)
  PROVE  UpdateInv'
<1>1. pending' = pending \ {e} /\ e.kind = "added"
  BY DEF AddFCOOf, Take
<1>2. IsEntry(e) /\ Untouched(updated, e.path) /\ IsDb(updated) /\ Tidy(updated) /\ Within(updated)
  BY TakenFirst DEF UpdateInv
<1>3. Fits(e) <=> ~HasFCOData(updated, e.path)
  BY <1>1, <1>2 DEF Fits, Untouched
<1>4. CASE HasFCOData(updated, e.path)
  BY <1>1, <1>3, <1>4, RefusedKeeps DEF AddFCOOf
<1>5. CASE ~HasFCOData(updated, e.path)
  <2> DEFINE d == SetFCOData(CreatePath(updated, e.path), e.path, e.new)
  <2>1. e.path \in Name /\ e.path # <<>> /\ e.new # NoData /\ e.path \in Path
    BY <1>1, <1>2, FileTreeAssumption DEF IsEntry, Name
  <2>2. /\ IsDb(d) /\ Entries(d) = Entries(updated) \cup PathsTo(e.path)
        /\ HasFCOData(d, e.path) /\ d.data[e.path] = e.new /\ SameBut(updated, d, e.path)
    BY <1>2, <2>1, CreateAndSet
  <2>3. Tidy(d)
    BY <1>2, <2>1, CreateTidy
  <2>4. Apply(d)
    BY <1>5 DEF AddFCOOf
  <2> HIDE DEF d
  <2>5. Within(d)
    BY <1>2, <2>1, <2>2, PrefixSets DEF Within
  <2>6. Applied(d, e)
    BY <1>1, <2>2 DEF Applied, DataOf
  <2>7. QED
    BY <1>1, <1>3, <1>5, <2>2, <2>3, <2>4, <2>5, <2>6, AppliedKeeps
<1>6. QED
  BY <1>4, <1>5

LEMMA RemoveKeeps ==
  ASSUME UpdateInv, GivenStays, NEW e \in pending, RemoveFCOOf(e)
  PROVE  UpdateInv'
<1>1. pending' = pending \ {e} /\ e.kind = "removed"
  BY DEF RemoveFCOOf, Take
<1>2. Untouched(updated, e.path) /\ IsDb(updated) /\ Tidy(updated) /\ Within(updated)
  BY TakenFirst DEF UpdateInv
<1>3. Fits(e) <=> HasFCOData(updated, e.path)
  BY <1>1, <1>2 DEF Fits, Untouched
<1>4. CASE ~HasFCOData(updated, e.path)
  BY <1>1, <1>3, <1>4, RefusedKeeps DEF RemoveFCOOf
<1>5. CASE HasFCOData(updated, e.path)
  <2> DEFINE d == RemoveFCOFromDb(updated, e.path)
  <2>1. /\ IsDb(d) /\ ~HasFCOData(d, e.path) /\ SameBut(updated, d, e.path)
        /\ Entries(d) \subseteq Entries(updated) /\ Tidy(d)
    BY <1>2, <1>5, RemovedFromDb
  <2>2. Apply(d)
    BY <1>5 DEF RemoveFCOOf
  <2> HIDE DEF d
  <2>3. Within(d) /\ Applied(d, e)
    BY <1>1, <1>2, <2>1 DEF Within, Applied
  <2>4. QED
    BY <1>1, <1>3, <1>5, <2>1, <2>2, <2>3, AppliedKeeps
<1>6. QED
  BY <1>4, <1>5

LEMMA ChangeKeeps ==
  ASSUME UpdateInv, GivenStays, NEW e \in pending, ChangeFCOOf(e)
  PROVE  UpdateInv'
<1> DEFINE Alike == HasFCOData(updated, e.path) /\ Differing(e.old, updated.data[e.path], DOMAIN e.old) = {}
<1>1. pending' = pending \ {e} /\ e.kind = "changed"
  BY DEF ChangeFCOOf, Take
<1>2. IsEntry(e) /\ Untouched(updated, e.path) /\ IsDb(updated) /\ Tidy(updated) /\ Within(updated)
  BY TakenFirst DEF UpdateInv
<1>3. Fits(e) <=> Alike
  BY <1>1, <1>2 DEF Fits, Untouched, Differing
<1>4. CASE ~Alike
  BY <1>1, <1>3, <1>4, RefusedKeeps DEF ChangeFCOOf
<1>5. CASE Alike
  <2> DEFINE d == SetFCOData(updated, e.path, NewData(e))
  <2>1. e.path \in Entries(updated) /\ HasFCOData(was, e.path) /\ was.data[e.path] = updated.data[e.path]
    BY <1>2, <1>5 DEF HasFCOData, Untouched
  <2>2. NewData(e) = DataOf(e) /\ NewData(e) # NoData
    BY <1>1, <1>2, <2>1 DEF NewData, DataOf, IsEntry
  <2>3. /\ IsDb(d) /\ Entries(d) = Entries(updated) /\ d.data[e.path] = NewData(e)
        /\ HasFCOData(d, e.path) /\ SameBut(updated, d, e.path)
    BY <1>2, <2>1, <2>2, SetOver
  <2>4. Tidy(d)
    BY <1>2, <2>1, <2>2, SetTidy
  <2>5. Apply(d)
    BY <1>5 DEF ChangeFCOOf
  <2> HIDE DEF d
  <2>6. Within(d) /\ Applied(d, e)
    BY <1>1, <1>2, <2>2, <2>3 DEF Within, Applied
  <2>7. QED
    BY <1>1, <1>3, <1>5, <2>3, <2>4, <2>5, <2>6, AppliedKeeps
<1>6. QED
  BY <1>4, <1>5

LEMMA UpdateNextKeeps == UpdateInv /\ [UpdateNext]_updateVars => UpdateInv'
<1> SUFFICES ASSUME UpdateInv, [UpdateNext]_updateVars
             PROVE  UpdateInv'
  OBVIOUS
<1>1. CASE UpdateNext
  <2>1. GivenStays
    BY <1>1 DEF UpdateNext, GivenStays
  <2>2. PICK e \in pending : AddFCOOf(e) \/ RemoveFCOOf(e) \/ ChangeFCOOf(e)
    BY <1>1 DEF UpdateNext, UpdateStep
  <2>3. QED
    BY <2>1, <2>2, AddKeeps, RemoveKeeps, ChangeKeeps
<1>2. CASE UNCHANGED updateVars
  <2>1. /\ rules' = rules /\ reported' = reported /\ was' = was /\ report' = report
        /\ updated' = updated /\ pending' = pending /\ refused' = refused
    BY <1>2 DEF updateVars, ownVars
  <2>2. Given'
    BY <2>1 DEF UpdateInv, Given, IsEntry
  <2>3. Outcomes'
    BY <2>1 DEF UpdateInv, Outcomes, Done, Fits, Applied, DataOf, Untouched
  <2>4. QED
    BY <2>1, <2>2, <2>3 DEF UpdateInv, Done, Fits, Within
<1>3. QED
  BY <1>1, <1>2

(* What is held at every moment of an update.                               *)
THEOREM UpdateInvariant == UpdateSpec => []UpdateInv
BY UpdateInitEstablishes, UpdateNextKeeps, PTL DEF UpdateSpec

(* An update never leaves an entry that hangs from nothing, and it refuses  *)
(* names of the report only.                                                *)
LEMMA UpdateInvTypeOK == UpdateInv => UpdateTypeOK
BY DEF UpdateInv, IsDb, UpdateTypeOK, Done

THEOREM UpdateTypeCorrect == UpdateSpec => []UpdateTypeOK
BY UpdateInvariant, UpdateInvTypeOK, PTL

-----------------------------------------------------------------------------
(* What fits is applied and nothing else is.                                *)

LEMMA UpdateInvApplied == UpdateInv => FitsAppliedOthersRefused
<1> SUFFICES ASSUME UpdateInv, UpdateFinished
             PROVE  /\ refused = {e.path : e \in {f \in report : ~Fits(f)}}
                    /\ \A p \in Path :
                         LET applied == {e \in report : e.path = p /\ Fits(e)}
                         IN IF applied = {}
                            THEN /\ HasFCOData(updated, p) = HasFCOData(was, p)
                                 /\ HasFCOData(was, p) => updated.data[p] = was.data[p]
                            ELSE \A e \in applied :
                                   IF e.kind = "removed" THEN ~HasFCOData(updated, p)
                                   ELSE /\ HasFCOData(updated, p)
                                        /\ \A x \in DOMAIN e.new : updated.data[p][x] = e.new[x]
                                        /\ ~ReplaceProps /\ e.kind = "changed" =>
                                             DOMAIN updated.data[p] = DOMAIN e.new \cup DOMAIN was.data[p]
  BY DEF FitsAppliedOthersRefused
<1>1. Done = report
  BY DEF Done, UpdateFinished
<1>2. refused = {e.path : e \in {f \in report : ~Fits(f)}}
  BY <1>1 DEF UpdateInv
<1>3. ASSUME NEW p \in Path, \A e \in report : ~(e.path = p /\ Fits(e))
      PROVE  /\ HasFCOData(updated, p) = HasFCOData(was, p)
             /\ HasFCOData(was, p) => updated.data[p] = was.data[p]
  <2>1. Untouched(updated, p)
    BY <1>1, <1>3 DEF UpdateInv, Outcomes
  <2>2. QED
    BY <2>1 DEF Untouched, HasFCOData
<1>4. ASSUME NEW e \in report, Fits(e)
      PROVE  IF e.kind = "removed" THEN ~HasFCOData(updated, e.path)
             ELSE /\ HasFCOData(updated, e.path)
                  /\ \A x \in DOMAIN e.new : updated.data[e.path][x] = e.new[x]
                  /\ ~ReplaceProps /\ e.kind = "changed" =>
                       DOMAIN updated.data[e.path] = DOMAIN e.new \cup DOMAIN was.data[e.path]
  <2>1. Applied(updated, e)
    BY <1>1, <1>4 DEF UpdateInv, Outcomes
  <2>2. QED
    BY <2>1 DEF Applied, DataOf, AddProps
<1>5. QED
  BY <1>2, <1>3, <1>4

(* An update that is through has applied every entry that fits, whatever    *)
(* the order of the others, refused every other, and kept what the report   *)
(* does not speak of (cUpdateDb::Execute).                                  *)
THEOREM AppliesWhatFits == UpdateSpec => []EntriesApplied
<1>1. UpdateInv => EntriesApplied
  BY UpdateInvTypeOK, UpdateInvApplied DEF EntriesApplied
<1>2. QED
  BY <1>1, UpdateInvariant, PTL

-----------------------------------------------------------------------------
(* A check and an update from all it found, against a new generation.       *)

(* What is valid of an object depends on where it is, not on what it is.    *)
LEMMA PropsOfFco ==
  ASSUME NEW f, TreeAssumption(f), NEW p \in DOMAIN f, NEW s
  PROVE  DOMAIN FcoOf(f, s, p) = IF Crosses(s, p) THEN {"type"} ELSE s.props
<1>1. f[p] \in Object
  BY DEF TreeAssumption
<1>2. \A o \in Object : o # InvalidObject
  BY DEF Object, InvalidObject
<1>3. QED
  BY <1>1, <1>2 DEF FcoOf, CalcProps, InitializeTypeInfo

(* FCOs with the same properties that do not differ are the same, and each  *)
(* stays as it is where it would be adjusted or completed to the other.     *)
LEMMA LikeFcos ==
  ASSUME NEW s, NEW old, NEW new, DOMAIN old = DOMAIN new, DOMAIN new \subseteq s.props,
         old = [x \in DOMAIN old |-> old[x]], new = [x \in DOMAIN new |-> new[x]],
         "LOOSE_DIR" \notin Flags
  PROVE  /\ CompareFCOs(s, old, new) = {} => old = new
         /\ Adjusted(s, old, new) = old
         /\ AddProps(new, old) = new
<1>1. PropsToCheck(s, old, new) = DOMAIN new
  BY DEF PropsToCheck
<1>2. CompareFCOs(s, old, new) = {} => \A x \in DOMAIN new : old[x] = new[x]
  BY <1>1 DEF CompareFCOs, Differing
<1>3. CompareFCOs(s, old, new) = {} => old = new
  BY <1>2
<1>4. KeepProps(old, s.props) = old
  BY DEF KeepProps
<1>5. AddProps(old, new) = old /\ AddProps(new, old) = new
  BY DEF AddProps
<1>6. QED
  BY <1>3, <1>4, <1>5 DEF Adjusted

(* Names of objects are of a bounded length.                                *)
LEMMA PathsBounded == \E N \in Nat : \A p \in Path : Len(p) <= N
<1>1. Path \subseteq Name /\ IsFiniteSet(Path)
  BY FileTreeAssumption DEF Name
<1>2. CASE Path = {}
  BY <1>2
<1>3. CASE Path # {}
  <2> DEFINE lens == {Len(p) : p \in Path}
             len  == [p \in Path |-> Len(p)]
  <2>1. len \in Surjection(Path, lens)
    BY DEF Surjection
  <2>2. IsFiniteSet(lens)
    BY <1>1, <2>1, FS_Surjection
  <2>3. lens \in SUBSET Int /\ lens # {} /\ lens \subseteq Nat
    <3>1. \A p \in Path : Len(p) \in Nat
      BY <1>1, NameFacts
    <3>2. lens \subseteq Nat
      BY <3>1
    <3>3. lens # {}
      BY <1>3
    <3>4. QED
      BY <3>2, <3>3
  <2>4. \E m \in lens : \A k \in lens : k <= m
    <3> HIDE DEF lens
    <3>1. QED
      BY <2>2, <2>3, GreatestOfFinite
  <2>5. QED
    BY <2>3, <2>4
<1>4. QED
  BY <1>2, <1>3

(* What a whole report says of a name that a rule reaches.                  *)
LEMMA WholeReportAt ==
  ASSUME Given, report = Difference(reported, was, rules), NEW s \in rules, NEW p \in Path, Reaches(s, p)
  PROVE  \A e \in report : e.path = p <=> e \in Expected(reported, was, s, p)
<1>1. PICK policy \in UpdatePolicies : rules = CreateFCOSpecs(policy)
  BY DEF Given
<1>2. PolicyAssumption(policy) /\ p \in Name
  BY UpdateAssumption, FileTreeAssumption DEF Name
<1>3. ASSUME NEW e \in report, e.path = p
      PROVE  e \in Expected(reported, was, s, p)
  <2>1. PICK r \in rules, q \in Path : Reaches(r, q) /\ e \in Expected(reported, was, r, q)
    BY DEF Difference
  <2>2. q = p
    BY <1>3, <2>1, ExpectedFacts
  <2>3. r = s
    BY <1>1, <1>2, <2>1, <2>2, OneRuleReaches
  <2>4. QED
    BY <2>1, <2>2, <2>3
<1>4. QED
  BY <1>3, ExpectedFacts

(* What an update from it leaves under the name.                            *)
LEMMA WholeReportDone ==
  ASSUME UpdateInv, UpdateFinished, report = Difference(reported, was, rules), "LOOSE_DIR" \notin Flags,
         NEW s \in rules, NEW p \in Path, Reaches(s, p)
  PROVE  /\ \A e \in report : e.path = p => Fits(e)
         /\ HasFCOData(updated, p) <=> Seen(reported, s, p)
         /\ Seen(reported, s, p) => updated.data[p] = FcoOf(reported, s, p)
<1>1. Given /\ Done = report
  BY DEF UpdateInv, Done, UpdateFinished
<1>2. PICK policy \in UpdatePolicies : rules = CreateFCOSpecs(policy)
  BY <1>1 DEF Given
<1>3. PICK now \in UpdateTrees : was = DbOf(Snapshot(now, rules))
  BY <1>1 DEF Given
<1>4. /\ PolicyAssumption(policy) /\ DataAssumption(policy) /\ TreeAssumption(reported) /\ TreeAssumption(now)
      /\ p \in Name
  BY <1>1, UpdateAssumption, FileTreeAssumption DEF Given, Name
<1> DEFINE old == was.data[p]
           new == FcoOf(reported, s, p)
<1>5. \A e \in report : e.path = p <=> e \in Expected(reported, was, s, p)
  BY <1>1, WholeReportAt
<1>6. \A e \in Expected(reported, was, s, p) : e \in report
  BY DEF Difference
<1>7. HasFCOData(was, p) <=> Seen(now, s, p)
  <2>1. ASSUME HasFCOData(was, p)
        PROVE  Seen(now, s, p)
    <3>1. PICK r \in rules : Reaches(r, p) /\ Seen(now, r, p)
      BY <1>2, <1>3, <1>4, <2>1, SnapshotFacts
    <3>2. r = s
      BY <1>2, <1>4, <3>1, OneRuleReaches
    <3>3. QED
      BY <3>1, <3>2
  <2>2. ASSUME Seen(now, s, p)
        PROVE  HasFCOData(was, p)
    <3>1. p \in DOMAIN now
      BY <2>2 DEF Seen
    <3>2. QED
      BY <1>2, <1>3, <1>4, <2>2, <3>1, SnapshotFacts
  <2>3. QED
    BY <2>1, <2>2
<1>8. Seen(now, s, p) => old = FcoOf(now, s, p)
  BY <1>2, <1>3, <1>4, SnapshotFacts
<1>9. ASSUME Seen(reported, s, p), HasFCOData(was, p)
      PROVE  /\ CompareFCOs(s, old, new) = {} => old = new
             /\ Adjusted(s, old, new) = old
             /\ AddProps(new, old) = new
  <2>1. p \in DOMAIN reported /\ p \in DOMAIN now /\ old = FcoOf(now, s, p)
    BY <1>7, <1>8, <1>9 DEF Seen
  <2>2. DOMAIN old = DOMAIN new /\ DOMAIN new \subseteq s.props
    <3>1. /\ DOMAIN FcoOf(now, s, p) = IF Crosses(s, p) THEN {"type"} ELSE s.props
          /\ DOMAIN FcoOf(reported, s, p) = IF Crosses(s, p) THEN {"type"} ELSE s.props
      BY <1>4, <2>1, PropsOfFco
    <3>2. "type" \in s.props
      BY <1>2, <1>4, RuleFacts
    <3>3. QED
      BY <3>1, <3>2, <2>1
  <2>3. old = [x \in DOMAIN old |-> old[x]] /\ new = [x \in DOMAIN new |-> new[x]]
    BY <2>1 DEF FcoOf, CalcProps
  <2> HIDE DEF old, new
  <2>4. QED
    BY <2>2, <2>3, LikeFcos
<1>10. CASE Expected(reported, was, s, p) = {}
  <2>1. Untouched(updated, p) /\ \A e \in report : e.path # p
    BY <1>1, <1>5, <1>10 DEF UpdateInv, Outcomes
  <2>2. Seen(reported, s, p) <=> HasFCOData(was, p)
    BY <1>10 DEF Expected
  <2>3. Seen(reported, s, p) => CompareFCOs(s, old, new) = {}
    BY <1>10, <2>2 DEF Expected
  <2>4. QED
    BY <1>9, <2>1, <2>2, <2>3 DEF Untouched
<1>11. CASE Expected(reported, was, s, p) # {}
  <2>1. PICK e : e \in Expected(reported, was, s, p)
    BY <1>11
  <2>2. e \in report /\ e.path = p /\ \A g \in report : g.path = p => g = e
    BY <1>5, <1>6, <2>1, ExpectedFacts
  <2>3. \/ ~Seen(reported, s, p) /\ HasFCOData(was, p) /\ e = Removed(s, p, old)
        \/ Seen(reported, s, p) /\ ~HasFCOData(was, p) /\ e = Added(s, p, new)
        \/ /\ Seen(reported, s, p) /\ HasFCOData(was, p)
           /\ e = Entry(s, "changed", p, Adjusted(s, old, new), new, CompareFCOs(s, old, new))
    BY <2>1 DEF Expected
  <2>4. Fits(e) => Applied(updated, e)
    BY <1>1, <2>2 DEF UpdateInv, Outcomes
  <2>5. CASE ~Seen(reported, s, p) /\ HasFCOData(was, p) /\ e = Removed(s, p, old)
    <3>1. e.kind = "removed"
      BY <2>5 DEF Removed, Entry
    <3>2. Fits(e)
      BY <3>1, <2>2, <2>5 DEF Fits
    <3>3. QED
      BY <3>1, <3>2, <2>2, <2>4, <2>5 DEF Applied
  <2>6. CASE Seen(reported, s, p) /\ ~HasFCOData(was, p) /\ e = Added(s, p, new)
    <3>1. e.kind = "added" /\ e.new = new
      BY <2>6 DEF Added, Entry
    <3>2. Fits(e)
      BY <3>1, <2>2, <2>6 DEF Fits
    <3>3. QED
      BY <3>1, <3>2, <2>2, <2>4, <2>6 DEF Applied, DataOf
  <2>7. CASE /\ Seen(reported, s, p) /\ HasFCOData(was, p)
             /\ e = Entry(s, "changed", p, Adjusted(s, old, new), new, CompareFCOs(s, old, new))
    <3>1. e.kind = "changed" /\ e.new = new /\ e.old = old
      BY <1>9, <2>7 DEF Entry
    <3>2. Fits(e)
      BY <3>1, <2>2, <2>7 DEF Fits
    <3>3. DataOf(e) = new
      BY <3>1, <1>9, <2>2, <2>7 DEF DataOf
    <3>4. QED
      BY <3>1, <3>2, <3>3, <2>2, <2>4, <2>7 DEF Applied
  <2>8. QED
    BY <2>3, <2>5, <2>6, <2>7
<1>12. QED
  BY <1>10, <1>11

LEMMA UpdateInvGenerate == "LOOSE_DIR" \notin Flags /\ UpdateInv => UpdateIsGenerate
<1> SUFFICES ASSUME UpdateInv, UpdateFinished, report = Difference(reported, was, rules), "LOOSE_DIR" \notin Flags
             PROVE  updated = DbOf(Snapshot(reported, rules)) /\ refused = {}
  BY DEF UpdateIsGenerate
<1> DEFINE d == DbOf(Snapshot(reported, rules))
           Reached(p) == p \in Path /\ \E s \in rules : Reaches(s, p)
<1>1. Given /\ Done = report
  BY DEF UpdateInv, Done, UpdateFinished
<1>2. PICK policy \in UpdatePolicies, now \in UpdateTrees :
        rules = CreateFCOSpecs(policy) /\ was = DbOf(Snapshot(now, rules))
  BY <1>1 DEF Given
<1>3. /\ PolicyAssumption(policy) /\ DataAssumption(policy) /\ TreeAssumption(reported) /\ TreeAssumption(now)
      /\ Path \subseteq Name
  BY <1>1, UpdateAssumption, FileTreeAssumption DEF Given, Name
<1>4. /\ IsDb(d) /\ Tidy(d) /\ Entries(d) \subseteq Path
      /\ \A p : HasFCOData(d, p) <=> /\ p \in DOMAIN reported
                                     /\ \E s \in rules : Reaches(s, p) /\ Seen(reported, s, p)
      /\ \A s \in rules : \A p : Reaches(s, p) /\ Seen(reported, s, p) => d.data[p] = FcoOf(reported, s, p)
  BY <1>2, <1>3, SnapshotFacts
<1> HIDE DEF d
<1>5. \A e \in report : Reached(e.path)
  <2>1. ASSUME NEW e \in report
        PROVE  Reached(e.path)
    <3>1. PICK s \in rules, p \in Path : Reaches(s, p) /\ e \in Expected(reported, was, s, p)
      BY DEF Difference
    <3>2. e.path = p
      BY <3>1, ExpectedFacts
    <3>3. QED
      BY <3>1, <3>2
  <2>2. QED
    BY <2>1
<1>6. \A e \in report : Fits(e)
  BY <1>5, WholeReportDone
<1>7. refused = {}
  BY <1>1, <1>6 DEF UpdateInv
<1>8. ASSUME NEW p
      PROVE  /\ HasFCOData(updated, p) <=> HasFCOData(d, p)
             /\ HasFCOData(updated, p) => updated.data[p] = d.data[p]
  <2>1. CASE Reached(p)
    <3>1. PICK s \in rules : Reaches(s, p)
      BY <2>1
    <3>2. /\ HasFCOData(updated, p) <=> Seen(reported, s, p)
          /\ Seen(reported, s, p) => updated.data[p] = FcoOf(reported, s, p)
      BY <2>1, <3>1, WholeReportDone
    <3>3. \A r \in rules : Reaches(r, p) => r = s
      BY <1>2, <1>3, <2>1, <3>1, OneRuleReaches
    <3>4. HasFCOData(d, p) <=> Seen(reported, s, p)
      BY <1>4, <3>1, <3>3 DEF Seen
    <3>5. QED
      BY <1>4, <3>1, <3>2, <3>4
  <2>2. CASE ~Reached(p)
    <3>1. Untouched(updated, p)
      BY <1>1, <1>5, <2>2 DEF UpdateInv, Outcomes
    <3>2. ~HasFCOData(d, p)
      BY <1>3, <1>4, <2>2 DEF TreeAssumption
    <3>3. ~HasFCOData(was, p)
      <4>1. HasFCOData(was, p) => p \in DOMAIN now /\ \E s \in rules : Reaches(s, p)
        BY <1>2, <1>3, SnapshotFacts
      <4>2. QED
        BY <4>1, <1>3, <2>2 DEF TreeAssumption
    <3>4. QED
      BY <3>1, <3>2, <3>3 DEF Untouched
  <2>3. QED
    BY <2>1, <2>2
<1>9. PICK N \in Nat : \A p \in Path : Len(p) <= N
  BY PathsBounded
<1>10. IsDb(updated) /\ Tidy(updated) /\ Within(updated)
  BY DEF UpdateInv
<1>11. \A q \in Entries(updated) \cup Entries(d) : Len(q) <= N
  <2>1. ASSUME NEW q \in Entries(updated)
        PROVE  Len(q) <= N
    <3>1. PICK p \in Path : AtOrAbove(q, p)
      BY <1>10 DEF Within
    <3>2. q \in Name /\ p \in Name
      BY <1>3, <1>10 DEF IsDb
    <3>3. Len(q) <= Len(p) /\ Len(p) <= N /\ Len(q) \in Nat /\ Len(p) \in Nat
      BY <1>9, <3>1, <3>2, AboveFacts, NameFacts
    <3>4. QED
      BY <3>3
  <2>2. QED
    BY <1>4, <1>9, <2>1
<1>12. updated = d
  BY <1>4, <1>8, <1>9, <1>10, <1>11, SameTidy DEF Same
<1>13. QED
  BY <1>7, <1>12 DEF d

(* An integrity check and an update from its whole report make the database *)
(* that would be generated anew, array by array and entry by entry, unless  *)
(* the check is told not to compare all of a directory.                     *)
THEOREM UpdatesAsGenerated ==
  ASSUME "LOOSE_DIR" \notin Flags
  PROVE  UpdateSpec => []UpdateIsGenerate
<1>1. UpdateInv => UpdateIsGenerate
  BY UpdateInvGenerate
<1>2. QED
  BY <1>1, UpdateInvariant, PTL
=============================================================================
