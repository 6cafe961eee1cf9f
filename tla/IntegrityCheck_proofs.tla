------------------------ MODULE IntegrityCheck_proofs ------------------------
(* A check reports of what nothing happened to how it differs, nothing      *)
(* twice, and nothing that could not be looked at without an error, for any *)
(* file system, any policy and any flags.  The invariant follows the walk:  *)
(* what of a rule is still to come on either side, and of the rest, that it *)
(* is reported right.                                                       *)
(* An update of the policy, in the second part, leaves the database as the  *)
(* new policy would have made it, wherever nothing happened meanwhile, and  *)
(* refuses nothing of the report of its own check.  Its invariant takes up  *)
(* that of the check where it ends: an entry that is still to be applied is *)
(* about the database as it is, and what no such entry is about is already  *)
(* as it should be.                                                         *)
EXTENDS PolicyUpdate, FcoDatabase_proofs

-----------------------------------------------------------------------------
(* The walk.                                                                *)

Frame   == [dir : Name, old : Seq(Int), new : Seq(Int)]
Opening == [dir : Name, old : BOOLEAN, new : BOOLEAN]

(* The walk will come to p, or to where it would be, on this side.          *)
OldToCome(w, o, p) == \/ \E i \in DOMAIN w : DueIn(w[i].dir, w[i].old, p)
                      \/ \E i \in DOMAIN o : o[i].old /\ Above(o[i].dir, p)
NewToCome(w, o, p) == \/ \E i \in DOMAIN w : DueIn(w[i].dir, w[i].new, p)
                      \/ \E i \in DOMAIN o : o[i].new /\ Above(o[i].dir, p)

(* A directory inside another is at a name of it that was passed.           *)
Outside(frame, p) == /\ Above(frame.dir, p)
                     /\ ~DueIn(frame.dir, frame.old, p) /\ ~DueIn(frame.dir, frame.new, p)
Nested(w, o) == /\ \A i, j \in DOMAIN w : i < j => Outside(w[i], w[j].dir)
                /\ \A i \in DOMAIN w, j \in DOMAIN o : Outside(w[i], o[j].dir)

(* What is below a directory inside another is not due in the other.        *)
LEMMA OutsideBelow ==
  ASSUME NEW frame \in Frame, NEW d \in Name, Outside(frame, d),
         NEW p \in Name, AtOrAbove(d, p)
  PROVE  ~DueIn(frame.dir, frame.old, p) /\ ~DueIn(frame.dir, frame.new, p)
<1>1. frame.dir \in Name
  BY DEF Frame
<1>2. ASSUME NEW n \in Int, AtOrAbove(Append(frame.dir, n), p)
      PROVE  AtOrAbove(Append(frame.dir, n), d)
  <2>1. /\ Append(frame.dir, n) \in Name
        /\ Len(Append(frame.dir, n)) = Len(frame.dir) + 1
    BY <1>1, ChildFacts
  <2>2. Len(frame.dir) < Len(d) /\ Len(frame.dir) \in Nat /\ Len(d) \in Nat
    BY <1>1, NameFacts, AboveFacts DEF Outside
  <2>3. Len(Append(frame.dir, n)) <= Len(d)
    BY <2>1, <2>2
  <2>4. QED
    BY <1>2, <2>1, <2>3, AboveSame
<1>3. QED
  BY <1>2 DEF Outside, DueIn

(* A name is taken from the innermost directory, on both sides if it is on  *)
(* both, and what is below it is to be gone into or not: of the rest the    *)
(* same is to come as before.                                               *)
Without(rest, names, n) == \A m \in Int : Has(rest, m) <=> Has(names, m) /\ m # n
WithoutName(w, n, a, b, w2, o2) ==
  LET p == Append(w[Len(w)].dir, n)
  IN /\ w2 \in Seq(Frame) /\ o2 \in Seq(Opening) /\ Len(o2) <= 1
     /\ Nested(w2, o2)
     /\ \A q \in Name :
          IF AtOrAbove(p, q)
          THEN /\ OldToCome(w2, o2, q) <=> a /\ p # q
               /\ NewToCome(w2, o2, q) <=> b /\ p # q
               /\ OldToCome(w, <<>>, q) <=> Has(w[Len(w)].old, n)
               /\ NewToCome(w, <<>>, q) <=> Has(w[Len(w)].new, n)
          ELSE /\ OldToCome(w2, o2, q) <=> OldToCome(w, <<>>, q)
               /\ NewToCome(w2, o2, q) <=> NewToCome(w, <<>>, q)

LEMMA NameTaken ==
  ASSUME NEW w \in Seq(Frame), w # <<>>, Nested(w, <<>>), NEW n \in Int,
         NEW old \in Seq(Int), NEW new \in Seq(Int), NEW a \in BOOLEAN, NEW b \in BOOLEAN,
         Without(old, w[Len(w)].old, n), Without(new, w[Len(w)].new, n)
  PROVE  WithoutName(w, n, a, b,
                     [w EXCEPT ![Len(w)] = [dir |-> w[Len(w)].dir, old |-> old, new |-> new]],
                     Below(Append(w[Len(w)].dir, n), a, b))
<1> DEFINE l  == Len(w)
           d  == w[l].dir
           p  == Append(d, n)
           frame == [dir |-> d, old |-> old, new |-> new]
           w2 == [w EXCEPT ![l] = frame]
           o2 == Below(p, a, b)
<1>1. /\ l \in Nat /\ l \in 1..l /\ DOMAIN w = 1..l
      /\ \A i \in 1..l : w[i] \in Frame
  <2>1. l \in Nat \ {0}
    BY EmptySeq
  <2>2. QED
    BY <2>1, LenProperties, ElementOfSeq
<1>2. d \in Name /\ frame \in Frame
  BY <1>1 DEF Frame
<1>3. /\ w2 \in Seq(Frame) /\ DOMAIN w2 = 1..l
      /\ w2[l] = frame /\ \A i \in 1..l : i # l => w2[i] = w[i]
  BY <1>1, <1>2, ExceptSeq
<1>4. p \in Name /\ Above(d, p)
  BY <1>2, ChildFacts
<1>5. /\ o2 \in Seq(Opening) /\ Len(o2) <= 1
      /\ \A j \in DOMAIN o2 : o2[j].dir = p
      /\ (\E j \in DOMAIN o2 : o2[j].old) <=> a
      /\ (\E j \in DOMAIN o2 : o2[j].new) <=> b
  <2>1. CASE a \/ b
    <3> DEFINE r == [dir |-> p, old |-> a, new |-> b]
    <3>1. o2 = <<r>> /\ r \in Opening
      BY <2>1, <1>4 DEF Below, Opening
    <3>2. o2 \in Seq(Opening) /\ Len(o2) = 1 /\ DOMAIN o2 = {1} /\ o2[1] = r
      BY <3>1
    <3>3. QED
      BY <3>2
  <2>2. CASE ~(a \/ b)
    BY <2>2 DEF Below
  <2>3. QED
    BY <2>1, <2>2
<1>6. ASSUME NEW q \in Name
      PROVE  /\ (\E j \in DOMAIN o2 : o2[j].old /\ Above(o2[j].dir, q)) <=> a /\ Above(p, q)
             /\ (\E j \in DOMAIN o2 : o2[j].new /\ Above(o2[j].dir, q)) <=> b /\ Above(p, q)
  BY <1>5
<1> HIDE DEF o2, w2, frame, l
<1>7. \A i \in 1..l : i # l => Outside(w[i], d)
  <2>1. \A i \in 1..l : i # l => i < l
    BY <1>1
  <2>2. QED
    BY <2>1, <1>1 DEF Nested
<1>8. ASSUME NEW q \in Name, AtOrAbove(d, q), NEW i \in 1..l, i # l
      PROVE  ~DueIn(w[i].dir, w[i].old, q) /\ ~DueIn(w[i].dir, w[i].new, q)
  BY <1>1, <1>2, <1>7, <1>8, OutsideBelow
<1>9. /\ w2[l].dir = d /\ w2[l].old = old /\ w2[l].new = new
      /\ \A m \in Int : /\ Has(old, m) <=> Has(w[l].old, m) /\ m # n
                        /\ Has(new, m) <=> Has(w[l].new, m) /\ m # n
  BY <1>3 DEF frame, l, Without
<1>10. ASSUME NEW q \in Name, AtOrAbove(p, q)
       PROVE  /\ OldToCome(w2, o2, q) <=> a /\ p # q
              /\ NewToCome(w2, o2, q) <=> b /\ p # q
              /\ OldToCome(w, <<>>, q) <=> Has(w[l].old, n)
              /\ NewToCome(w, <<>>, q) <=> Has(w[l].new, n)
  <2>1. AtOrAbove(d, q)
    BY <1>2, <1>4, <1>10, AtOrAboveOrder DEF Above
  <2>2. \A i \in 1..l : i # l => /\ ~DueIn(w[i].dir, w[i].old, q)
                                 /\ ~DueIn(w[i].dir, w[i].new, q)
    BY <2>1, <1>8
  <2>3. /\ DueIn(d, w[l].old, q) <=> Has(w[l].old, n)
        /\ DueIn(d, w[l].new, q) <=> Has(w[l].new, n)
        /\ ~DueIn(d, old, q) /\ ~DueIn(d, new, q)
    BY <1>2, <1>9, <1>10, DueInFacts
  <2>4. Above(p, q) <=> p # q
    BY <1>10 DEF Above
  <2>5. /\ ~ \E i \in DOMAIN w2 : DueIn(w2[i].dir, w2[i].old, q)
        /\ ~ \E i \in DOMAIN w2 : DueIn(w2[i].dir, w2[i].new, q)
    BY <2>2, <2>3, <1>3, <1>9
  <2>6. /\ (\E i \in DOMAIN w : DueIn(w[i].dir, w[i].old, q)) <=> Has(w[l].old, n)
        /\ (\E i \in DOMAIN w : DueIn(w[i].dir, w[i].new, q)) <=> Has(w[l].new, n)
    BY <2>2, <2>3, <1>1
  <2>7. QED
    BY <2>4, <2>5, <2>6, <1>6 DEF OldToCome, NewToCome
<1>11. ASSUME NEW q \in Name, ~AtOrAbove(p, q)
       PROVE  /\ OldToCome(w2, o2, q) <=> OldToCome(w, <<>>, q)
              /\ NewToCome(w2, o2, q) <=> NewToCome(w, <<>>, q)
  <2>1. /\ DueIn(d, old, q) <=> DueIn(d, w[l].old, q)
        /\ DueIn(d, new, q) <=> DueIn(d, w[l].new, q)
    BY <1>9, <1>11 DEF DueIn
  <2>2. ~Above(p, q)
    BY <1>11 DEF Above
  <2>3. \A i \in 1..l : /\ DueIn(w2[i].dir, w2[i].old, q) <=> DueIn(w[i].dir, w[i].old, q)
                        /\ DueIn(w2[i].dir, w2[i].new, q) <=> DueIn(w[i].dir, w[i].new, q)
    BY <2>1, <1>3, <1>9
  <2>4. /\ (\E i \in DOMAIN w2 : DueIn(w2[i].dir, w2[i].old, q))
             <=> \E i \in DOMAIN w : DueIn(w[i].dir, w[i].old, q)
        /\ (\E i \in DOMAIN w2 : DueIn(w2[i].dir, w2[i].new, q))
             <=> \E i \in DOMAIN w : DueIn(w[i].dir, w[i].new, q)
    BY <2>3, <1>1, <1>3
  <2>5. QED
    BY <2>2, <2>4, <1>6 DEF OldToCome, NewToCome
<1>12. Nested(w2, o2)
  <2>1. ASSUME NEW i \in 1..l, NEW j \in 1..l, i < j
        PROVE  Outside(w2[i], w2[j].dir)
    <3>1. i # l /\ w2[i] = w[i] /\ w2[j].dir = w[j].dir
      BY <2>1, <1>1, <1>3, <1>9
    <3>2. QED
      BY <2>1, <3>1, <1>1 DEF Nested
  <2>2. ASSUME NEW i \in 1..l
        PROVE  Outside(w2[i], p)
    <3>1. CASE i = l
      <4>1. AtOrAbove(p, p)
        BY <1>4, AtOrAboveOrder
      <4>2. ~DueIn(d, old, p) /\ ~DueIn(d, new, p)
        BY <4>1, <1>2, <1>4, <1>9, DueInFacts
      <4>3. QED
        BY <3>1, <4>2, <1>4, <1>9 DEF Outside
    <3>2. CASE i # l
      <4>1. w2[i] = w[i] /\ w[i].dir \in Name /\ Outside(w[i], d)
        BY <3>2, <1>1, <1>3, <1>7 DEF Frame
      <4>2. Above(w[i].dir, p)
        <5>1. AtOrAbove(w[i].dir, d) /\ Len(w[i].dir) < Len(d)
          BY <4>1, <1>2, AboveFacts DEF Outside
        <5>2. AtOrAbove(d, p) /\ Len(d) < Len(p)
          BY <1>2, <1>4, AboveFacts
        <5>3. Len(w[i].dir) \in Nat /\ Len(d) \in Nat /\ Len(p) \in Nat
          BY <4>1, <1>2, <1>4, NameFacts
        <5>4. AtOrAbove(w[i].dir, p) /\ Len(w[i].dir) < Len(p)
          BY <4>1, <5>1, <5>2, <5>3, <1>2, <1>4, AtOrAboveOrder
        <5>5. QED
          BY <5>4, <4>1, <1>4, AboveFacts
      <4>3. ~DueIn(w[i].dir, w[i].old, p) /\ ~DueIn(w[i].dir, w[i].new, p)
        BY <3>2, <1>4, <1>8 DEF Above
      <4>4. QED
        BY <4>1, <4>2, <4>3 DEF Outside
    <3>3. QED
      BY <3>1, <3>2
  <2>3. QED
    BY <2>1, <2>2, <1>3, <1>5 DEF Nested
<1>13. QED
  <2>1. WithoutName(w, n, a, b, w2, o2)
    BY <1>3, <1>5, <1>10, <1>11, <1>12 DEF WithoutName, l
  <2>2. QED
    BY <2>1 DEF w2, o2, frame, l

(* A directory is opened, and gone into.                                    *)
LEMMA DirOpened ==
  ASSUME NEW w \in Seq(Frame), NEW r \in Opening, Nested(w, <<r>>),
         NEW old \in Seq(Int), NEW new \in Seq(Int)
  PROVE  LET w2 == Append(w, [dir |-> r.dir, old |-> old, new |-> new])
         IN /\ w2 \in Seq(Frame) /\ DOMAIN w2 = 1 .. Len(w) + 1
            /\ w2[Len(w) + 1] = [dir |-> r.dir, old |-> old, new |-> new]
            /\ \A i \in DOMAIN w : w2[i] = w[i]
            /\ Nested(w2, <<>>)
            /\ \A q \in Name :
                 IF Above(r.dir, q)
                 THEN /\ OldToCome(w2, <<>>, q) <=> DueIn(r.dir, old, q)
                      /\ NewToCome(w2, <<>>, q) <=> DueIn(r.dir, new, q)
                      /\ OldToCome(w, <<r>>, q) <=> r.old
                      /\ NewToCome(w, <<r>>, q) <=> r.new
                 ELSE /\ OldToCome(w2, <<>>, q) <=> OldToCome(w, <<r>>, q)
                      /\ NewToCome(w2, <<>>, q) <=> NewToCome(w, <<r>>, q)
<1> DEFINE l == Len(w)
           d == r.dir
           frame == [dir |-> d, old |-> old, new |-> new]
           w2 == Append(w, frame)
<1>1. l \in Nat /\ DOMAIN w = 1..l /\ \A i \in 1..l : w[i] \in Frame
  BY LenProperties, ElementOfSeq
<1>2. d \in Name /\ frame \in Frame
  BY DEF Frame, Opening
<1>3. /\ w2 \in Seq(Frame) /\ DOMAIN w2 = 1 .. l + 1
      /\ w2[l + 1] = frame /\ \A i \in 1..l : w2[i] = w[i]
  <2>1. w2 \in Seq(Frame) /\ Len(w2) = l + 1
    BY <1>2, AppendProperties
  <2>2. w2[l + 1] = frame /\ \A i \in 1..l : w2[i] = w[i]
    BY <1>2, AppendProperties
  <2>3. DOMAIN w2 = 1 .. Len(w2)
    BY <2>1, LenProperties
  <2>4. QED
    BY <2>1, <2>2, <2>3
<1>4. frame.dir = d /\ frame.old = old /\ frame.new = new
  OBVIOUS
<1> HIDE DEF w2, frame, l
<1>5. \A i \in 1..l : Outside(w[i], d)
  <2>1. 1 \in DOMAIN <<r>> /\ <<r>>[1] = r
    OBVIOUS
  <2>2. \A i \in 1..l : Outside(w[i], <<r>>[1].dir)
    BY <2>1, <1>1 DEF Nested
  <2>3. QED
    BY <2>1, <2>2
<1>6. ASSUME NEW q \in Name, AtOrAbove(d, q), NEW i \in 1..l
      PROVE  ~DueIn(w[i].dir, w[i].old, q) /\ ~DueIn(w[i].dir, w[i].new, q)
  BY <1>1, <1>2, <1>5, <1>6, OutsideBelow
<1>7. ASSUME NEW q \in Name
      PROVE  /\ (\E i \in DOMAIN w2 : DueIn(w2[i].dir, w2[i].old, q))
                  <=> (\E i \in DOMAIN w : DueIn(w[i].dir, w[i].old, q)) \/ DueIn(d, old, q)
             /\ (\E i \in DOMAIN w2 : DueIn(w2[i].dir, w2[i].new, q))
                  <=> (\E i \in DOMAIN w : DueIn(w[i].dir, w[i].new, q)) \/ DueIn(d, new, q)
  <2>1. \A i \in 1 .. l + 1 : i \in 1..l \/ i = l + 1
    BY <1>1
  <2>2. l + 1 \in 1 .. l + 1 /\ \A i \in 1..l : i \in 1 .. l + 1
    BY <1>1
  <2>3. (\E i \in DOMAIN w2 : DueIn(w2[i].dir, w2[i].old, q))
          <=> (\E i \in DOMAIN w : DueIn(w[i].dir, w[i].old, q)) \/ DueIn(d, old, q)
    BY <2>1, <2>2, <1>1, <1>3, <1>4
  <2>4. (\E i \in DOMAIN w2 : DueIn(w2[i].dir, w2[i].new, q))
          <=> (\E i \in DOMAIN w : DueIn(w[i].dir, w[i].new, q)) \/ DueIn(d, new, q)
    BY <2>1, <2>2, <1>1, <1>3, <1>4
  <2>5. QED
    BY <2>3, <2>4
<1>8. ASSUME NEW q \in Name
      PROVE  /\ (\E j \in DOMAIN <<r>> : <<r>>[j].old /\ Above(<<r>>[j].dir, q)) <=> r.old /\ Above(d, q)
             /\ (\E j \in DOMAIN <<r>> : <<r>>[j].new /\ Above(<<r>>[j].dir, q)) <=> r.new /\ Above(d, q)
  OBVIOUS
<1>9. ASSUME NEW q \in Name, Above(d, q)
      PROVE  /\ OldToCome(w2, <<>>, q) <=> DueIn(d, old, q)
             /\ NewToCome(w2, <<>>, q) <=> DueIn(d, new, q)
             /\ OldToCome(w, <<r>>, q) <=> r.old
             /\ NewToCome(w, <<r>>, q) <=> r.new
  <2>1. AtOrAbove(d, q)
    BY <1>9 DEF Above
  <2>2. /\ ~ \E i \in DOMAIN w : DueIn(w[i].dir, w[i].old, q)
        /\ ~ \E i \in DOMAIN w : DueIn(w[i].dir, w[i].new, q)
    BY <2>1, <1>1, <1>6
  <2>3. QED
    BY <2>2, <1>7, <1>8, <1>9 DEF OldToCome, NewToCome
<1>10. ASSUME NEW q \in Name, ~Above(d, q)
       PROVE  /\ OldToCome(w2, <<>>, q) <=> OldToCome(w, <<r>>, q)
              /\ NewToCome(w2, <<>>, q) <=> NewToCome(w, <<r>>, q)
  <2>1. ~DueIn(d, old, q) /\ ~DueIn(d, new, q)
    BY <1>2, <1>10, DueInFacts
  <2>2. OldToCome(w2, <<>>, q) <=> OldToCome(w, <<r>>, q)
    BY <2>1, <1>7, <1>8, <1>10 DEF OldToCome
  <2>3. NewToCome(w2, <<>>, q) <=> NewToCome(w, <<r>>, q)
    BY <2>1, <1>7, <1>8, <1>10 DEF NewToCome
  <2>4. QED
    BY <2>2, <2>3
<1>11. Nested(w2, <<>>)
  <2>1. ASSUME NEW i \in 1 .. l + 1, NEW j \in 1 .. l + 1, i < j
        PROVE  Outside(w2[i], w2[j].dir)
    <3>1. i \in 1..l /\ w2[i] = w[i]
      BY <2>1, <1>1, <1>3
    <3>2. CASE j = l + 1
      BY <3>1, <3>2, <1>3, <1>4, <1>5
    <3>3. CASE j # l + 1
      <4>1. j \in 1..l /\ w2[j] = w[j]
        BY <3>3, <1>1, <1>3
      <4>2. QED
        BY <2>1, <3>1, <4>1, <1>1 DEF Nested
    <3>4. QED
      BY <3>2, <3>3
  <2>2. QED
    BY <2>1, <1>3 DEF Nested
<1>12. QED
  BY <1>1, <1>3, <1>9, <1>10, <1>11 DEF w2, frame, l

(* A directory that is done with is left.                                   *)
LEMMA DirLeft ==
  ASSUME NEW w \in Seq(Frame), w # <<>>, Nested(w, <<>>),
         w[Len(w)].old = <<>>, w[Len(w)].new = <<>>
  PROVE  /\ Front(w) \in Seq(Frame)
         /\ \A i \in DOMAIN Front(w) : i \in DOMAIN w /\ Front(w)[i] = w[i]
         /\ Nested(Front(w), <<>>)
         /\ \A q \in Name : /\ OldToCome(Front(w), <<>>, q) <=> OldToCome(w, <<>>, q)
                            /\ NewToCome(Front(w), <<>>, q) <=> NewToCome(w, <<>>, q)
<1> DEFINE l == Len(w)
           w2 == Front(w)
<1>1. l \in Nat /\ l > 0 /\ l \in 1..l /\ DOMAIN w = 1..l /\ \A i \in 1..l : w[i] \in Frame
  <2>1. l \in Nat \ {0}
    BY EmptySeq
  <2>2. QED
    BY <2>1, LenProperties, ElementOfSeq
<1>2. w2 \in Seq(Frame) /\ DOMAIN w2 = 1 .. l - 1 /\ \A i \in 1 .. l - 1 : w2[i] = w[i]
  <2>1. /\ SubSeq(w, 1, l - 1) \in Seq(Frame)
        /\ Len(SubSeq(w, 1, l - 1)) = IF 1 <= l - 1 THEN (l - 1) - 1 + 1 ELSE 0
        /\ \A i \in 1 .. (l - 1) - 1 + 1 : SubSeq(w, 1, l - 1)[i] = w[1 + i - 1]
    BY <1>1, SubSeqProperties, Z3
  <2>2. w2 \in Seq(Frame) /\ Len(w2) = l - 1 /\ \A i \in 1 .. l - 1 : w2[i] = w[i]
    BY <2>1, <1>1 DEF Front
  <2>3. QED
    BY <2>2, LenProperties
<1> HIDE DEF w2
<1>3. Nested(w2, <<>>)
  <2>1. ASSUME NEW i \in 1 .. l - 1, NEW j \in 1 .. l - 1, i < j
        PROVE  Outside(w2[i], w2[j].dir)
    BY <2>1, <1>1, <1>2 DEF Nested
  <2>2. QED
    BY <2>1, <1>2 DEF Nested
<1>4. ASSUME NEW q \in Name
      PROVE  /\ OldToCome(w2, <<>>, q) <=> OldToCome(w, <<>>, q)
             /\ NewToCome(w2, <<>>, q) <=> NewToCome(w, <<>>, q)
  <2>1. ~DueIn(w[l].dir, w[l].old, q) /\ ~DueIn(w[l].dir, w[l].new, q)
    BY DEF DueIn, Has
  <2>2. \A k \in Nat : /\ \A i \in 1..k : i = k \/ i \in 1 .. k - 1
                       /\ \A i \in 1 .. k - 1 : i \in 1..k
    OBVIOUS
  <2>3. /\ \A i \in 1..l : i = l \/ i \in 1 .. l - 1
        /\ \A i \in 1 .. l - 1 : i \in 1..l
    BY <2>2, <1>1
  <2>4. (\E i \in DOMAIN w2 : DueIn(w2[i].dir, w2[i].old, q))
          <=> \E i \in DOMAIN w : DueIn(w[i].dir, w[i].old, q)
    BY <2>1, <2>3, <1>1, <1>2
  <2>5. (\E i \in DOMAIN w2 : DueIn(w2[i].dir, w2[i].new, q))
          <=> \E i \in DOMAIN w : DueIn(w[i].dir, w[i].new, q)
    BY <2>1, <2>3, <1>1, <1>2
  <2>6. QED
    BY <2>4, <2>5 DEF OldToCome, NewToCome
<1>5. \A i \in DOMAIN w2 : i \in DOMAIN w /\ w2[i] = w[i]
  BY <1>1, <1>2
<1>6. QED
  BY <1>2, <1>3, <1>4, <1>5 DEF w2

-----------------------------------------------------------------------------
(* What is said of an object o that was looked at, and of one that is gone, *)
(* with the database as it is.                                              *)
SaidOf(d, s, p, o) ==
  LET new == CalcProps(o, s.props)
      old == d.data[p]
  IN IF ~HasFCOData(d, p) THEN {Added(s, p, new)}
     ELSE IF CompareFCOs(s, old, new) = {} THEN {}
     ELSE {Entry(s, "changed", p, Adjusted(s, old, new), new, CompareFCOs(s, old, new))}
SaidGone(d, s, p) == IF HasFCOData(d, p) THEN {Removed(s, p, d.data[p])} ELSE {}

LEMMA EntryFacts ==
  ASSUME NEW s, NEW kind, NEW p, NEW old, NEW new, NEW props
  PROVE  /\ Entry(s, kind, p, old, new, props).rule = s.start
         /\ Entry(s, kind, p, old, new, props).path = p
         /\ Entry(s, kind, p, old, new, props).kind = kind
         /\ Entry(s, kind, p, old, new, props).new = new
BY DEF Entry

LEMMA SaidFacts ==
  ASSUME NEW d, NEW s, NEW p, NEW o
  PROVE  /\ \A e \in SaidOf(d, s, p, o) :
              /\ e.rule = s.start /\ e.path = p
              /\ e.kind \in {"added", "removed", "changed"}
              /\ e.new = CalcProps(o, s.props)
         /\ \A e, g \in SaidOf(d, s, p, o) : e = g
         /\ \A e \in SaidGone(d, s, p) :
              /\ e.rule = s.start /\ e.path = p
              /\ e.kind \in {"added", "removed", "changed"}
              /\ e.new = NoData
         /\ \A e, g \in SaidGone(d, s, p) : e = g
<1>1. \A e, g \in SaidOf(d, s, p, o) : e = g
  BY DEF SaidOf
<1>2. \A e, g \in SaidGone(d, s, p) : e = g
  BY DEF SaidGone
<1>3. ASSUME NEW e \in SaidOf(d, s, p, o)
      PROVE  /\ e.rule = s.start /\ e.path = p
             /\ e.kind \in {"added", "removed", "changed"}
             /\ e.new = CalcProps(o, s.props)
  BY EntryFacts DEF SaidOf, Added
<1>4. ASSUME NEW e \in SaidGone(d, s, p)
      PROVE  /\ e.rule = s.start /\ e.path = p
             /\ e.kind \in {"added", "removed", "changed"}
             /\ e.new = NoData
  BY EntryFacts DEF SaidGone, Removed
<1>5. QED
  BY <1>1, <1>2, <1>3, <1>4

(* It is what is expected when the database has of the object what it had.  *)
LEMMA SaidAsExpected ==
  ASSUME NEW f, NEW d, NEW w, Entries(d) = Entries(w), NEW s, NEW p,
         p \in Entries(w) => d.data[p] = w.data[p]
  PROVE  /\ Seen(f, s, p) => SaidOf(d, s, p, InitializeTypeInfo(f, s, p)) = Expected(f, w, s, p)
         /\ ~Seen(f, s, p) => SaidGone(d, s, p) = Expected(f, w, s, p)
         /\ HasFCOData(d, p) <=> HasFCOData(w, p)
<1>1. HasFCOData(d, p) <=> HasFCOData(w, p)
  BY DEF HasFCOData
<1>2. HasFCOData(w, p) => d.data[p] = w.data[p]
  BY DEF HasFCOData
<1>3. ASSUME Seen(f, s, p)
      PROVE  SaidOf(d, s, p, InitializeTypeInfo(f, s, p)) = Expected(f, w, s, p)
  BY <1>1, <1>2, <1>3 DEF SaidOf, Expected, FcoOf
<1>4. ASSUME ~Seen(f, s, p)
      PROVE  SaidGone(d, s, p) = Expected(f, w, s, p)
  BY <1>1, <1>2, <1>4 DEF SaidGone, Expected
<1>5. QED
  BY <1>1, <1>3, <1>4

LEMMA TypeOfObject ==
  ASSUME NEW o, NEW props, "type" \in props
  PROVE  CalcProps(o, props)["type"] = o.type
BY DEF CalcProps, PropValue

-----------------------------------------------------------------------------
(* The invariant.                                                           *)

Types == /\ IsTree(fs) /\ DOMAIN fs \subseteq Path /\ \A p \in DOMAIN fs : fs[p] \in Object
         /\ touched \subseteq Path
         /\ \E policy \in Policies : specs = CreateFCOSpecs(policy)
         /\ todo \subseteq specs /\ spec \in specs
         /\ Rooted(was) /\ Entries(was) \subseteq Path
         /\ Entries(db) = Entries(was) /\ db.arrays = was.arrays
         /\ DOMAIN db = {"data", "arrays"}

(* The names still to come in a directory are of the database or of objects *)
(* that are there or were.                                                  *)
FrameOK(frame) ==
  /\ Reaches(spec, frame.dir)
  /\ Sorted(frame.old) /\ Sorted(frame.new)
  /\ \A n \in Int : Has(frame.old, n) => Append(frame.dir, n) \in Entries(was)
  /\ \A n \in Int : Has(frame.new, n) => Append(frame.dir, n) \in DOMAIN fs \cup touched
  /\ frame.new # <<>> => ~Crosses(spec, frame.dir)
OpeningOK(r) ==
  /\ Reaches(spec, r.dir)
  /\ r.new => r.dir \in DOMAIN fs \cup touched /\ ~Crosses(spec, r.dir)
WalkOK ==
  /\ walk \in Seq(Frame) /\ \A i \in DOMAIN walk : FrameOK(walk[i])
  /\ opening \in Seq(Opening) /\ Len(opening) <= 1 /\ \A i \in DOMAIN opening : OpeningOK(opening[i])
  /\ Nested(walk, opening)
  /\ ~Idle => spec \notin todo

EntriesAt(s, p) == {e \in report : e.rule = s.start /\ e.path = p}

(* An error of the rule, for an object at or above p that was there, stands *)
(* for whatever is missing.                                                 *)
Excused(s, p) == \E e \in Path : /\ <<s.start, e>> \in errors /\ AtOrAbove(e, p)
                                 /\ e \in DOMAIN fs \cup touched
Gone(s, p)  == p \in touched \/ Excused(s, p) \/ ~Seen(fs, s, p)
(* The database has the object as the check leaves it: adjusted, where the  *)
(* flags say so, to what was seen of it.                                    *)
RightFco(s, p) ==
  HasFCOData(was, p) => db.data[p] = IF Seen(fs, s, p) THEN Adjusted(s, was.data[p], FcoOf(fs, s, p))
                                                       ELSE was.data[p]
Right(s, p) == p \notin touched /\ ~Excused(s, p) =>
                 EntriesAt(s, p) = Expected(fs, was, s, p) /\ RightFco(s, p)
Fresh(s, p) == EntriesAt(s, p) = {} /\ (p \in Entries(was) => db.data[p] = was.data[p])

OldDue(s, p) == s = spec /\ OldToCome(walk, opening, p)
NewDue(s, p) == s = spec /\ NewToCome(walk, opening, p)

(* What is to come, on one side or both, was not dealt with yet, and on the *)
(* other side there is nothing of it.                                       *)
Awaited(s, p) == /\ Fresh(s, p)
                 /\ OldDue(s, p) \/ ~HasFCOData(was, p)
                 /\ NewDue(s, p) \/ Gone(s, p)
Status(s, p) == IF s \in todo THEN Fresh(s, p)
                ELSE IF OldDue(s, p) \/ NewDue(s, p) THEN Awaited(s, p) ELSE Right(s, p)
Progress == \A s \in specs, p \in Path : Reaches(s, p) => Status(s, p)

Reported == /\ ReportedOnce /\ PhantomHasError
            /\ \A e \in report : e.kind \in {"added", "removed", "changed"} /\ e.path \in Path
            /\ \A e \in errors : \E s \in specs : s.start = e[1] /\ Reaches(s, e[2])

(* An entry of the report is about the database as the check found it and   *)
(* leaves it: what was adjusted is in the entry as it is there.  What is    *)
(* new in it was calculated for a rule.                                     *)
Suits(e) == /\ e.kind = "added" <=> ~HasFCOData(was, e.path)
            /\ e.kind = "changed" => db.data[e.path] = e.old
            /\ e.kind # "removed" => \E s \in specs, o \in Object \cup {InvalidObject} :
                                        e.new = CalcProps(o, s.props)
Adapted(p) == \/ db.data[p] = was.data[p]
              \/ /\ HasFCOData(was, p)
                 /\ \E s \in specs, o \in Object \cup {InvalidObject} :
                      db.data[p] = Adjusted(s, was.data[p], CalcProps(o, s.props))
Fitting == /\ \A e \in report : Suits(e)
           /\ \A p \in Entries(was) : Adapted(p)

IInv == Types /\ WalkOK /\ Progress /\ Reported /\ Fitting

-----------------------------------------------------------------------------
LEMMA SpecsFacts ==
  ASSUME Types
  PROVE  /\ \A s \in specs : /\ s.start \in Name \ {<<>>} /\ "type" \in s.props
                             /\ Reaches(s, s.start)
         /\ \A s, t \in specs : s.start = t.start => s = t
         /\ \A s, t \in specs, p \in Name : Reaches(s, p) /\ Reaches(t, p) => s = t
<1>1. PICK policy \in Policies : specs = CreateFCOSpecs(policy)
  BY DEF Types
<1>2. PolicyAssumption(policy)
  BY CheckAssumption
<1>3. \A s \in specs : s.start \in Name \ {<<>>} /\ "type" \in s.props /\ Reaches(s, s.start)
  BY <1>1, <1>2, RuleFacts
<1>4. \A s, t \in specs : s.start = t.start => s = t
  BY <1>1, OneRuleAtStart
<1>5. \A s, t \in specs, p \in Name : Reaches(s, p) /\ Reaches(t, p) => s = t
  BY <1>1, <1>2, OneRuleReaches
<1>6. QED
  BY <1>3, <1>4, <1>5

(* What there is nothing of on either side is rightly not reported.         *)
LEMMA NothingIsRight ==
  \A s, p : Fresh(s, p) /\ ~HasFCOData(was, p) /\ Gone(s, p) => Right(s, p)
BY DEF Fresh, Gone, Right, RightFco, Expected

LEMMA NothingIsRightAfter ==
  (\A s, p : Fresh(s, p) /\ ~HasFCOData(was, p) /\ Gone(s, p) => Right(s, p))'
BY NothingIsRight, PTL

LEMMA InitEstablishes == Init => IInv
<1> SUFFICES ASSUME Init
             PROVE  IInv
  OBVIOUS
<1>1. PICK policy \in Policies, oldPolicy \in Policies, before \in FileSystems :
        /\ specs = CreateFCOSpecs(policy)
        /\ db = DbOf(Snapshot(before, CreateFCOSpecs(oldPolicy)))
  BY DEF Init
<1>2. TreeAssumption(fs) /\ TreeAssumption(before)
  BY CheckAssumption DEF Init
<1>3. Rooted(db) /\ Entries(db) \subseteq Path /\ DOMAIN db = {"data", "arrays"}
  BY <1>1, <1>2, SnapshotRooted DEF TreeAssumption
<1>4. Types
  BY <1>1, <1>2, <1>3 DEF Init, Types, TreeAssumption
<1>5. WalkOK
  <2>1. walk = <<>> /\ opening = <<>>
    BY DEF Init
  <2>2. walk \in Seq(Frame) /\ opening \in Seq(Opening) /\ Len(opening) <= 1
    BY <2>1
  <2>3. DOMAIN walk = {} /\ DOMAIN opening = {}
    BY <2>1
  <2>4. Nested(walk, opening) /\ Idle
    BY <2>1, <2>3 DEF Nested, Idle
  <2>5. QED
    BY <2>2, <2>3, <2>4 DEF WalkOK
<1>6. Progress
  <2>1. \A s \in specs, p \in Path : s \in todo /\ Fresh(s, p)
    BY DEF Init, Fresh, EntriesAt
  <2>2. QED
    BY <2>1 DEF Progress, Status
<1>7. Reported
  BY DEF Init, Reported, ReportedOnce, PhantomHasError
<1>8. Fitting
  BY DEF Init, Fitting, Adapted
<1>9. QED
  BY <1>4, <1>5, <1>6, <1>7, <1>8 DEF IInv

-----------------------------------------------------------------------------
(* What a step that deals with the object at p does to the report, to the   *)
(* database and to the errors.                                              *)
Adds(s, p, said) == /\ report' = report \cup said
                    /\ \A e \in said : /\ e.rule = s.start /\ e.path = p
                                       /\ e.kind \in {"added", "removed", "changed"}
                    /\ \A e, g \in said : e = g
                    /\ said # {} => p \in Path
Keeps(p) == /\ Entries(db') = Entries(db) /\ db'.arrays = db.arrays
            /\ DOMAIN db' = {"data", "arrays"}
            /\ \A q \in Entries(db) : q # p => db'.data[q] = db.data[q]
Logs(s, p) == errors \subseteq errors' /\ errors' \subseteq errors \cup {<<s.start, p>>}

LEMMA EntriesAfter ==
  ASSUME Types, NEW s \in specs, NEW p, NEW said, Adds(s, p, said)
  PROVE  /\ EntriesAt(s, p)' = EntriesAt(s, p) \cup said
         /\ \A t \in specs : \A q : ~(t = s /\ q = p) => EntriesAt(t, q)' = EntriesAt(t, q)
<1>1. EntriesAt(s, p)' = EntriesAt(s, p) \cup said
  BY DEF Adds, EntriesAt
<1>2. ASSUME NEW t \in specs, NEW q, ~(t = s /\ q = p)
      PROVE  EntriesAt(t, q)' = EntriesAt(t, q)
  <2>1. \A e \in said : ~(e.rule = t.start /\ e.path = q)
    BY <1>2, SpecsFacts DEF Adds
  <2>2. QED
    BY <2>1 DEF Adds, EntriesAt
<1>3. QED
  BY <1>1, <1>2

(* The file system and the objects that were changed are as they were.      *)
Calm == fs' = fs /\ touched' = touched /\ specs' = specs /\ was' = was

LEMMA StillExcused ==
  ASSUME errors \subseteq errors', Calm, NEW s, NEW q
  PROVE  /\ Excused(s, q) => Excused(s, q)'
         /\ Gone(s, q) => Gone(s, q)'
<1>1. Excused(s, q) => Excused(s, q)'
  BY DEF Excused, Calm
<1>2. Seen(fs, s, q)' = Seen(fs, s, q)
  BY DEF Calm, Seen
<1>3. QED
  BY <1>1, <1>2 DEF Gone, Calm

LEMMA RestUnchanged ==
  ASSUME Types, NEW s \in specs, NEW p, NEW said, Adds(s, p, said), Keeps(p), Logs(s, p), Calm,
         NEW t \in specs, NEW q \in Name, Reaches(s, p), Reaches(t, q), p \in Name, ~(t = s /\ q = p)
  PROVE  /\ Fresh(t, q) => Fresh(t, q)'
         /\ Right(t, q) => Right(t, q)'
<1>1. EntriesAt(t, q)' = EntriesAt(t, q)
  BY EntriesAfter
<1>2. q # p
  BY SpecsFacts
<1>3. Fresh(t, q) => Fresh(t, q)'
  BY <1>1, <1>2 DEF Fresh, Keeps, Calm, Types
<1>4. Excused(t, q) => Excused(t, q)'
  BY StillExcused DEF Logs
<1>5. Expected(fs, was, t, q)' = Expected(fs, was, t, q)
  BY DEF Calm
<1>6. RightFco(t, q) => RightFco(t, q)'
  <2>1. HasFCOData(was, q) => db'.data[q] = db.data[q]
    BY <1>2 DEF HasFCOData, Keeps, Types
  <2>2. QED
    BY <2>1 DEF RightFco, Calm
<1>7. Right(t, q) => Right(t, q)'
  BY <1>1, <1>4, <1>5, <1>6 DEF Right, Calm
<1>8. QED
  BY <1>3, <1>7

(* One entry at most is added for an object that had none.                  *)
LEMMA ReportedAfter ==
  ASSUME Types, Reported, NEW s \in specs, NEW p \in Name, Reaches(s, p),
         NEW said, Adds(s, p, said), Logs(s, p), specs' = specs,
         p \in Path => EntriesAt(s, p) = {},
         \A e \in said : e.new # NoData /\ e.new["type"] = "invalid" =>
           <<e.rule, e.path>> \in errors' \/ e.path \in Mounts
  PROVE  Reported'
<1>1. report' = report \cup said
  BY DEF Adds
<1>2. ASSUME NEW e \in report, NEW g \in said, e.path = g.path
      PROVE  FALSE
  <2>1. g.path = p /\ p \in Path
    BY DEF Adds
  <2>2. PICK t \in specs : t.start = e.rule /\ Reaches(t, e.path)
    BY DEF Reported, ReportedOnce
  <2>3. t = s
    BY <1>2, <2>1, <2>2, SpecsFacts
  <2>4. e \in EntriesAt(s, p)
    BY <1>2, <2>1, <2>2, <2>3 DEF EntriesAt
  <2>5. QED
    BY <2>1, <2>4
<1>3. \A e, g \in report' : e.path = g.path => e = g
  BY <1>1, <1>2 DEF Adds, Reported, ReportedOnce
<1>4. \A e \in report' : \E t \in specs : t.start = e.rule /\ Reaches(t, e.path)
  BY <1>1 DEF Adds, Reported, ReportedOnce
<1>5. ReportedOnce'
  BY <1>3, <1>4 DEF ReportedOnce
<1>6. PhantomHasError'
  BY <1>1 DEF Reported, PhantomHasError, Logs
<1>7. \A e \in report' : e.kind \in {"added", "removed", "changed"} /\ e.path \in Path
  BY <1>1 DEF Reported, Adds
<1>8. \A e \in errors' : \E t \in specs : t.start = e[1] /\ Reaches(t, e[2])
  BY DEF Reported, Logs
<1>9. QED
  BY <1>5, <1>6, <1>7, <1>8 DEF Reported

(* What is to come once the object at p is dealt with: of what is below it  *)
(* the sides that are gone into, and of the rest what was to come.          *)
ToComeAfter(p, a, b) ==
  \A q \in Name :
    IF AtOrAbove(p, q)
    THEN /\ OldToCome(walk', opening', q) <=> a /\ p # q
         /\ NewToCome(walk', opening', q) <=> b /\ p # q
    ELSE /\ OldToCome(walk', opening', q) <=> OldToCome(walk, opening, q)
         /\ NewToCome(walk', opening', q) <=> NewToCome(walk, opening, q)

(* With the object dealt with, the report and the database say of it what   *)
(* they should, unless something happened to it or is excused.              *)
Settles(s, p, said) ==
  p \in Path \ touched /\ ~Excused(s, p)' => said = Expected(fs, was, s, p) /\ RightFco(s, p)'
Suited(p, said) == /\ \A e \in said : Suits(e)'
                   /\ p \in Entries(was) => Adapted(p)'

(* It is the turn of p in rule s: of a rule that is begun its start point,  *)
(* otherwise an object the walk has come to.                                *)
Turn(s, p) == /\ s \in todo => Idle /\ p = s.start
              /\ s \notin todo => s = spec
              /\ spec' = s /\ todo' = todo \ {s}

LEMMA FittingAfter ==
  ASSUME Types, Reported, Fitting, NEW s \in specs, NEW p \in Name, Reaches(s, p),
         NEW said, Adds(s, p, said), Keeps(p), Calm, Suited(p, said),
         p \in Path => EntriesAt(s, p) = {}
  PROVE  Fitting'
<1>1. report' = report \cup said /\ Entries(db) = Entries(was)
  BY DEF Adds, Types
<1>2. ASSUME NEW e \in report
      PROVE  e.path # p
  <2>1. e.path \in Path
    BY DEF Reported
  <2>2. PICK t \in specs : t.start = e.rule /\ Reaches(t, e.path)
    BY DEF Reported, ReportedOnce
  <2>3. e.path = p => t = s
    BY <2>2, SpecsFacts
  <2>4. QED
    BY <2>1, <2>2, <2>3 DEF EntriesAt
<1>3. ASSUME NEW e \in report
      PROVE  Suits(e)'
  <2>1. Suits(e)
    BY DEF Fitting
  <2>2. e.kind = "changed" => db'.data[e.path] = db.data[e.path]
    BY <1>1, <1>2, <2>1 DEF Suits, HasFCOData, Keeps
  <2>3. QED
    BY <2>1, <2>2 DEF Suits, Calm
<1>4. ASSUME NEW q \in Entries(was), q # p
      PROVE  Adapted(q)'
  <2>1. Adapted(q)
    BY DEF Fitting
  <2>2. db'.data[q] = db.data[q]
    BY <1>1, <1>4 DEF Keeps
  <2>3. QED
    BY <2>1, <2>2 DEF Adapted, Calm
<1>5. \A e \in report' : Suits(e)'
  BY <1>1, <1>3 DEF Suited
<1>6. \A q \in Entries(was)' : Adapted(q)'
  BY <1>4 DEF Suited, Calm
<1>7. QED
  BY <1>5, <1>6 DEF Fitting

LEMMA ProgressAfter ==
  ASSUME Types, Progress, NEW s \in specs, NEW p \in Name, Reaches(s, p),
         NEW said, Adds(s, p, said), Keeps(p), Logs(s, p), Calm, Turn(s, p),
         NEW a \in BOOLEAN, NEW b \in BOOLEAN, ToComeAfter(p, a, b),
         \A q \in Path : Above(p, q) /\ Reaches(s, q) =>
           Fresh(s, q) /\ (a \/ ~HasFCOData(was, q)) /\ (b \/ Gone(s, q)'),
         p \in Path => EntriesAt(s, p) = {},
         Settles(s, p, said)
  PROVE  Progress'
<1> SUFFICES ASSUME NEW t \in specs, NEW q \in Path, Reaches(t, q)
             PROVE  Status(t, q)'
  BY DEF Progress, Calm
<1>1. q \in Name
  BY PathFacts
<1>2. Status(t, q)
  BY DEF Progress
<1>3. s \notin todo' /\ spec' = s
  BY DEF Turn
<1>4. CASE t = s /\ q = p
  <2>1. AtOrAbove(p, p)
    BY AtOrAboveOrder
  <2>2. ~OldToCome(walk', opening', p) /\ ~NewToCome(walk', opening', p)
    BY <2>1 DEF ToComeAfter
  <2>3. EntriesAt(s, p)' = said
    BY <1>4, EntriesAfter
  <2>4. Expected(fs, was, s, p)' = Expected(fs, was, s, p)
    BY DEF Calm
  <2>5. Right(s, p)'
    BY <1>4, <2>3, <2>4 DEF Right, Settles, Calm
  <2>6. QED
    BY <1>3, <1>4, <2>2, <2>5 DEF Status, OldDue, NewDue
<1>5. CASE t = s /\ Above(p, q)
  <2>1. Fresh(s, q) /\ (a \/ ~HasFCOData(was, q)) /\ (b \/ Gone(s, q)')
    BY <1>5
  <2>2. AtOrAbove(p, q) /\ p # q
    BY <1>5 DEF Above
  <2>3. /\ OldToCome(walk', opening', q) <=> a
        /\ NewToCome(walk', opening', q) <=> b
    BY <1>1, <2>2 DEF ToComeAfter
  <2>4. Fresh(s, q)'
    BY <1>1, <1>5, <2>1, <2>2, RestUnchanged
  <2>5. HasFCOData(was, q)' = HasFCOData(was, q)
    BY DEF Calm
  <2>6. /\ OldDue(s, q)' <=> a
        /\ NewDue(s, q)' <=> b
    BY <1>3, <2>3 DEF OldDue, NewDue
  <2>7. Awaited(s, q)'
    BY <2>1, <2>4, <2>5, <2>6 DEF Awaited
  <2>8. ~a /\ ~b => Right(s, q)'
    BY <2>1, <2>4, <2>5, NothingIsRightAfter
  <2>9. QED
    BY <1>3, <1>5, <2>6, <2>7, <2>8 DEF Status
<1>6. CASE t = s /\ ~AtOrAbove(p, q)
  <2>1. s \notin todo /\ s = spec
    BY <1>6 DEF Turn, Reaches
  <2>2. /\ OldToCome(walk', opening', q) <=> OldToCome(walk, opening, q)
        /\ NewToCome(walk', opening', q) <=> NewToCome(walk, opening, q)
    BY <1>1, <1>6 DEF ToComeAfter
  <2>3. /\ OldDue(s, q)' <=> OldDue(s, q)
        /\ NewDue(s, q)' <=> NewDue(s, q)
    BY <1>3, <2>1, <2>2 DEF OldDue, NewDue
  <2>4. q # p
    BY <1>1, <1>6, AtOrAboveOrder
  <2>5. /\ Fresh(s, q) => Fresh(s, q)'
        /\ Right(s, q) => Right(s, q)'
    BY <1>1, <1>6, <2>4, RestUnchanged
  <2>6. Gone(s, q) => Gone(s, q)'
    BY StillExcused DEF Logs
  <2>7. HasFCOData(was, q)' = HasFCOData(was, q)
    BY DEF Calm
  <2>8. CASE OldDue(s, q) \/ NewDue(s, q)
    <3>1. Awaited(s, q)
      BY <1>2, <1>6, <2>1, <2>8 DEF Status
    <3>2. Awaited(s, q)'
      BY <3>1, <2>3, <2>5, <2>6, <2>7 DEF Awaited
    <3>3. QED
      BY <1>3, <1>6, <2>3, <2>8, <3>2 DEF Status
  <2>9. CASE ~(OldDue(s, q) \/ NewDue(s, q))
    <3>1. Right(s, q)
      BY <1>2, <1>6, <2>1, <2>9 DEF Status
    <3>2. QED
      BY <1>3, <1>6, <2>3, <2>5, <2>9, <3>1 DEF Status
  <2>10. QED
    BY <2>8, <2>9
<1>7. CASE t # s
  <2>1. /\ Fresh(t, q) => Fresh(t, q)'
        /\ Right(t, q) => Right(t, q)'
    BY <1>1, <1>7, RestUnchanged
  <2>2. t \in todo' <=> t \in todo
    BY <1>7 DEF Turn
  <2>3. ~OldDue(t, q)' /\ ~NewDue(t, q)'
    BY <1>3, <1>7 DEF OldDue, NewDue
  <2>4. ~OldDue(t, q) /\ ~NewDue(t, q)
    <3>1. CASE t = spec
      <4>1. walk = <<>> /\ opening = <<>>
        BY <1>7, <3>1 DEF Turn, Idle
      <4>2. QED
        BY <4>1 DEF OldDue, NewDue, OldToCome, NewToCome
    <3>2. CASE t # spec
      BY <3>2 DEF OldDue, NewDue
    <3>3. QED
      BY <3>1, <3>2
  <2>5. QED
    BY <1>2, <2>1, <2>2, <2>3, <2>4 DEF Status
<1>8. t = s /\ AtOrAbove(p, q) => q = p \/ Above(p, q)
  BY DEF Above
<1>9. QED
  BY <1>4, <1>5, <1>6, <1>7, <1>8

-----------------------------------------------------------------------------
(* The merge of the two sides.                                              *)

(* old and new are what is left of the names of the innermost directory     *)
(* when n is taken from them.                                               *)
Taken(n, old, new) ==
  /\ n \in Int /\ old \in Seq(Int) /\ new \in Seq(Int) /\ Sorted(old) /\ Sorted(new)
  /\ \A m \in Int : /\ Has(old, m) <=> Has(Top.old, m) /\ m # n
                    /\ Has(new, m) <=> Has(Top.new, m) /\ m # n
WithTop(old, new) ==
  [walk EXCEPT ![Len(walk)] = [dir |-> Top.dir, old |-> old, new |-> new]]

LEMMA TopFacts ==
  ASSUME WalkOK, Merging
  PROVE  /\ Len(walk) \in DOMAIN walk /\ DOMAIN walk = 1..Len(walk) /\ Len(walk) \in Nat
         /\ Top \in Frame /\ FrameOK(Top)
         /\ Top.dir \in Name /\ Top.old \in Seq(Int) /\ Top.new \in Seq(Int)
         /\ spec \notin todo /\ Nested(walk, <<>>)
<1>1. walk \in Seq(Frame) /\ walk # <<>> /\ opening = <<>>
  BY DEF WalkOK, Merging
<1>2. Len(walk) \in Nat \ {0} /\ DOMAIN walk = 1..Len(walk)
  BY <1>1, EmptySeq, LenProperties
<1>3. Len(walk) \in 1..Len(walk)
  BY <1>2
<1>4. Top \in Frame
  BY <1>1, <1>3, ElementOfSeq DEF Top
<1>5. QED
  BY <1>1, <1>2, <1>3, <1>4 DEF WalkOK, Top, Frame, Idle

LEMMA FieldReplaced ==
  ASSUME NEW frame, NEW names, DOMAIN frame = {"dir", "old", "new"}
  PROVE  /\ [frame EXCEPT !.old = names] = [dir |-> frame.dir, old |-> names, new |-> frame.new]
         /\ [frame EXCEPT !.new = names] = [dir |-> frame.dir, old |-> frame.old, new |-> names]
OBVIOUS

LEMMA NextFacts ==
  ASSUME WalkOK, Merging
  PROVE  /\ NextOld(walk) = WithTop(Tail(Top.old), Top.new)
         /\ NextNew(walk) = WithTop(Top.old, Tail(Top.new))
         /\ NextOld(NextNew(walk)) = WithTop(Tail(Top.old), Tail(Top.new))
<1> DEFINE l == Len(walk)
<1>1. walk \in Seq(Frame) /\ l \in DOMAIN walk /\ l \in 1..l /\ Top \in Frame /\ Top = walk[l]
  BY TopFacts DEF WalkOK, Top
<1>2. ASSUME NEW frame \in Frame
      PROVE  /\ [frame EXCEPT !.old = Tail(@)] = [dir |-> frame.dir, old |-> Tail(frame.old), new |-> frame.new]
             /\ [frame EXCEPT !.new = Tail(@)] = [dir |-> frame.dir, old |-> frame.old, new |-> Tail(frame.new)]
  <2>1. DOMAIN frame = {"dir", "old", "new"}
    BY DEF Frame
  <2>2. /\ [frame EXCEPT !.old = Tail(@)] = [frame EXCEPT !.old = Tail(frame.old)]
        /\ [frame EXCEPT !.new = Tail(@)] = [frame EXCEPT !.new = Tail(frame.new)]
    OBVIOUS
  <2>3. QED
    BY <2>1, <2>2, FieldReplaced
<1>3. NextOld(walk) = [walk EXCEPT ![l] = [walk[l] EXCEPT !.old = Tail(@)]]
  BY DEF NextOld
<1>4. NextNew(walk) = [walk EXCEPT ![l] = [walk[l] EXCEPT !.new = Tail(@)]]
  BY DEF NextNew
<1>5. NextOld(walk) = WithTop(Tail(Top.old), Top.new)
  BY <1>1, <1>2, <1>3 DEF WithTop
<1>6. NextNew(walk) = WithTop(Top.old, Tail(Top.new))
  BY <1>1, <1>2, <1>4 DEF WithTop
<1>7. NextOld(NextNew(walk)) = WithTop(Tail(Top.old), Tail(Top.new))
  <2> DEFINE frame == [dir |-> Top.dir, old |-> Top.old, new |-> Tail(Top.new)]
             w == [walk EXCEPT ![l] = frame]
             next == [dir |-> Top.dir, old |-> Tail(Top.old), new |-> Tail(Top.new)]
  <2>1. NextNew(walk) = w
    BY <1>6 DEF WithTop
  <2>2. DOMAIN w = DOMAIN walk /\ w[l] = frame /\ \A i \in DOMAIN walk : i # l => w[i] = walk[i]
    BY <1>1
  <2>3. Len(w) = l
    <3>1. DOMAIN w = 1..l /\ l \in Nat
      BY <2>2, TopFacts
    <3>2. QED
      BY <3>1
  <2>4. [frame EXCEPT !.old = Tail(@)] = next
    <3>1. frame.dir = Top.dir /\ frame.old = Top.old /\ frame.new = Tail(Top.new)
      OBVIOUS
    <3>2. DOMAIN frame = {"dir", "old", "new"}
      OBVIOUS
    <3> HIDE DEF frame
    <3>3. [frame EXCEPT !.old = Tail(@)] = [frame EXCEPT !.old = Tail(frame.old)]
      OBVIOUS
    <3>4. [frame EXCEPT !.old = Tail(frame.old)]
            = [dir |-> frame.dir, old |-> Tail(frame.old), new |-> frame.new]
      BY <3>2, FieldReplaced
    <3>5. QED
      BY <3>1, <3>3, <3>4
  <2>5. NextOld(w) = [w EXCEPT ![l] = next]
    BY <2>2, <2>3, <2>4, <1>1 DEF NextOld
  <2>6. [w EXCEPT ![l] = next] = [walk EXCEPT ![l] = next]
    <3> HIDE DEF frame, next
    <3> QED
      BY <1>1
  <2>7. QED
    BY <2>1, <2>5, <2>6 DEF WithTop
<1>8. QED
  BY <1>5, <1>6, <1>7

LEMMA MergeFacts ==
  ASSUME WalkOK, Merging
  PROVE  /\ OldFirst => Taken(Head(Top.old), Tail(Top.old), Top.new)
                        /\ Has(Top.old, Head(Top.old)) /\ ~Has(Top.new, Head(Top.old))
         /\ NewFirst => Taken(Head(Top.new), Top.old, Tail(Top.new))
                        /\ Has(Top.new, Head(Top.new)) /\ ~Has(Top.old, Head(Top.new))
         /\ BothAt => Taken(Head(Top.new), Tail(Top.old), Tail(Top.new))
                      /\ Has(Top.old, Head(Top.new)) /\ Has(Top.new, Head(Top.new))
<1>1. /\ Top.old \in Seq(Int) /\ Top.new \in Seq(Int) /\ Sorted(Top.old) /\ Sorted(Top.new)
  BY TopFacts DEF FrameOK
<1>2. ASSUME Top.old # <<>>
      PROVE  /\ Head(Top.old) \in Int /\ Tail(Top.old) \in Seq(Int) /\ Sorted(Tail(Top.old))
             /\ Has(Top.old, Head(Top.old))
             /\ \A n \in Int : Has(Top.old, n) => Head(Top.old) <= n
             /\ \A n \in Int : Has(Tail(Top.old), n) <=> Has(Top.old, n) /\ n # Head(Top.old)
  BY <1>1, <1>2, TailFacts
<1>3. ASSUME Top.new # <<>>
      PROVE  /\ Head(Top.new) \in Int /\ Tail(Top.new) \in Seq(Int) /\ Sorted(Tail(Top.new))
             /\ Has(Top.new, Head(Top.new))
             /\ \A n \in Int : Has(Top.new, n) => Head(Top.new) <= n
             /\ \A n \in Int : Has(Tail(Top.new), n) <=> Has(Top.new, n) /\ n # Head(Top.new)
  BY <1>1, <1>3, TailFacts
<1>4. Top.old = <<>> => \A n : ~Has(Top.old, n)
  BY DEF Has
<1>5. Top.new = <<>> => \A n : ~Has(Top.new, n)
  BY DEF Has
<1>6. ASSUME OldFirst
      PROVE  Taken(Head(Top.old), Tail(Top.old), Top.new)
             /\ Has(Top.old, Head(Top.old)) /\ ~Has(Top.new, Head(Top.old))
  <2>1. Top.old # <<>>
    BY <1>6 DEF OldFirst
  <2>2. ~Has(Top.new, Head(Top.old))
    <3>1. CASE Top.new = <<>>
      BY <3>1, <1>5
    <3>2. CASE Top.new # <<>>
      <4>1. Head(Top.old) < Head(Top.new)
        BY <1>6, <3>2 DEF OldFirst
      <4>2. QED
        BY <4>1, <3>2, <2>1, <1>2, <1>3
    <3>3. QED
      BY <3>1, <3>2
  <2>3. QED
    BY <2>1, <2>2, <1>1, <1>2 DEF Taken
<1>7. ASSUME NewFirst
      PROVE  Taken(Head(Top.new), Top.old, Tail(Top.new))
             /\ Has(Top.new, Head(Top.new)) /\ ~Has(Top.old, Head(Top.new))
  <2>1. Top.new # <<>>
    BY <1>7 DEF NewFirst
  <2>2. ~Has(Top.old, Head(Top.new))
    <3>1. CASE Top.old = <<>>
      BY <3>1, <1>4
    <3>2. CASE Top.old # <<>>
      <4>1. Head(Top.new) < Head(Top.old)
        BY <1>7, <3>2 DEF NewFirst
      <4>2. QED
        BY <4>1, <3>2, <2>1, <1>2, <1>3
    <3>3. QED
      BY <3>1, <3>2
  <2>3. QED
    BY <2>1, <2>2, <1>1, <1>3 DEF Taken
<1>8. ASSUME BothAt
      PROVE  Taken(Head(Top.new), Tail(Top.old), Tail(Top.new))
             /\ Has(Top.old, Head(Top.new)) /\ Has(Top.new, Head(Top.new))
  <2>1. Top.old # <<>> /\ Top.new # <<>> /\ Head(Top.old) = Head(Top.new)
    BY <1>8 DEF BothAt
  <2>2. QED
    BY <2>1, <1>1, <1>2, <1>3 DEF Taken
<1>9. QED
  BY <1>6, <1>7, <1>8

(* A name is taken from the innermost directory, and its object gone into   *)
(* or not.                                                                  *)
LEMMA MergeWalk ==
  ASSUME Types, WalkOK, Merging, NEW n, NEW old, NEW new, Taken(n, old, new),
         NEW a \in BOOLEAN, NEW b \in BOOLEAN,
         walk' = WithTop(old, new), opening' = Below(Append(Top.dir, n), a, b),
         Calm, spec' = spec, todo' = todo,
         a \/ b => Reaches(spec, Append(Top.dir, n)),
         b => /\ Append(Top.dir, n) \in DOMAIN fs \cup touched
              /\ ~Crosses(spec, Append(Top.dir, n))
  PROVE  /\ WalkOK'
         /\ ToComeAfter(Append(Top.dir, n), a, b)
         /\ \A q \in Name : AtOrAbove(Append(Top.dir, n), q) =>
              /\ OldToCome(walk, opening, q) <=> Has(Top.old, n)
              /\ NewToCome(walk, opening, q) <=> Has(Top.new, n)
<1> DEFINE l == Len(walk)
           p == Append(Top.dir, n)
           frame == [dir |-> Top.dir, old |-> old, new |-> new]
<1>1. /\ walk \in Seq(Frame) /\ walk # <<>> /\ opening = <<>> /\ Nested(walk, <<>>)
      /\ l \in DOMAIN walk /\ DOMAIN walk = 1..l /\ l \in Nat
      /\ Top = walk[l] /\ FrameOK(Top) /\ spec \notin todo /\ Top.dir \in Name
      /\ \A i \in DOMAIN walk : FrameOK(walk[i])
  BY TopFacts DEF WalkOK, Merging, Top
<1>2. /\ n \in Int /\ old \in Seq(Int) /\ new \in Seq(Int) /\ Sorted(old) /\ Sorted(new)
      /\ \A m \in Int : /\ Has(old, m) <=> Has(walk[l].old, m) /\ m # n
                        /\ Has(new, m) <=> Has(walk[l].new, m) /\ m # n
  BY <1>1 DEF Taken
<1>3. walk' = [walk EXCEPT ![l] = frame]
  BY DEF WithTop
<1>4. /\ walk' \in Seq(Frame) /\ opening' \in Seq(Opening) /\ Len(opening') <= 1
      /\ Nested(walk', opening')
      /\ \A q \in Name :
           IF AtOrAbove(p, q)
           THEN /\ OldToCome(walk', opening', q) <=> a /\ p # q
                /\ NewToCome(walk', opening', q) <=> b /\ p # q
                /\ OldToCome(walk, <<>>, q) <=> Has(walk[l].old, n)
                /\ NewToCome(walk, <<>>, q) <=> Has(walk[l].new, n)
           ELSE /\ OldToCome(walk', opening', q) <=> OldToCome(walk, <<>>, q)
                /\ NewToCome(walk', opening', q) <=> NewToCome(walk, <<>>, q)
  <2> DEFINE w2 == [walk EXCEPT ![l] = [dir |-> walk[l].dir, old |-> old, new |-> new]]
             o2 == Below(Append(walk[l].dir, n), a, b)
  <2>1. WithoutName(walk, n, a, b, w2, o2)
    <3>1. walk \in Seq(Frame) /\ walk # <<>> /\ Nested(walk, <<>>)
      BY <1>1
    <3>2. n \in Int /\ old \in Seq(Int) /\ new \in Seq(Int)
      BY <1>2
    <3>3. Without(old, walk[Len(walk)].old, n) /\ Without(new, walk[Len(walk)].new, n)
      BY <1>2 DEF Without
    <3>4. QED
      BY <3>1, <3>2, <3>3, NameTaken
  <2>2. walk' = w2 /\ opening' = o2 /\ Append(walk[l].dir, n) = p
    BY <1>1, <1>3
  <2> HIDE DEF w2, o2, p
  <2>3. QED
    BY <2>1, <2>2 DEF WithoutName
<1>5. ToComeAfter(p, a, b)
  BY <1>1, <1>4 DEF ToComeAfter
<1>6. DOMAIN walk' = DOMAIN walk /\ walk'[l] = frame
      /\ \A i \in DOMAIN walk : i # l => walk'[i] = walk[i]
  BY <1>1, <1>3
<1>8. FrameOK(frame)
  <2>1. frame.dir = Top.dir /\ frame.old = old /\ frame.new = new
    OBVIOUS
  <2>2. \A m \in Int : Has(old, m) => Has(Top.old, m)
    BY <1>1, <1>2
  <2>3. \A m \in Int : Has(new, m) => Has(Top.new, m)
    BY <1>1, <1>2
  <2>4. new # <<>> => Top.new # <<>>
    <3>1. ASSUME new # <<>>
          PROVE  Top.new # <<>>
      <4>1. Has(new, Head(new)) /\ Head(new) \in Int
        BY <3>1, <1>2, TailFacts
      <4>2. QED
        BY <4>1, <2>3 DEF Has
    <3>2. QED
      BY <3>1
  <2> HIDE DEF frame
  <2>5. QED
    BY <1>1, <1>2, <2>1, <2>2, <2>3, <2>4 DEF FrameOK
<1>9. (\A i \in DOMAIN walk : FrameOK(walk[i]))'
  <2>1. \A i \in DOMAIN walk' : FrameOK(walk'[i])
    BY <1>1, <1>6, <1>8
  <2>2. QED
    BY <2>1 DEF FrameOK, Calm
<1>10. (\A i \in DOMAIN opening : OpeningOK(opening[i]))'
  <2>1. CASE a \/ b
    <3> DEFINE r == [dir |-> p, old |-> a, new |-> b]
    <3>1. opening' = <<r>> /\ r.dir = p /\ r.new = b
      BY <2>1 DEF Below
    <3> HIDE DEF r
    <3>2. OpeningOK(r)
      BY <2>1, <3>1 DEF OpeningOK
    <3>3. DOMAIN opening' = {1} /\ opening'[1] = r
      BY <3>1
    <3>4. \A i \in DOMAIN opening' : OpeningOK(opening'[i])
      BY <3>2, <3>3
    <3>5. QED
      BY <3>4 DEF OpeningOK, Calm
  <2>2. CASE ~(a \/ b)
    <3>1. opening' = <<>>
      BY <2>2 DEF Below
    <3>2. QED
      BY <3>1
  <2>3. QED
    BY <2>1, <2>2
<1>11. WalkOK'
  BY <1>1, <1>4, <1>9, <1>10 DEF WalkOK
<1>12. QED
  BY <1>1, <1>4, <1>5, <1>11

(* What the walk has come to was not dealt with yet, nor was what is below. *)
LEMMA TurnHasCome ==
  ASSUME Types, WalkOK, Progress, Merging, NEW n, NEW old, NEW new, Taken(n, old, new),
         Has(Top.old, n) \/ Has(Top.new, n)
  PROVE  /\ Append(Top.dir, n) \in Path
         /\ Has(Top.old, n) => Append(Top.dir, n) \in Entries(was)
         /\ Has(Top.new, n) => /\ Append(Top.dir, n) \in DOMAIN fs \cup touched
                               /\ ~Crosses(spec, Top.dir)
         /\ \A q \in Path : AtOrAbove(Append(Top.dir, n), q) /\ Reaches(spec, q) =>
              /\ Fresh(spec, q)
              /\ Has(Top.old, n) \/ ~HasFCOData(was, q)
              /\ Has(Top.new, n) \/ Gone(spec, q)
<1> DEFINE p == Append(Top.dir, n)
<1>1. /\ walk \in Seq(Frame) /\ walk # <<>> /\ opening = <<>> /\ Nested(walk, <<>>)
      /\ Top = walk[Len(walk)] /\ FrameOK(Top) /\ spec \notin todo /\ Top.dir \in Name
  BY TopFacts DEF WalkOK, Merging, Top
<1>2. /\ n \in Int /\ old \in Seq(Int) /\ new \in Seq(Int)
      /\ Without(old, walk[Len(walk)].old, n) /\ Without(new, walk[Len(walk)].new, n)
  BY <1>1 DEF Taken, Without
<1>3. /\ Has(Top.old, n) => p \in Entries(was)
      /\ Has(Top.new, n) => p \in DOMAIN fs \cup touched
  BY <1>1, <1>2 DEF FrameOK
<1>4. p \in Path
  BY <1>3 DEF Types
<1>5. Has(Top.new, n) => ~Crosses(spec, Top.dir)
  <2>1. Has(Top.new, n) => Top.new # <<>>
    BY DEF Has
  <2>2. QED
    BY <2>1, <1>1 DEF FrameOK
<1>6. ASSUME NEW q \in Path, AtOrAbove(p, q), Reaches(spec, q)
      PROVE  /\ Fresh(spec, q)
             /\ Has(Top.old, n) \/ ~HasFCOData(was, q)
             /\ Has(Top.new, n) \/ Gone(spec, q)
  <2> DEFINE w2 == [walk EXCEPT ![Len(walk)] = [dir |-> walk[Len(walk)].dir, old |-> old, new |-> new]]
             o2 == Below(Append(walk[Len(walk)].dir, n), FALSE, FALSE)
  <2>1. WithoutName(walk, n, FALSE, FALSE, w2, o2)
    BY <1>1, <1>2, NameTaken
  <2>2. q \in Name /\ AtOrAbove(Append(walk[Len(walk)].dir, n), q)
    BY <1>1, <1>6, PathFacts
  <2> HIDE DEF w2, o2
  <2>3. /\ OldToCome(walk, opening, q) <=> Has(Top.old, n)
        /\ NewToCome(walk, opening, q) <=> Has(Top.new, n)
    BY <2>1, <2>2, <1>1 DEF WithoutName
  <2>4. /\ OldDue(spec, q) <=> Has(Top.old, n)
        /\ NewDue(spec, q) <=> Has(Top.new, n)
    BY <2>3 DEF OldDue, NewDue
  <2>5. Status(spec, q) /\ spec \in specs
    BY <1>6 DEF Progress, Types
  <2>6. Awaited(spec, q)
    BY <2>4, <2>5, <1>1 DEF Status
  <2>7. QED
    BY <2>4, <2>6 DEF Awaited
<1>7. QED
  BY <1>3, <1>4, <1>5, <1>6

LEMMA TypesAfter ==
  ASSUME Types, Calm, NEW p, Keeps(p), todo' \subseteq todo, spec' \in specs
  PROVE  Types'
BY DEF Types, Calm, Keeps, Rooted, Entries

(* A step of the merge deals with an object that is reached: it leaves out  *)
(* a side of what is below it only where nothing is there.                  *)
LEMMA MergeStep ==
  ASSUME IInv, Merging, NEW n, NEW old, NEW new, Taken(n, old, new),
         Has(Top.old, n) \/ Has(Top.new, n), NEW s, s = spec,
         NEW p, p = Append(Top.dir, n), Reaches(s, p),
         NEW a \in BOOLEAN, NEW b \in BOOLEAN, NEW said,
         walk' = WithTop(old, new), opening' = Below(p, a, b),
         Calm, spec' = spec, todo' = todo,
         Adds(s, p, said), Keeps(p), Logs(s, p),
         b => p \in DOMAIN fs \cup touched /\ ~Crosses(s, p),
         Has(Top.old, n) => a \/ ~CanDescend(db, p),
         Has(Top.new, n) => b \/ \A q \in Name : Above(p, q) => Gone(s, q)',
         Settles(s, p, said), Suited(p, said),
         \A e \in said : e.new # NoData /\ e.new["type"] = "invalid" =>
           <<e.rule, e.path>> \in errors' \/ e.path \in Mounts
  PROVE  IInv'
<1>1. Types /\ WalkOK /\ Progress /\ Reported /\ Fitting
  BY DEF IInv
<1>2. /\ p \in Path /\ p \in Name
      /\ \A q \in Path : AtOrAbove(p, q) /\ Reaches(s, q) =>
           /\ Fresh(s, q)
           /\ Has(Top.old, n) \/ ~HasFCOData(was, q)
           /\ Has(Top.new, n) \/ Gone(s, q)
  BY <1>1, TurnHasCome, PathFacts
<1>3. EntriesAt(s, p) = {}
  BY <1>2, AtOrAboveOrder DEF Fresh
<1>4. spec \in specs /\ spec \notin todo
  BY <1>1, TopFacts DEF Types
<1>5. WalkOK' /\ ToComeAfter(p, a, b)
  BY <1>1, MergeWalk
<1>6. Types'
  BY <1>1, <1>4, TypesAfter
<1>7. Turn(s, p)
  BY <1>4 DEF Turn
<1>8. ASSUME NEW q \in Path, Above(p, q), Reaches(s, q)
      PROVE  Fresh(s, q) /\ (a \/ ~HasFCOData(was, q)) /\ (b \/ Gone(s, q)')
  <2>1. q \in Name /\ AtOrAbove(p, q)
    BY <1>8, PathFacts DEF Above
  <2>2. Fresh(s, q)
    BY <2>1, <1>2, <1>8
  <2>3. a \/ ~HasFCOData(was, q)
    <3>1. CASE ~Has(Top.old, n)
      BY <3>1, <2>1, <1>2, <1>8
    <3>2. CASE ~CanDescend(db, p)
      <4>1. ~CanDescend(was, p)
        BY <3>2, <1>1 DEF CanDescend, Types
      <4>2. Rooted(was) /\ Entries(was) \subseteq Name \ {<<>>} /\ p # <<>>
        BY <1>1, <1>2, PathFacts DEF Types
      <4>3. q \notin Entries(was)
        BY <4>1, <4>2, <1>2, <1>8, RootedFacts
      <4>4. QED
        BY <4>3 DEF HasFCOData
    <3>3. QED
      BY <3>1, <3>2
  <2>4. b \/ Gone(s, q)'
    <3>1. CASE ~Has(Top.new, n)
      <4>1. Gone(s, q)
        BY <3>1, <2>1, <1>2, <1>8
      <4>2. QED
        BY <4>1, StillExcused DEF Logs
    <3>2. CASE Has(Top.new, n)
      BY <3>2, <2>1, <1>8
    <3>3. QED
      BY <3>1, <3>2
  <2>5. QED
    BY <2>2, <2>3, <2>4
<1>9. Progress'
  BY <1>1, <1>2, <1>3, <1>4, <1>5, <1>7, <1>8, ProgressAfter
<1>10. Reported'
  BY <1>1, <1>2, <1>3, <1>4, ReportedAfter DEF Calm
<1>11. Fitting'
  BY <1>1, <1>2, <1>3, <1>4, FittingAfter
<1>12. QED
  BY <1>5, <1>6, <1>9, <1>10, <1>11 DEF IInv

-----------------------------------------------------------------------------
(* What is done with one object.                                            *)

(* The database is rewritten where it has the object.                       *)
Adjusts(s, p, o) ==
  IF HasFCOData(db, p) THEN db'.data[p] = Adjusted(s, db.data[p], CalcProps(o, s.props))
                       ELSE db' = db

LEMMA RemovedOutcome ==
  ASSUME Types, NEW s, NEW p, ProcessRemovedFCO(s, p)
  PROVE  Adds(s, p, SaidGone(db, s, p)) /\ Keeps(p) /\ db' = db
         /\ opening' = Below(p, CanDescend(db, p), FALSE)
<1>1. report' = report \cup SaidGone(db, s, p)
  BY DEF ProcessRemovedFCO, SaidGone
<1>2. SaidGone(db, s, p) # {} => p \in Path
  BY DEF SaidGone, HasFCOData, Types
<1>3. Adds(s, p, SaidGone(db, s, p))
  <2>1. /\ \A e \in SaidGone(db, s, p) : /\ e.rule = s.start /\ e.path = p
                                        /\ e.kind \in {"added", "removed", "changed"}
        /\ \A e, g \in SaidGone(db, s, p) : e = g
    BY SaidFacts
  <2>2. QED
    BY <1>1, <1>2, <2>1 DEF Adds
<1>4. db' = db /\ opening' = Below(p, CanDescend(db, p), FALSE)
  BY DEF ProcessRemovedFCO
<1>5. Keeps(p)
  BY <1>4 DEF Keeps, Types
<1>6. QED
  BY <1>3, <1>4, <1>5

LEMMA AddedOutcome ==
  ASSUME Types, NEW s, NEW p \in Path, NEW o, ~HasFCOData(db, p), ProcessAddedFCO(s, p, o)
  PROVE  Adds(s, p, SaidOf(db, s, p, o)) /\ Keeps(p) /\ Adjusts(s, p, o)
         /\ opening' = Below(p, FALSE, o.type = "dir")
<1>1. report' = report \cup SaidOf(db, s, p, o)
  BY DEF ProcessAddedFCO, SaidOf
<1>2. Adds(s, p, SaidOf(db, s, p, o))
  BY <1>1, SaidFacts DEF Adds
<1>3. QED
  BY <1>2 DEF ProcessAddedFCO, Keeps, Adjusts, Types

LEMMA ChangedOutcome ==
  ASSUME Types, NEW s, NEW p \in Path, p \in Entries(db), NEW o, ProcessChangedFCO(s, p, o)
  PROVE  Adds(s, p, SaidOf(db, s, p, o)) /\ Keeps(p) /\ Adjusts(s, p, o)
         /\ opening' = Below(p, CanDescend(db, p), o.type = "dir")
<1>1. report' = report \cup SaidOf(db, s, p, o)
  BY DEF ProcessChangedFCO, CompareAndAdjust, SaidOf
<1>2. Adds(s, p, SaidOf(db, s, p, o))
  BY <1>1, SaidFacts DEF Adds
<1>3. Keeps(p) /\ Adjusts(s, p, o)
  <2>1. CASE ~HasFCOData(db, p)
    BY <2>1 DEF ProcessChangedFCO, Keeps, Adjusts, Types
  <2>2. CASE HasFCOData(db, p)
    <3>1. PICK adjusted : /\ db' = SetFCOData(db, p, adjusted)
                          /\ adjusted = Adjusted(s, db.data[p], CalcProps(o, s.props))
      BY <2>2 DEF ProcessChangedFCO, CompareAndAdjust
    <3>2. DOMAIN db = {"data", "arrays"}
      BY DEF Types
    <3>3. /\ DOMAIN db' = {"data", "arrays"} /\ db'.arrays = db.arrays
          /\ db'.data = [db.data EXCEPT ![p] = adjusted]
      BY <3>1, <3>2 DEF SetFCOData
    <3>4. QED
      BY <2>2, <3>1, <3>3 DEF Keeps, Adjusts, Entries
  <2>3. QED
    BY <2>1, <2>2
<1>4. QED
  BY <1>2, <1>3 DEF ProcessChangedFCO

(* What is said of an object that is gone, or that was looked at, is then   *)
(* what there is to say of it, and the database has it as it should.        *)
LEMMA GoneSettles ==
  ASSUME Types, Calm, NEW s \in specs, NEW p, p \in Path => Fresh(s, p), db' = db,
         p \notin touched /\ ~Excused(s, p)' => ~Seen(fs, s, p)
  PROVE  Settles(s, p, SaidGone(db, s, p)) /\ Suited(p, SaidGone(db, s, p))
<1>1. /\ Entries(db) = Entries(was) /\ Entries(was) \subseteq Path
      /\ p \in Entries(was) => db.data[p] = was.data[p]
      /\ HasFCOData(db, p) <=> HasFCOData(was, p)
  BY DEF Types, Fresh, HasFCOData
<1>2. Settles(s, p, SaidGone(db, s, p))
  <2> SUFFICES ASSUME p \in Path \ touched, ~Excused(s, p)'
               PROVE  SaidGone(db, s, p) = Expected(fs, was, s, p) /\ RightFco(s, p)'
    BY DEF Settles
  <2>1. ~Seen(fs, s, p)
    OBVIOUS
  <2>2. SaidGone(db, s, p) = Expected(fs, was, s, p)
    BY <1>1, <2>1, SaidAsExpected
  <2>3. HasFCOData(was, p) => db.data[p] = was.data[p]
    BY <1>1 DEF HasFCOData
  <2>4. QED
    BY <2>1, <2>2, <2>3 DEF RightFco, Calm
<1>3. \A e \in SaidGone(db, s, p) : Suits(e)'
  BY <1>1, EntryFacts DEF SaidGone, Removed, Suits, Calm
<1>4. QED
  BY <1>1, <1>2, <1>3 DEF Suited, Adapted, Calm

LEMMA LookedSettles ==
  ASSUME Types, Calm, NEW s \in specs, NEW p \in Path, Fresh(s, p),
         NEW o \in Object \cup {InvalidObject}, Adjusts(s, p, o),
         p \notin touched /\ ~Excused(s, p)' => Seen(fs, s, p) /\ o = InitializeTypeInfo(fs, s, p)
  PROVE  Settles(s, p, SaidOf(db, s, p, o)) /\ Suited(p, SaidOf(db, s, p, o))
<1>1. /\ Entries(db) = Entries(was)
      /\ p \in Entries(was) => db.data[p] = was.data[p]
      /\ HasFCOData(db, p) <=> HasFCOData(was, p)
  BY DEF Types, Fresh, HasFCOData
<1>2. HasFCOData(was, p) => p \in Entries(was)
  BY DEF HasFCOData
<1>3. HasFCOData(was, p) => db'.data[p] = Adjusted(s, was.data[p], CalcProps(o, s.props))
  BY <1>1, <1>2 DEF Adjusts
<1>4. Settles(s, p, SaidOf(db, s, p, o))
  <2> SUFFICES ASSUME p \in Path \ touched, ~Excused(s, p)'
               PROVE  SaidOf(db, s, p, o) = Expected(fs, was, s, p) /\ RightFco(s, p)'
    BY DEF Settles
  <2>1. Seen(fs, s, p) /\ o = InitializeTypeInfo(fs, s, p)
    OBVIOUS
  <2>2. SaidOf(db, s, p, InitializeTypeInfo(fs, s, p)) = Expected(fs, was, s, p)
    BY <1>1, <2>1, SaidAsExpected
  <2>3. CalcProps(o, s.props) = FcoOf(fs, s, p)
    BY <2>1 DEF FcoOf
  <2>4. QED
    BY <1>3, <2>1, <2>2, <2>3 DEF RightFco, Calm
<1>5. \A e \in SaidOf(db, s, p, o) : Suits(e)'
  <2> SUFFICES ASSUME NEW e \in SaidOf(db, s, p, o)
               PROVE  Suits(e)'
    OBVIOUS
  <2>1. CASE ~HasFCOData(was, p)
    <3>1. e = Added(s, p, CalcProps(o, s.props))
      BY <1>1, <2>1 DEF SaidOf
    <3>2. e.kind = "added" /\ e.path = p /\ e.new = CalcProps(o, s.props)
      BY <3>1 DEF Added, Entry
    <3>3. QED
      BY <2>1, <3>2 DEF Suits, Calm
  <2>2. CASE HasFCOData(was, p)
    <3>1. PICK new, props : /\ e = Entry(s, "changed", p, Adjusted(s, db.data[p], new), new, props)
                            /\ new = CalcProps(o, s.props)
      BY <1>1, <2>2 DEF SaidOf
    <3>2. /\ e.kind = "changed" /\ e.path = p /\ e.new = CalcProps(o, s.props)
          /\ e.old = Adjusted(s, db.data[p], CalcProps(o, s.props))
      BY <3>1 DEF Entry
    <3>3. e.old = db'.data[p]
      BY <1>1, <1>2, <1>3, <2>2, <3>2
    <3>4. QED
      BY <2>2, <3>2, <3>3 DEF Suits, Calm
  <2>3. QED
    BY <2>1, <2>2
<1>6. p \in Entries(was) => Adapted(p)'
  <2>1. CASE HasFCOData(was, p)
    BY <1>3, <2>1 DEF Adapted, Calm
  <2>2. CASE ~HasFCOData(was, p)
    BY <1>1, <2>2 DEF Adapted, Adjusts, Calm
  <2>3. QED
    BY <2>1, <2>2
<1>7. QED
  BY <1>4, <1>5, <1>6 DEF Suited

(* What looking at the object at p can find.                                *)
LEMMA LookedFacts ==
  ASSUME Types, NEW s \in specs, NEW p \in Name, p # <<>>, Reaches(s, p),
         NEW works \in BOOLEAN, LogError(s, p, works /\ p \in DOMAIN fs), Calm,
         NEW o, o = Look(s, p, works)
  PROVE  /\ Logs(s, p)
         /\ o.type = "dir" => p \in DOMAIN fs /\ ~Crosses(s, p)
         /\ o.type = "dir" \/ \A q \in Name : Above(p, q) => Gone(s, q)'
         /\ p \in DOMAIN fs /\ ~Excused(s, p)' => o = InitializeTypeInfo(fs, s, p)
         /\ p \notin DOMAIN fs => o = InvalidObject
         /\ o # InvalidObject => p \in DOMAIN fs
         /\ o.type = "invalid" => <<s.start, p>> \in errors' \/ Crosses(s, p)
         /\ o \in Object \cup {InvalidObject}
<1>1. /\ Path \subseteq Name \ {<<>>} /\ s.start \in Name /\ AtOrAbove(s.start, p)
      /\ DOMAIN fs \subseteq Path /\ IsTree(fs) /\ \A q \in DOMAIN fs : fs[q] \in Object
  BY PathFacts, SpecsFacts DEF Types, Reaches
<1>2. Logs(s, p)
  BY DEF Logs, LogError
<1>3. (works /\ p \in DOMAIN fs) \/ <<s.start, p>> \in errors'
  BY DEF LogError
<1>4. ASSUME NEW q \in Name, AtOrAbove(p, q), p \in DOMAIN fs, ~works
      PROVE  Excused(s, q)'
  BY <1>1, <1>3, <1>4 DEF Excused, Calm
<1>5. InvalidObject.type = "invalid"
  BY DEF InvalidObject
<1>6. p \in DOMAIN fs => fs[p].type \in {"file", "dir"}
  BY <1>1 DEF Object
<1>7. o = IF works /\ p \in DOMAIN fs /\ ~Crosses(s, p) THEN fs[p] ELSE InvalidObject
  BY DEF Look, InitializeTypeInfo
<1>8. o.type = "dir" => p \in DOMAIN fs /\ ~Crosses(s, p)
  BY <1>5, <1>7
<1>9. ASSUME o.type # "dir", NEW q \in Name, Above(p, q)
      PROVE  Gone(s, q)'
  <2>1. CASE p \in DOMAIN fs /\ ~works
    <3>1. Excused(s, q)'
      BY <2>1, <1>4, <1>9 DEF Above
    <3>2. QED
      BY <3>1 DEF Gone
  <2>2. CASE ~(p \in DOMAIN fs /\ ~works)
    <3>1. ~IsDir(fs, p) \/ Crosses(s, p)
      BY <2>2, <1>7, <1>9 DEF IsDir
    <3>2. ~Seen(fs, s, q)
      BY <3>1, <1>1, <1>9, NotSeenBelow
    <3>3. Seen(fs, s, q)' = Seen(fs, s, q)
      BY DEF Calm, Seen
    <3>4. QED
      BY <3>2, <3>3 DEF Gone
  <2>3. QED
    BY <2>1, <2>2
<1>10. ASSUME p \in DOMAIN fs, ~Excused(s, p)'
       PROVE  o = InitializeTypeInfo(fs, s, p)
  <2>1. works
    BY <1>4, <1>10, AtOrAboveOrder
  <2>2. QED
    BY <2>1, <1>7 DEF InitializeTypeInfo
<1>11. o.type = "invalid" => <<s.start, p>> \in errors' \/ Crosses(s, p)
  BY <1>3, <1>6, <1>7
<1>12. o \in Object \cup {InvalidObject}
  BY <1>1, <1>7
<1>13. QED
  BY <1>2, <1>7, <1>8, <1>9, <1>10, <1>11, <1>12

(* An object that could not be looked at is reported with an error, or is a *)
(* mount point.                                                             *)
LEMMA PhantomSaid ==
  ASSUME Types, NEW s \in specs, NEW p \in Name, p # <<>>, NEW o,
         o.type = "invalid" => <<s.start, p>> \in errors' \/ Crosses(s, p),
         p = s.start \/ ~Crosses(s, Front(p))
  PROVE  \A e \in SaidOf(db, s, p, o) : e.new["type"] = "invalid" =>
           <<e.rule, e.path>> \in errors' \/ e.path \in Mounts
<1>1. s.start \in Name /\ "type" \in s.props
  BY SpecsFacts
<1>2. Crosses(s, p) => p \in Mounts
  BY <1>1, CrossesFacts
<1>3. CalcProps(o, s.props)["type"] = o.type
  BY <1>1, TypeOfObject
<1>4. QED
  BY <1>2, <1>3, SaidFacts

-----------------------------------------------------------------------------
(* The steps.                                                               *)

LEMMA RemovedObjectKeeps == IInv /\ RemovedObject => IInv'
<1>0. SUFFICES ASSUME IInv, RemovedObject, NEW s, s = spec, NEW n, n = Head(Top.old),
                    NEW p, p = Append(Top.dir, n), NEW said, said = SaidGone(db, s, p)
             PROVE  IInv'
  OBVIOUS
<1>1. IInv /\ Types /\ WalkOK /\ Progress /\ Reported /\ Merging /\ OldFirst
  BY <1>0 DEF IInv, RemovedObject
<1>2. Taken(n, Tail(Top.old), Top.new) /\ Has(Top.old, n) /\ ~Has(Top.new, n)
  BY <1>0, <1>1, MergeFacts
<1>3. /\ walk' = WithTop(Tail(Top.old), Top.new) /\ ~ShouldStopDescent(s, p)
      /\ ProcessRemovedFCO(s, p) /\ Calm /\ spec' = spec /\ todo' = todo /\ errors' = errors
  BY <1>0, <1>1, NextFacts DEF RemovedObject, OldName, Calm
<1>4. s \in specs /\ s.start \in Name /\ Top.dir \in Name /\ n \in Int
      /\ Reaches(s, Top.dir)
  BY <1>0, <1>1, <1>2, TopFacts, SpecsFacts DEF Types, Taken, FrameOK
<1>5. Reaches(s, p)
  BY <1>0, <1>3, <1>4, ReachesChild
<1>6. /\ p \in Path
      /\ \A q \in Path : AtOrAbove(p, q) /\ Reaches(s, q) =>
           Fresh(s, q) /\ Gone(s, q)
  BY <1>0, <1>1, <1>2, TurnHasCome
<1>7. p \in Name /\ AtOrAbove(p, p)
  BY <1>6, PathFacts, AtOrAboveOrder
<1>8. /\ Adds(s, p, said) /\ Keeps(p) /\ db' = db
      /\ opening' = Below(p, CanDescend(db, p), FALSE)
  <2>1. Types /\ ProcessRemovedFCO(s, p)
    BY <1>1, <1>3
  <2>2. Adds(s, p, SaidGone(db, s, p)) /\ Keeps(p) /\ db' = db
        /\ opening' = Below(p, CanDescend(db, p), FALSE)
    BY <2>1, RemovedOutcome
  <2>3. QED
    BY <2>2, <1>0
<1>9. Settles(s, p, said) /\ Suited(p, said)
  <2>1. Fresh(s, p) /\ Gone(s, p)
    BY <1>5, <1>6, <1>7
  <2>2. p \notin touched /\ ~Excused(s, p)' => ~Seen(fs, s, p)
    <3>1. errors \subseteq errors' /\ Calm
      BY <1>3
    <3>2. QED
      BY <2>1, <3>1, StillExcused DEF Gone
  <2>3. Types /\ Calm /\ s \in specs /\ db' = db
    BY <1>1, <1>3, <1>4, <1>8
  <2>4. Settles(s, p, SaidGone(db, s, p)) /\ Suited(p, SaidGone(db, s, p))
    BY <2>1, <2>2, <2>3, GoneSettles
  <2>5. QED
    BY <2>4, <1>0
<1>10. \A e \in said : e.new = NoData
  <2>1. \A e \in SaidGone(db, s, p) : e.new = NoData
    BY SaidFacts
  <2>2. QED
    BY <2>1, <1>0
<1>11. Logs(s, p)
  BY <1>3 DEF Logs
<1>12. CanDescend(db, p) \in BOOLEAN
  BY DEF CanDescend
<1>14. QED
  <2>0. s = spec /\ p = Append(Top.dir, n)
    BY <1>0
  <2>1. IInv /\ Merging /\ Taken(n, Tail(Top.old), Top.new) /\ Reaches(s, p)
    BY <1>1, <1>2, <1>5
  <2>2. walk' = WithTop(Tail(Top.old), Top.new) /\ opening' = Below(p, CanDescend(db, p), FALSE)
    BY <1>3, <1>8
  <2>3. Calm /\ spec' = spec /\ todo' = todo
    BY <1>3
  <2>4. Adds(s, p, said) /\ Keeps(p) /\ Logs(s, p)
    BY <1>8, <1>11
  <2>5. FALSE \in BOOLEAN
    OBVIOUS
  <2>6. \A e \in said : e.new # NoData /\ e.new["type"] = "invalid" =>
          <<e.rule, e.path>> \in errors' \/ e.path \in Mounts
    BY <1>10
  <2>7. Settles(s, p, said) /\ Suited(p, said)
    BY <1>9
  <2>8. QED
    BY <2>1, <2>2, <2>3, <2>4, <2>5, <2>6, <2>7, <1>2, <1>12, <2>0, MergeStep

LEMMA AddedObjectKeeps == \A works \in BOOLEAN : IInv /\ AddedObject(works) => IInv'
<1>0. SUFFICES ASSUME NEW works \in BOOLEAN, IInv, AddedObject(works),
                    NEW s, s = spec, NEW n, n = Head(Top.new), NEW p, p = Append(Top.dir, n),
                    NEW o, o = Look(s, p, works), NEW said, said = SaidOf(db, s, p, o)
             PROVE  IInv'
  OBVIOUS
<1>1. IInv /\ Types /\ WalkOK /\ Progress /\ Reported /\ Merging /\ NewFirst
  BY <1>0 DEF IInv, AddedObject
<1>2. Taken(n, Top.old, Tail(Top.new)) /\ Has(Top.new, n) /\ ~Has(Top.old, n)
  BY <1>0, <1>1, MergeFacts
<1>3. /\ walk' = WithTop(Top.old, Tail(Top.new)) /\ ~ShouldStopDescent(s, p)
      /\ ProcessAddedFCO(s, p, o) /\ Calm /\ spec' = spec /\ todo' = todo
      /\ LogError(s, p, works /\ p \in DOMAIN fs)
  BY <1>0, <1>1, NextFacts DEF AddedObject, NewName, Calm, Call
<1>4. s \in specs /\ s.start \in Name /\ Top.dir \in Name /\ n \in Int
      /\ Reaches(s, Top.dir)
  BY <1>0, <1>1, <1>2, TopFacts, SpecsFacts DEF Types, Taken, FrameOK
<1>5. Reaches(s, p)
  BY <1>0, <1>3, <1>4, ReachesChild
<1>6. /\ p \in Path /\ p \in DOMAIN fs \cup touched /\ ~Crosses(s, Top.dir)
      /\ \A q \in Path : AtOrAbove(p, q) /\ Reaches(s, q) =>
           Fresh(s, q) /\ ~HasFCOData(was, q)
  BY <1>0, <1>1, <1>2, TurnHasCome
<1>7. p \in Name /\ p # <<>> /\ AtOrAbove(p, p) /\ Front(p) = Top.dir
  BY <1>0, <1>4, <1>6, PathFacts, AtOrAboveOrder, ChildFacts
<1>8. Fresh(s, p) /\ ~HasFCOData(db, p)
  BY <1>1, <1>5, <1>6, <1>7 DEF HasFCOData, Fresh, Types
<1>9. /\ Adds(s, p, said) /\ Keeps(p) /\ Adjusts(s, p, o)
      /\ opening' = Below(p, FALSE, o.type = "dir")
  <2>1. Types /\ p \in Path /\ ~HasFCOData(db, p) /\ ProcessAddedFCO(s, p, o)
    BY <1>1, <1>3, <1>6, <1>8
  <2>2. Adds(s, p, SaidOf(db, s, p, o)) /\ Keeps(p) /\ Adjusts(s, p, o)
        /\ opening' = Below(p, FALSE, o.type = "dir")
    BY <2>1, AddedOutcome
  <2>3. QED
    BY <2>2, <1>0
<1>10. /\ Logs(s, p)
       /\ o.type = "dir" => p \in DOMAIN fs /\ ~Crosses(s, p)
       /\ o.type = "dir" \/ \A q \in Name : Above(p, q) => Gone(s, q)'
       /\ p \in DOMAIN fs /\ ~Excused(s, p)' => o = InitializeTypeInfo(fs, s, p)
       /\ o.type = "invalid" => <<s.start, p>> \in errors' \/ Crosses(s, p)
       /\ o \in Object \cup {InvalidObject}
  <2>1. LogError(s, p, works /\ p \in DOMAIN fs) /\ Calm /\ o = Look(s, p, works)
    BY <1>0, <1>3
  <2>2. works \in BOOLEAN /\ Types /\ s \in specs /\ Reaches(s, p) /\ p \in Name /\ p # <<>>
    BY <1>0, <1>1, <1>4, <1>5, <1>7
  <2>3. QED
    BY <2>1, <2>2, LookedFacts
<1>11. Settles(s, p, said) /\ Suited(p, said)
  <2>1. p \notin touched /\ ~Excused(s, p)' => Seen(fs, s, p) /\ o = InitializeTypeInfo(fs, s, p)
    BY <1>6, <1>7, <1>10 DEF Seen
  <2>2. /\ Types /\ Calm /\ s \in specs /\ p \in Path /\ Fresh(s, p) /\ Adjusts(s, p, o)
        /\ o \in Object \cup {InvalidObject}
    BY <1>1, <1>3, <1>4, <1>6, <1>8, <1>9, <1>10
  <2>3. Settles(s, p, SaidOf(db, s, p, o)) /\ Suited(p, SaidOf(db, s, p, o))
    BY <2>1, <2>2, LookedSettles
  <2>4. QED
    BY <2>3, <1>0
<1>12. \A e \in said : e.new["type"] = "invalid" =>
         <<e.rule, e.path>> \in errors' \/ e.path \in Mounts
  <2>1. \A e \in SaidOf(db, s, p, o) : e.new["type"] = "invalid" =>
          <<e.rule, e.path>> \in errors' \/ e.path \in Mounts
    BY <1>1, <1>4, <1>6, <1>7, <1>10, PhantomSaid
  <2>2. QED
    BY <2>1, <1>0
<1>14. (o.type = "dir") \in BOOLEAN
  OBVIOUS
<1>15. QED
  <2>0. s = spec /\ p = Append(Top.dir, n)
    BY <1>0
  <2>1. IInv /\ Merging /\ Taken(n, Top.old, Tail(Top.new)) /\ Reaches(s, p)
    BY <1>1, <1>2, <1>5
  <2>2. walk' = WithTop(Top.old, Tail(Top.new)) /\ opening' = Below(p, FALSE, o.type = "dir")
    BY <1>3, <1>9
  <2>3. Calm /\ spec' = spec /\ todo' = todo
    BY <1>3
  <2>4. Adds(s, p, said) /\ Keeps(p) /\ Logs(s, p)
    BY <1>9, <1>10
  <2>5. o.type = "dir" => p \in DOMAIN fs \cup touched /\ ~Crosses(s, p)
    BY <1>10
  <2>6. \A e \in said : e.new # NoData /\ e.new["type"] = "invalid" =>
          <<e.rule, e.path>> \in errors' \/ e.path \in Mounts
    BY <1>12
  <2>7. Settles(s, p, said) /\ Suited(p, said)
    BY <1>11
  <2>8. Has(Top.new, n) => o.type = "dir" \/ \A q \in Name : Above(p, q) => Gone(s, q)'
    BY <1>10
  <2>9. QED
    BY <2>1, <2>2, <2>3, <2>4, <2>5, <2>6, <2>7, <2>8, <1>2, <1>14, <2>0, MergeStep

LEMMA ComparedObjectKeeps == \A works \in BOOLEAN : IInv /\ ComparedObject(works) => IInv'
<1>0. SUFFICES ASSUME NEW works \in BOOLEAN, IInv, ComparedObject(works),
                    NEW s, s = spec, NEW n, n = Head(Top.new), NEW p, p = Append(Top.dir, n),
                    NEW o, o = Look(s, p, works), NEW said, said = SaidOf(db, s, p, o)
             PROVE  IInv'
  OBVIOUS
<1>1. IInv /\ Types /\ WalkOK /\ Progress /\ Reported /\ Merging /\ BothAt
  BY <1>0 DEF IInv, ComparedObject
<1>2. Taken(n, Tail(Top.old), Tail(Top.new)) /\ Has(Top.old, n) /\ Has(Top.new, n)
  BY <1>0, <1>1, MergeFacts
<1>3. /\ walk' = WithTop(Tail(Top.old), Tail(Top.new)) /\ ~ShouldStopDescent(s, p)
      /\ ProcessChangedFCO(s, p, o) /\ Calm /\ spec' = spec /\ todo' = todo
      /\ LogError(s, p, works /\ p \in DOMAIN fs)
  BY <1>0, <1>1, NextFacts DEF ComparedObject, NewName, Calm, Call
<1>4. s \in specs /\ s.start \in Name /\ Top.dir \in Name /\ n \in Int
      /\ Reaches(s, Top.dir)
  BY <1>0, <1>1, <1>2, TopFacts, SpecsFacts DEF Types, Taken, FrameOK
<1>5. Reaches(s, p)
  BY <1>0, <1>3, <1>4, ReachesChild
<1>6. /\ p \in Path /\ p \in DOMAIN fs \cup touched /\ ~Crosses(s, Top.dir)
      /\ p \in Entries(was)
      /\ \A q \in Path : AtOrAbove(p, q) /\ Reaches(s, q) => Fresh(s, q)
  BY <1>0, <1>1, <1>2, TurnHasCome
<1>7. p \in Name /\ p # <<>> /\ AtOrAbove(p, p) /\ Front(p) = Top.dir
  BY <1>0, <1>4, <1>6, PathFacts, AtOrAboveOrder, ChildFacts
<1>8. Fresh(s, p) /\ p \in Entries(db)
  BY <1>1, <1>5, <1>6, <1>7 DEF Types
<1>9. /\ Adds(s, p, said) /\ Keeps(p) /\ Adjusts(s, p, o)
      /\ opening' = Below(p, CanDescend(db, p), o.type = "dir")
  <2>1. Types /\ p \in Path /\ p \in Entries(db) /\ ProcessChangedFCO(s, p, o)
    BY <1>1, <1>3, <1>6, <1>8
  <2>2. Adds(s, p, SaidOf(db, s, p, o)) /\ Keeps(p) /\ Adjusts(s, p, o)
        /\ opening' = Below(p, CanDescend(db, p), o.type = "dir")
    BY <2>1, ChangedOutcome
  <2>3. QED
    BY <2>2, <1>0
<1>10. /\ Logs(s, p)
       /\ o.type = "dir" => p \in DOMAIN fs /\ ~Crosses(s, p)
       /\ o.type = "dir" \/ \A q \in Name : Above(p, q) => Gone(s, q)'
       /\ p \in DOMAIN fs /\ ~Excused(s, p)' => o = InitializeTypeInfo(fs, s, p)
       /\ o.type = "invalid" => <<s.start, p>> \in errors' \/ Crosses(s, p)
       /\ o \in Object \cup {InvalidObject}
  <2>1. LogError(s, p, works /\ p \in DOMAIN fs) /\ Calm /\ o = Look(s, p, works)
    BY <1>0, <1>3
  <2>2. works \in BOOLEAN /\ Types /\ s \in specs /\ Reaches(s, p) /\ p \in Name /\ p # <<>>
    BY <1>0, <1>1, <1>4, <1>5, <1>7
  <2>3. QED
    BY <2>1, <2>2, LookedFacts
<1>11. Settles(s, p, said) /\ Suited(p, said)
  <2>1. p \notin touched /\ ~Excused(s, p)' => Seen(fs, s, p) /\ o = InitializeTypeInfo(fs, s, p)
    BY <1>6, <1>7, <1>10 DEF Seen
  <2>2. /\ Types /\ Calm /\ s \in specs /\ p \in Path /\ Fresh(s, p) /\ Adjusts(s, p, o)
        /\ o \in Object \cup {InvalidObject}
    BY <1>1, <1>3, <1>4, <1>6, <1>8, <1>9, <1>10
  <2>3. Settles(s, p, SaidOf(db, s, p, o)) /\ Suited(p, SaidOf(db, s, p, o))
    BY <2>1, <2>2, LookedSettles
  <2>4. QED
    BY <2>3, <1>0
<1>12. \A e \in said : e.new["type"] = "invalid" =>
         <<e.rule, e.path>> \in errors' \/ e.path \in Mounts
  <2>1. \A e \in SaidOf(db, s, p, o) : e.new["type"] = "invalid" =>
          <<e.rule, e.path>> \in errors' \/ e.path \in Mounts
    BY <1>1, <1>4, <1>6, <1>7, <1>10, PhantomSaid
  <2>2. QED
    BY <2>1, <1>0
<1>14. (o.type = "dir") \in BOOLEAN /\ CanDescend(db, p) \in BOOLEAN
  BY DEF CanDescend
<1>15. QED
  <2>0. s = spec /\ p = Append(Top.dir, n)
    BY <1>0
  <2>1. IInv /\ Merging /\ Taken(n, Tail(Top.old), Tail(Top.new)) /\ Reaches(s, p)
    BY <1>1, <1>2, <1>5
  <2>2. walk' = WithTop(Tail(Top.old), Tail(Top.new)) /\ opening' = Below(p, CanDescend(db, p), o.type = "dir")
    BY <1>3, <1>9
  <2>3. Calm /\ spec' = spec /\ todo' = todo
    BY <1>3
  <2>4. Adds(s, p, said) /\ Keeps(p) /\ Logs(s, p)
    BY <1>9, <1>10
  <2>5. o.type = "dir" => p \in DOMAIN fs \cup touched /\ ~Crosses(s, p)
    BY <1>10
  <2>6. \A e \in said : e.new # NoData /\ e.new["type"] = "invalid" =>
          <<e.rule, e.path>> \in errors' \/ e.path \in Mounts
    BY <1>12
  <2>7. Settles(s, p, said) /\ Suited(p, said)
    BY <1>11
  <2>8. Has(Top.new, n) => o.type = "dir" \/ \A q \in Name : Above(p, q) => Gone(s, q)'
    BY <1>10
  <2>9. Has(Top.old, n) /\ (CanDescend(db, p) \/ ~CanDescend(db, p))
    BY <1>2
  <2>10. QED
    BY <2>1, <2>2, <2>3, <2>4, <2>5, <2>6, <2>7, <2>8, <2>9, <1>14, <2>0, MergeStep

LEMMA StartWalk ==
  ASSUME Idle, Calm, NEW s, spec' = s, s \notin todo', NEW p \in Name, Reaches(s, p),
         NEW a \in BOOLEAN, NEW b \in BOOLEAN, walk' = walk, opening' = Below(p, a, b),
         b => p \in DOMAIN fs /\ ~Crosses(s, p)
  PROVE  WalkOK' /\ ToComeAfter(p, a, b)
<1> DEFINE r == [dir |-> p, old |-> a, new |-> b]
<1>1. walk = <<>> /\ walk' = <<>> /\ opening = <<>> /\ DOMAIN walk' = {}
  BY DEF Idle
<1>2. \/ (a \/ b) /\ opening' = <<r>>
      \/ ~a /\ ~b /\ opening' = <<>>
  BY DEF Below
<1>3. r \in Opening /\ r.dir = p /\ r.old = a /\ r.new = b
  BY DEF Opening
<1> HIDE DEF r
<1>4. <<r>> \in Seq(Opening) /\ Len(<<r>>) <= 1 /\ DOMAIN <<r>> = {1} /\ <<r>>[1] = r
      /\ <<>> \in Seq(Opening) /\ Len(<<>>) <= 1 /\ DOMAIN <<>> = {}
  BY <1>3
<1>5. /\ opening' \in Seq(Opening) /\ Len(opening') <= 1
      /\ \A j \in DOMAIN opening' : opening'[j] = r
      /\ (\E j \in DOMAIN opening' : opening'[j].old) <=> a
      /\ (\E j \in DOMAIN opening' : opening'[j].new) <=> b
  BY <1>2, <1>3, <1>4
<1>6. OpeningOK(r)'
  <2>1. /\ Reaches(spec', r.dir)
        /\ r.new => r.dir \in DOMAIN fs' \cup touched' /\ ~Crosses(spec', r.dir)
    BY <1>3 DEF Calm
  <2>2. QED
    BY <2>1 DEF OpeningOK
<1>7. WalkOK'
  <2>1. walk' \in Seq(Frame) /\ (\A i \in DOMAIN walk : FrameOK(walk[i]))'
    BY <1>1
  <2>2. (\A i \in DOMAIN opening : OpeningOK(opening[i]))'
    BY <1>5, <1>6 DEF OpeningOK
  <2>3. Nested(walk, opening)'
    BY <1>1 DEF Nested
  <2>4. QED
    BY <2>1, <2>2, <2>3, <1>5 DEF WalkOK
<1>8. ToComeAfter(p, a, b)
  <2>1. \A q : /\ OldToCome(walk', opening', q) <=> a /\ Above(p, q)
               /\ NewToCome(walk', opening', q) <=> b /\ Above(p, q)
    BY <1>1, <1>3, <1>5 DEF OldToCome, NewToCome
  <2>2. \A q : ~OldToCome(walk, opening, q) /\ ~NewToCome(walk, opening, q)
    BY <1>1 DEF OldToCome, NewToCome
  <2>3. QED
    BY <2>1, <2>2 DEF ToComeAfter, Above
<1>9. QED
  BY <1>7, <1>8

(* A rule is begun at its start point.                                      *)
LEMMA StartStep ==
  ASSUME IInv, Idle, NEW s, s \in todo, NEW p, p = s.start,
         NEW a \in BOOLEAN, NEW b \in BOOLEAN, NEW said,
         walk' = walk, opening' = Below(p, a, b),
         Calm, spec' = s, todo' = todo \ {s},
         Adds(s, p, said), Keeps(p), Logs(s, p),
         b => p \in DOMAIN fs /\ ~Crosses(s, p),
         a \/ ~CanDescend(db, p),
         b \/ \A q \in Name : Above(p, q) => Gone(s, q)',
         Settles(s, p, said), Suited(p, said),
         \A e \in said : e.new # NoData /\ e.new["type"] = "invalid" =>
           <<e.rule, e.path>> \in errors' \/ e.path \in Mounts
  PROVE  IInv'
<1>1. Types /\ WalkOK /\ Progress /\ Reported /\ Fitting
  BY DEF IInv
<1>2. s \in specs /\ p \in Name /\ p # <<>> /\ Reaches(s, p)
  BY <1>1, SpecsFacts DEF Types
<1>3. \A q \in Path : Reaches(s, q) => Fresh(s, q)
  BY <1>1, <1>2 DEF Progress, Status
<1>4. p \in Path => EntriesAt(s, p) = {}
  BY <1>2, <1>3 DEF Fresh
<1>5. WalkOK' /\ ToComeAfter(p, a, b)
  BY <1>2, StartWalk
<1>6. Types'
  BY <1>1, <1>2, TypesAfter DEF Calm
<1>7. Turn(s, p)
  BY DEF Turn
<1>8. ASSUME NEW q \in Path, Above(p, q), Reaches(s, q)
      PROVE  Fresh(s, q) /\ (a \/ ~HasFCOData(was, q)) /\ (b \/ Gone(s, q)')
  <2>1. q \in Name
    BY PathFacts
  <2>2. a \/ ~HasFCOData(was, q)
    <3>1. CASE ~CanDescend(db, p)
      <4>1. ~CanDescend(was, p)
        BY <3>1, <1>1 DEF CanDescend, Types
      <4>2. Rooted(was) /\ Entries(was) \subseteq Name \ {<<>>}
        BY <1>1, PathFacts DEF Types
      <4>3. q \notin Entries(was)
        BY <4>1, <4>2, <1>2, <1>8, RootedFacts
      <4>4. QED
        BY <4>3 DEF HasFCOData
    <3>2. QED
      BY <3>1
  <2>3. QED
    BY <2>1, <2>2, <1>3, <1>8
<1>9. Progress'
  BY <1>1, <1>2, <1>4, <1>5, <1>7, <1>8, ProgressAfter
<1>10. Reported'
  BY <1>1, <1>2, <1>4, ReportedAfter DEF Calm
<1>11. Fitting'
  BY <1>1, <1>2, <1>4, FittingAfter
<1>12. QED
  BY <1>5, <1>6, <1>9, <1>10, <1>11 DEF IInv

LEMMA ProcessSpecKeeps ==
  \A works \in BOOLEAN, s \in todo : IInv /\ ProcessSpec(s, works) => IInv'
<1>0. SUFFICES ASSUME NEW works \in BOOLEAN, NEW s \in todo, IInv, ProcessSpec(s, works),
                      NEW p, p = s.start, NEW o, o = Look(s, p, works)
               PROVE  IInv'
  OBVIOUS
<1>1. IInv /\ Types /\ WalkOK /\ Progress /\ Reported /\ Idle
  BY <1>0 DEF IInv, ProcessSpec
<1>2. /\ walk' = walk /\ Calm /\ spec' = s /\ todo' = todo \ {s}
      /\ LogError(s, p, works /\ p \in DOMAIN fs)
  BY <1>0 DEF ProcessSpec, Calm, Call
<1>3. IF o = InvalidObject
      THEN IF p \in Entries(db) THEN ProcessRemovedFCO(s, p)
                                ELSE UNCHANGED <<db, report, opening>>
      ELSE IF p \in Entries(db) THEN ProcessChangedFCO(s, p, o) ELSE ProcessAddedFCO(s, p, o)
  BY <1>0 DEF ProcessSpec
<1>4. /\ s \in todo /\ s \in specs /\ p \in Name /\ p # <<>> /\ Reaches(s, p) /\ s.start \in Name
      /\ p = s.start
  BY <1>0, <1>1, SpecsFacts DEF Types
<1>5. /\ Logs(s, p)
      /\ o.type = "dir" => p \in DOMAIN fs /\ ~Crosses(s, p)
      /\ o.type = "dir" \/ \A q \in Name : Above(p, q) => Gone(s, q)'
      /\ p \in DOMAIN fs /\ ~Excused(s, p)' => o = InitializeTypeInfo(fs, s, p)
      /\ o # InvalidObject => p \in DOMAIN fs
      /\ o.type = "invalid" => <<s.start, p>> \in errors' \/ Crosses(s, p)
      /\ o \in Object \cup {InvalidObject}
  <2>1. works \in BOOLEAN /\ o = Look(s, p, works) /\ LogError(s, p, works /\ p \in DOMAIN fs) /\ Calm
    BY <1>0, <1>2
  <2>2. Types /\ s \in specs /\ Reaches(s, p) /\ p \in Name /\ p # <<>>
    BY <1>1, <1>4
  <2>3. QED
    BY <2>1, <2>2, LookedFacts
<1>6. ~Crosses(s, p)
  BY <1>4, CrossesFacts
<1>7. p \in Path => Fresh(s, p)
  BY <1>1, <1>4 DEF Progress, Status
<1>8. Entries(was) \subseteq Path /\ DOMAIN fs \subseteq Path
      /\ \A q \in DOMAIN fs : fs[q].type \in {"file", "dir"}
  BY <1>1 DEF Types, Object
<1>9. CASE o = InvalidObject
  <2>1. o.type # "dir"
    BY <1>9 DEF InvalidObject
  <2>2. ASSUME NEW said, said = SaidGone(db, s, p), db' = db
        PROVE  /\ Settles(s, p, said) /\ Suited(p, said)
               /\ \A e \in said : e.new = NoData
    <3>1. ASSUME ~Excused(s, p)'
          PROVE  ~Seen(fs, s, p)
      <4>1. CASE p \in DOMAIN fs
        <5>1. o = fs[p]
          BY <4>1, <3>1, <1>5, <1>6 DEF InitializeTypeInfo
        <5>2. o.type = "invalid" /\ fs[p].type \in {"file", "dir"}
          BY <4>1, <1>8, <1>9 DEF InvalidObject
        <5>3. QED
          BY <5>1, <5>2
      <4>2. CASE p \notin DOMAIN fs
        BY <4>2 DEF Seen
      <4>3. QED
        BY <4>1, <4>2
    <3>2. Settles(s, p, SaidGone(db, s, p)) /\ Suited(p, SaidGone(db, s, p))
      <4>1. Types /\ Calm /\ s \in specs /\ db' = db
        BY <1>1, <1>2, <1>4, <2>2
      <4>2. QED
        BY <4>1, <3>1, <1>7, GoneSettles
    <3>3. \A e \in SaidGone(db, s, p) : e.new = NoData
      BY SaidFacts
    <3>4. QED
      BY <3>2, <3>3, <2>2
  <2>3. CASE p \in Entries(db)
    <3>1. Adds(s, p, SaidGone(db, s, p)) /\ Keeps(p) /\ db' = db
          /\ opening' = Below(p, CanDescend(db, p), FALSE)
      <4>1. Types /\ ProcessRemovedFCO(s, p)
        BY <1>1, <1>3, <1>9, <2>3
      <4>2. QED
        BY <4>1, RemovedOutcome
    <3>2. PICK said : said = SaidGone(db, s, p)
      OBVIOUS
    <3>3. PICK a \in BOOLEAN : a = CanDescend(db, p)
      BY DEF CanDescend
    <3>4. Adds(s, p, said) /\ opening' = Below(p, a, FALSE) /\ (a \/ ~CanDescend(db, p))
      BY <3>1, <3>2, <3>3
    <3>5. \A q \in Name : Above(p, q) => Gone(s, q)'
      BY <2>1, <1>5
    <3>6. /\ Settles(s, p, said) /\ Suited(p, said)
          /\ \A e \in said : e.new # NoData /\ e.new["type"] = "invalid" =>
               <<e.rule, e.path>> \in errors' \/ e.path \in Mounts
      BY <2>2, <3>1, <3>2
    <3>7. FALSE \in BOOLEAN
      OBVIOUS
    <3>8. QED
      BY <1>1, <1>2, <1>4, <1>5, <3>1, <3>4, <3>5, <3>6, <3>7, StartStep
  <2>4. CASE p \notin Entries(db)
    <3>1. UNCHANGED <<db, report, opening>> /\ opening = <<>>
      BY <1>1, <1>3, <1>9, <2>4 DEF Idle
    <3>2. SaidGone(db, s, p) = {} /\ ~CanDescend(db, p)
      BY <2>4 DEF SaidGone, HasFCOData, CanDescend
    <3>3. Adds(s, p, {}) /\ Keeps(p) /\ opening' = Below(p, FALSE, FALSE)
      BY <3>1, <1>1 DEF Adds, Keeps, Below, Types
    <3>4. Settles(s, p, {}) /\ Suited(p, {})
      BY <2>2, <3>1, <3>2
    <3>5. \A q \in Name : Above(p, q) => Gone(s, q)'
      BY <2>1, <1>5
    <3>6. FALSE \in BOOLEAN /\ \A e \in {} : e.new # NoData /\ e.new["type"] = "invalid" =>
            <<e.rule, e.path>> \in errors' \/ e.path \in Mounts
      OBVIOUS
    <3>7. QED
      BY <1>1, <1>2, <1>4, <1>5, <3>2, <3>3, <3>4, <3>5, <3>6, StartStep
  <2>5. QED
    BY <2>3, <2>4
<1>10. CASE o # InvalidObject
  <2>1. p \in DOMAIN fs /\ p \in Path /\ Seen(fs, s, p)
    BY <1>4, <1>5, <1>8, <1>10 DEF Seen
  <2>2. PICK said : said = SaidOf(db, s, p, o)
    OBVIOUS
  <2>3. PICK a \in BOOLEAN : a = CanDescend(db, p)
    BY DEF CanDescend
  <2>4. Adds(s, p, SaidOf(db, s, p, o)) /\ Keeps(p) /\ Adjusts(s, p, o) /\ opening' = Below(p, a, o.type = "dir")
    <3>1. CASE p \in Entries(db)
      <4>1. Types /\ ProcessChangedFCO(s, p, o)
        BY <1>1, <1>3, <1>10, <3>1
      <4>2. Adds(s, p, SaidOf(db, s, p, o)) /\ Keeps(p) /\ Adjusts(s, p, o)
            /\ opening' = Below(p, CanDescend(db, p), o.type = "dir")
        BY <4>1, <2>1, <3>1, ChangedOutcome
      <4>3. QED
        BY <4>2, <2>3
    <3>2. CASE p \notin Entries(db)
      <4>1. Types /\ ProcessAddedFCO(s, p, o)
        BY <1>1, <1>3, <1>10, <3>2
      <4>2. ~HasFCOData(db, p) /\ ~CanDescend(db, p)
        BY <3>2 DEF HasFCOData, CanDescend
      <4>3. Adds(s, p, SaidOf(db, s, p, o)) /\ Keeps(p) /\ Adjusts(s, p, o)
            /\ opening' = Below(p, FALSE, o.type = "dir")
        BY <4>1, <4>2, <2>1, AddedOutcome
      <4>4. QED
        BY <4>2, <4>3, <2>3
    <3>3. QED
      BY <3>1, <3>2
  <2>5. Settles(s, p, said) /\ Suited(p, said)
    <3>1. p \notin touched /\ ~Excused(s, p)' => Seen(fs, s, p) /\ o = InitializeTypeInfo(fs, s, p)
      BY <2>1, <1>5
    <3>2. /\ Types /\ Calm /\ s \in specs /\ p \in Path /\ Fresh(s, p) /\ Adjusts(s, p, o)
          /\ o \in Object \cup {InvalidObject}
      BY <1>1, <1>2, <1>4, <1>5, <1>7, <2>1, <2>4
    <3>3. Settles(s, p, SaidOf(db, s, p, o)) /\ Suited(p, SaidOf(db, s, p, o))
      BY <3>1, <3>2, LookedSettles
    <3>4. QED
      BY <3>3, <2>2
  <2>6. \A e \in said : e.new # NoData /\ e.new["type"] = "invalid" =>
          <<e.rule, e.path>> \in errors' \/ e.path \in Mounts
    <3>1. \A e \in SaidOf(db, s, p, o) : e.new["type"] = "invalid" =>
            <<e.rule, e.path>> \in errors' \/ e.path \in Mounts
      BY <1>1, <1>4, <1>5, PhantomSaid
    <3>2. QED
      BY <3>1, <2>2
  <2>7. PICK b \in BOOLEAN : b <=> o.type = "dir"
    OBVIOUS
  <2>8. Adds(s, p, said) /\ opening' = Below(p, a, b) /\ (a \/ ~CanDescend(db, p))
    BY <2>2, <2>3, <2>4, <2>7
  <2>9. /\ b => p \in DOMAIN fs /\ ~Crosses(s, p)
        /\ b \/ \A q \in Name : Above(p, q) => Gone(s, q)'
        /\ Settles(s, p, said) /\ Suited(p, said)
    BY <2>5, <2>7, <1>5
  <2>10. QED
    BY <1>1, <1>2, <1>4, <1>5, <2>4, <2>6, <2>8, <2>9, StartStep
<1>11. QED
  BY <1>9, <1>10

(* A step that only goes on with the walk.                                  *)
Still == Calm /\ spec' = spec /\ todo' = todo /\ db' = db /\ report' = report

(* It may pass over what the database has nothing of, and what is gone.     *)
PassesOver(s) ==
  \A q \in Path : Reaches(s, q) =>
    /\ OldToCome(walk', opening', q) => OldToCome(walk, opening, q)
    /\ NewToCome(walk', opening', q) => NewToCome(walk, opening, q)
    /\ OldToCome(walk, opening, q) => OldToCome(walk', opening', q) \/ ~HasFCOData(was, q)
    /\ NewToCome(walk, opening, q) => NewToCome(walk', opening', q) \/ Gone(s, q)'

LEMMA WalkOnly ==
  ASSUME Types, Progress, Reported, Fitting, Still, NEW s, s = spec, NEW d, Reaches(s, d), Logs(s, d),
         PassesOver(s)
  PROVE  Types' /\ Progress' /\ Reported' /\ Fitting'
<1>1. Types'
  BY DEF Types, Still, Calm
<1>2. Reported'
  <2>1. ReportedOnce'
    BY DEF Reported, ReportedOnce, Still, Calm
  <2>2. PhantomHasError'
    BY DEF Reported, PhantomHasError, Still, Calm, Logs
  <2>3. \A e \in errors' : \E t \in specs' : t.start = e[1] /\ Reaches(t, e[2])
    BY DEF Reported, Types, Still, Calm, Logs
  <2>4. QED
    BY <2>1, <2>2, <2>3 DEF Reported, Still
<1>3. Progress'
  <2> SUFFICES ASSUME NEW t \in specs, NEW q \in Path, Reaches(t, q)
               PROVE  Status(t, q)'
    BY DEF Progress, Still, Calm
  <2>1. Status(t, q)
    BY DEF Progress
  <2>2. Fresh(t, q)' <=> Fresh(t, q)
    BY DEF Fresh, EntriesAt, Still, Calm
  <2>3. Excused(t, q) => Excused(t, q)'
    BY StillExcused DEF Logs, Still
  <2>4. Gone(t, q) => Gone(t, q)'
    BY StillExcused DEF Logs, Still
  <2>5. Right(t, q) => Right(t, q)'
    BY <2>3 DEF Right, RightFco, EntriesAt, Still, Calm
  <2>6. (t \in todo)' <=> t \in todo
    BY DEF Still
  <2>7. HasFCOData(was, q)' = HasFCOData(was, q)
    BY DEF Still, Calm
  <2>8. /\ OldDue(t, q)' => OldDue(t, q)
        /\ NewDue(t, q)' => NewDue(t, q)
        /\ OldDue(t, q) => OldDue(t, q)' \/ ~HasFCOData(was, q)
        /\ NewDue(t, q) => NewDue(t, q)' \/ Gone(t, q)'
    BY DEF OldDue, NewDue, PassesOver, Still
  <2>9. CASE t \in todo
    BY <2>1, <2>2, <2>6, <2>9 DEF Status
  <2>10. CASE t \notin todo /\ ~OldDue(t, q) /\ ~NewDue(t, q)
    BY <2>1, <2>5, <2>6, <2>8, <2>10 DEF Status
  <2>11. CASE t \notin todo /\ (OldDue(t, q) \/ NewDue(t, q))
    <3>1. /\ Fresh(t, q) /\ (OldDue(t, q) \/ ~HasFCOData(was, q))
          /\ NewDue(t, q) \/ Gone(t, q)
      BY <2>1, <2>11 DEF Status, Awaited
    <3>2. /\ Fresh(t, q)' /\ (OldDue(t, q)' \/ ~HasFCOData(was, q))
          /\ NewDue(t, q)' \/ Gone(t, q)'
      BY <3>1, <2>2, <2>4, <2>8
    <3>3. Awaited(t, q)'
      BY <3>2, <2>7 DEF Awaited
    <3>4. ~OldDue(t, q)' /\ ~NewDue(t, q)' => Right(t, q)'
      BY <3>2, <2>7, NothingIsRightAfter
    <3>5. QED
      BY <2>6, <2>11, <3>3, <3>4 DEF Status
  <2>12. QED
    BY <2>9, <2>10, <2>11
<1>4. Fitting'
  BY DEF Fitting, Suits, Adapted, Still, Calm
<1>5. QED
  BY <1>1, <1>2, <1>3, <1>4

LEMMA SkipObjectKeeps == IInv /\ SkipObject => IInv'
<1>0. SUFFICES ASSUME IInv, SkipObject, NEW s, s = spec
               PROVE  IInv'
  OBVIOUS
<1>1. Types /\ WalkOK /\ Progress /\ Reported /\ Fitting /\ Merging /\ Still /\ opening' = <<>> /\ errors' = errors
  BY <1>0 DEF IInv, SkipObject, Still, Calm, Merging
<1>2. \E n, old, new : /\ Taken(n, old, new) /\ walk' = WithTop(old, new)
                       /\ ShouldStopDescent(spec, Append(Top.dir, n))
  <2>1. CASE OldFirst /\ ShouldStopDescent(spec, OldName) /\ walk' = NextOld(walk)
    BY <2>1, <1>1, MergeFacts, NextFacts DEF OldName
  <2>2. CASE NewFirst /\ ShouldStopDescent(spec, NewName) /\ walk' = NextNew(walk)
    BY <2>2, <1>1, MergeFacts, NextFacts DEF NewName
  <2>3. CASE BothAt /\ ShouldStopDescent(spec, NewName) /\ walk' = NextOld(NextNew(walk))
    BY <2>3, <1>1, MergeFacts, NextFacts DEF NewName
  <2>4. QED
    BY <1>0, <2>1, <2>2, <2>3 DEF SkipObject
<1>3. PICK n, old, new : /\ Taken(n, old, new) /\ walk' = WithTop(old, new)
                         /\ ShouldStopDescent(spec, Append(Top.dir, n))
  BY <1>2
<1>4. PICK p : p = Append(Top.dir, n)
  OBVIOUS
<1>5. WalkOK' /\ ToComeAfter(p, FALSE, FALSE)
  <2>1. opening' = Below(Append(Top.dir, n), FALSE, FALSE) /\ FALSE \in BOOLEAN
    BY <1>1 DEF Below
  <2>2. Calm /\ spec' = spec /\ todo' = todo
    BY <1>1 DEF Still
  <2>3. QED
    BY <2>1, <2>2, <1>1, <1>3, <1>4, MergeWalk
<1>6. /\ s \in specs /\ s.start \in Name /\ Top.dir \in Name /\ n \in Int /\ Reaches(s, Top.dir)
      /\ Reaches(s, s.start)
  BY <1>0, <1>1, <1>3, TopFacts, SpecsFacts DEF Types, Taken, FrameOK
<1>7. ASSUME NEW q \in Path, Reaches(s, q)
      PROVE  ~AtOrAbove(p, q)
  <2>1. SUFFICES ASSUME AtOrAbove(p, q)
                 PROVE  FALSE
    OBVIOUS
  <2>2. p \in Name /\ q \in Name /\ AtOrAbove(Top.dir, p)
    BY <1>4, <1>6, PathFacts, ChildFacts DEF Above
  <2>3. AtOrAbove(s.start, p)
    BY <2>2, <1>6, AtOrAboveOrder DEF Reaches
  <2>4. Reaches(s, p)
    BY <2>1, <2>2, <2>3, <1>6, <1>7, ReachedAbove
  <2>5. ~ShouldStopDescent(s, p)
    BY <2>2, <2>4, <1>6, ReachedNotStopped
  <2>6. QED
    BY <2>5, <1>0, <1>3, <1>4
<1>8. PassesOver(s)
  BY <1>5, <1>7, PathFacts DEF PassesOver, ToComeAfter
<1>9. Logs(s, s.start)
  BY <1>1 DEF Logs
<1>10. Types' /\ Progress' /\ Reported' /\ Fitting'
  <2>1. s = spec
    BY <1>0
  <2>2. QED
    BY <2>1, <1>1, <1>6, <1>8, <1>9, WalkOnly
<1>11. QED
  BY <1>5, <1>10 DEF IInv

LEMMA LeaveDirKeeps == IInv /\ LeaveDir => IInv'
<1>0. SUFFICES ASSUME IInv, LeaveDir, NEW s, s = spec
               PROVE  IInv'
  OBVIOUS
<1>1. Types /\ WalkOK /\ Progress /\ Reported /\ Fitting /\ Merging /\ Still /\ errors' = errors
      /\ opening = <<>> /\ opening' = <<>>
  BY <1>0 DEF IInv, LeaveDir, Still, Calm, Merging
<1>2. /\ walk \in Seq(Frame) /\ walk # <<>> /\ Nested(walk, <<>>) /\ spec \notin todo
      /\ walk[Len(walk)].old = <<>> /\ walk[Len(walk)].new = <<>> /\ walk' = Front(walk)
      /\ \A i \in DOMAIN walk : FrameOK(walk[i])
  BY <1>0, <1>1, TopFacts DEF WalkOK, LeaveDir, Merging, Top
<1>3. /\ walk' \in Seq(Frame)
      /\ \A i \in DOMAIN walk' : i \in DOMAIN walk /\ walk'[i] = walk[i]
      /\ Nested(walk', <<>>)
      /\ \A q \in Name : /\ OldToCome(walk', <<>>, q) <=> OldToCome(walk, <<>>, q)
                         /\ NewToCome(walk', <<>>, q) <=> NewToCome(walk, <<>>, q)
  BY <1>2, DirLeft
<1>4. WalkOK'
  <2>1. \A i \in DOMAIN walk' : FrameOK(walk'[i])
    BY <1>2, <1>3
  <2>2. (\A i \in DOMAIN walk : FrameOK(walk[i]))'
    BY <2>1, <1>1 DEF FrameOK, Still, Calm
  <2>3. <<>> \in Seq(Opening) /\ Len(<<>>) <= 1 /\ (\A i \in DOMAIN opening : OpeningOK(opening[i]))'
    BY <1>1
  <2>4. QED
    BY <2>2, <2>3, <1>1, <1>2, <1>3 DEF WalkOK, Still
<1>5. PassesOver(s)
  BY <1>1, <1>3, PathFacts DEF PassesOver
<1>6. Reaches(s, s.start) /\ Logs(s, s.start)
  BY <1>0, <1>1, SpecsFacts DEF Logs, Types
<1>7. Types' /\ Progress' /\ Reported' /\ Fitting'
  <2>1. s = spec
    BY <1>0
  <2>2. QED
    BY <2>1, <1>1, <1>5, <1>6, WalkOnly
<1>8. QED
  BY <1>4, <1>7 DEF IInv

(* The names that are read of a directory are those of its entries and, if  *)
(* it can be read, of what is in it.                                        *)
LEMMA NamesRead ==
  ASSUME Types, NEW d \in Name
  PROVE  /\ Peers(Children(db, d)) \in Seq(Int) /\ Sorted(Peers(Children(db, d)))
         /\ \A n \in Int : Has(Peers(Children(db, d)), n) <=> Append(d, n) \in Entries(was)
         /\ GetChildrenNames(fs, d) \in Seq(Int) /\ Sorted(GetChildrenNames(fs, d))
         /\ \A n \in Int : Has(GetChildrenNames(fs, d), n) <=> Append(d, n) \in DOMAIN fs
<1>1. Entries(db) = Entries(was) /\ Entries(db) \in SUBSET Path /\ DOMAIN fs \in SUBSET Path
  BY DEF Types
<1>2. /\ Peers(Children(db, d)) \in Seq(Int) /\ Sorted(Peers(Children(db, d)))
      /\ \A n \in Int : Has(Peers(Children(db, d)), n) <=> Append(d, n) \in Entries(db)
  BY <1>1, NamesIn DEF Children
<1>3. /\ GetChildrenNames(fs, d) \in Seq(Int) /\ Sorted(GetChildrenNames(fs, d))
      /\ \A n \in Int : Has(GetChildrenNames(fs, d), n) <=> Append(d, n) \in DOMAIN fs
  BY <1>1, NamesIn DEF GetChildrenNames, ChildrenIn
<1>4. QED
  BY <1>1, <1>2, <1>3

LEMMA OpenDirKeeps == \A works \in BOOLEAN : IInv /\ OpenDir(works) => IInv'
<1>0. SUFFICES ASSUME NEW works \in BOOLEAN, IInv, OpenDir(works),
                      NEW s, s = spec, NEW r, r = opening[1], NEW d, d = r.dir,
                      NEW old, old = (IF r.old THEN Peers(Children(db, d)) ELSE <<>>),
                      NEW new, new = (IF r.new /\ works /\ IsDir(fs, d)
                                     THEN GetChildrenNames(fs, d) ELSE <<>>)
               PROVE  IInv'
  OBVIOUS
<1> DEFINE readable == works /\ IsDir(fs, d)
<1>1. Types /\ WalkOK /\ Progress /\ Reported /\ Fitting /\ Still /\ opening' = <<>> /\ opening # <<>>
  BY <1>0 DEF IInv, OpenDir, Still, Calm, Call
<1>2. /\ walk' = Append(walk, [dir |-> d, old |-> old, new |-> new])
      /\ LogError(s, d, readable \/ ~r.new)
  BY <1>0 DEF OpenDir
<1>3. opening = <<r>> /\ r \in Opening /\ OpeningOK(r) /\ walk \in Seq(Frame)
      /\ Nested(walk, <<r>>) /\ spec \notin todo /\ \A i \in DOMAIN walk : FrameOK(walk[i])
  <2>1. opening \in Seq(Opening) /\ Len(opening) <= 1 /\ Len(opening) \in Nat \ {0}
    BY <1>1, EmptySeq DEF WalkOK
  <2>2. Len(opening) = 1 /\ 1 \in DOMAIN opening
    <3>1. \A k \in Nat \ {0} : k <= 1 => k = 1
      OBVIOUS
    <3>2. Len(opening) = 1
      BY <2>1, <3>1
    <3>3. DOMAIN opening = 1..Len(opening)
      BY <2>1, LenProperties
    <3>4. QED
      BY <3>2, <3>3
  <2>3. opening = <<opening[1]>> /\ opening[1] \in Opening
    BY <2>1, <2>2, ElementOfSeq
  <2>4. QED
    BY <2>2, <2>3, <1>0, <1>1 DEF WalkOK, Idle
<1>4. /\ d \in Name /\ r.old \in BOOLEAN /\ r.new \in BOOLEAN /\ d = r.dir
      /\ Reaches(s, d) /\ s \in specs /\ s.start \in Name \ {<<>>}
      /\ r.new => ~Crosses(s, d)
  BY <1>0, <1>1, <1>3, SpecsFacts DEF Opening, OpeningOK, Types
<1>5. d # <<>> /\ AtOrAbove(s.start, d)
  <2>1. AtOrAbove(s.start, d) /\ Len(s.start) <= Len(d) /\ Len(s.start) \in Nat \ {0}
    BY <1>4, AboveFacts, NameFacts DEF Reaches
  <2>2. QED
    BY <2>1, <1>4, NameFacts
<1>6. /\ Peers(Children(db, d)) \in Seq(Int) /\ Sorted(Peers(Children(db, d)))
      /\ \A n \in Int : Has(Peers(Children(db, d)), n) <=> Append(d, n) \in Entries(was)
      /\ GetChildrenNames(fs, d) \in Seq(Int) /\ Sorted(GetChildrenNames(fs, d))
      /\ \A n \in Int : Has(GetChildrenNames(fs, d), n) <=> Append(d, n) \in DOMAIN fs
  BY <1>1, <1>4, NamesRead
<1>7. <<>> \in Seq(Int) /\ Sorted(<<>>) /\ \A n : ~Has(<<>>, n)
  BY DEF Sorted, Has
<1>8. /\ old \in Seq(Int) /\ Sorted(old)
      /\ \A n \in Int : Has(old, n) <=> r.old /\ Append(d, n) \in Entries(was)
  <2>1. CASE r.old
    BY <2>1, <1>0, <1>6
  <2>2. CASE ~r.old
    BY <2>2, <1>0, <1>7
  <2>3. QED
    BY <2>1, <2>2
<1>9. /\ new \in Seq(Int) /\ Sorted(new) /\ (new # <<>> => r.new)
      /\ \A n \in Int : Has(new, n) <=> r.new /\ readable /\ Append(d, n) \in DOMAIN fs
  <2>1. CASE r.new /\ readable
    BY <2>1, <1>0, <1>6
  <2>2. CASE ~(r.new /\ readable)
    BY <2>2, <1>0, <1>7
  <2>3. QED
    BY <2>1, <2>2
<1> DEFINE frame == [dir |-> d, old |-> old, new |-> new]
<1>10. /\ walk' \in Seq(Frame) /\ DOMAIN walk' = 1 .. Len(walk) + 1
       /\ walk'[Len(walk) + 1] = frame /\ \A i \in DOMAIN walk : walk'[i] = walk[i]
       /\ Nested(walk', <<>>)
       /\ \A q \in Name :
            IF Above(d, q)
            THEN /\ OldToCome(walk', <<>>, q) <=> DueIn(d, old, q)
                 /\ NewToCome(walk', <<>>, q) <=> DueIn(d, new, q)
                 /\ OldToCome(walk, <<r>>, q) <=> r.old
                 /\ NewToCome(walk, <<r>>, q) <=> r.new
            ELSE /\ OldToCome(walk', <<>>, q) <=> OldToCome(walk, <<r>>, q)
                 /\ NewToCome(walk', <<>>, q) <=> NewToCome(walk, <<r>>, q)
  BY <1>2, <1>3, <1>4, <1>8, <1>9, DirOpened
<1>11. WalkOK'
  <2>1. FrameOK(frame)
    <3>1. frame.dir = d /\ frame.old = old /\ frame.new = new
      OBVIOUS
    <3>2. /\ \A n \in Int : Has(old, n) => Append(d, n) \in Entries(was)
          /\ \A n \in Int : Has(new, n) => Append(d, n) \in DOMAIN fs \cup touched
          /\ new # <<>> => ~Crosses(s, d)
      BY <1>4, <1>8, <1>9
    <3> HIDE DEF frame
    <3>3. s = spec
      BY <1>0
    <3>4. QED
      BY <3>1, <3>2, <3>3, <1>4, <1>8, <1>9 DEF FrameOK
  <2>2. \A i \in DOMAIN walk' : i \in DOMAIN walk \/ i = Len(walk) + 1
    <3>1. DOMAIN walk = 1..Len(walk) /\ Len(walk) \in Nat
      BY <1>3, LenProperties
    <3>2. QED
      BY <3>1, <1>10
  <2>3. \A i \in DOMAIN walk' : FrameOK(walk'[i])
    BY <2>1, <2>2, <1>3, <1>10
  <2>4. (\A i \in DOMAIN walk : FrameOK(walk[i]))'
    BY <2>3, <1>1 DEF FrameOK, Still, Calm
  <2>5. <<>> \in Seq(Opening) /\ Len(<<>>) <= 1 /\ (\A i \in DOMAIN opening : OpeningOK(opening[i]))'
    BY <1>1
  <2>6. QED
    BY <2>4, <2>5, <1>1, <1>3, <1>10 DEF WalkOK, Still
<1>12. PassesOver(s)
  <2> SUFFICES ASSUME NEW q \in Path, Reaches(s, q)
               PROVE  /\ OldToCome(walk', opening', q) => OldToCome(walk, opening, q)
                      /\ NewToCome(walk', opening', q) => NewToCome(walk, opening, q)
                      /\ OldToCome(walk, opening, q) =>
                           OldToCome(walk', opening', q) \/ ~HasFCOData(was, q)
                      /\ NewToCome(walk, opening, q) =>
                           NewToCome(walk', opening', q) \/ Gone(s, q)'
    BY DEF PassesOver
  <2>1. q \in Name /\ Path \subseteq Name \ {<<>>}
    BY PathFacts
  <2>2. CASE ~Above(d, q)
    BY <2>1, <2>2, <1>1, <1>3, <1>10
  <2>3. CASE Above(d, q)
    <3>1. PICK n \in Int : AtOrAbove(Append(d, n), q)
      BY <2>1, <2>3, <1>4, BelowIsAtChild
    <3>2. /\ DueIn(d, old, q) <=> r.old /\ Append(d, n) \in Entries(was)
          /\ DueIn(d, new, q) <=> r.new /\ readable /\ Append(d, n) \in DOMAIN fs
      BY <2>1, <3>1, <1>4, <1>8, <1>9, DueInFacts
    <3>3. /\ OldToCome(walk', opening', q) <=> r.old /\ Append(d, n) \in Entries(was)
          /\ NewToCome(walk', opening', q) <=> r.new /\ readable /\ Append(d, n) \in DOMAIN fs
          /\ OldToCome(walk, opening, q) <=> r.old
          /\ NewToCome(walk, opening, q) <=> r.new
      BY <2>1, <2>3, <3>2, <1>1, <1>3, <1>10
    <3>4. Append(d, n) \in Name /\ Append(d, n) # <<>>
      BY <1>4, ChildFacts
    <3>5. Append(d, n) \notin Entries(was) => ~HasFCOData(was, q)
      <4>1. Rooted(was) /\ Entries(was) \subseteq Name \ {<<>>}
        BY <2>1, <1>1 DEF Types
      <4>2. q \in Entries(was) => Append(d, n) \in Entries(was)
        BY <4>1, <3>1, <3>4, RootedFacts
      <4>3. QED
        BY <4>2 DEF HasFCOData
    <3>6. IsTree(fs) /\ DOMAIN fs \subseteq Path /\ DOMAIN fs \subseteq Name \ {<<>>}
      BY <2>1, <1>1 DEF Types
    <3>7. Seen(fs, s, q)' = Seen(fs, s, q)
      BY <1>1 DEF Seen, Still, Calm
    <3>8. ASSUME Append(d, n) \notin DOMAIN fs
          PROVE  Gone(s, q)'
      <4>1. q \notin DOMAIN fs
        BY <3>1, <3>4, <3>6, <3>8, TreeFacts
      <4>2. QED
        BY <4>1, <3>7 DEF Gone, Seen
    <3>9. ASSUME r.new, ~readable
          PROVE  Gone(s, q)'
      <4>1. CASE ~IsDir(fs, d)
        <5>1. ~Seen(fs, s, q)
          BY <4>1, <2>1, <2>3, <3>6, <1>4, <1>5, NotSeenBelow
        <5>2. QED
          BY <5>1, <3>7 DEF Gone
      <4>2. CASE IsDir(fs, d)
        <5>1. <<s.start, d>> \in errors'
          BY <3>9, <1>2 DEF LogError
        <5>2. d \in DOMAIN fs /\ d \in Path /\ AtOrAbove(d, q)
          BY <4>2, <2>3, <3>6 DEF IsDir, Above
        <5>3. Excused(s, q)'
          BY <5>1, <5>2, <1>1 DEF Excused, Still, Calm
        <5>4. QED
          BY <5>3 DEF Gone
      <4>3. QED
        BY <4>1, <4>2
    <3>10. QED
      BY <3>3, <3>5, <3>8, <3>9
  <2>4. QED
    BY <2>2, <2>3
<1>13. Logs(s, d)
  BY <1>2 DEF Logs, LogError
<1>14. Types' /\ Progress' /\ Reported' /\ Fitting'
  <2>1. s = spec
    BY <1>0
  <2>2. QED
    BY <2>1, <1>1, <1>4, <1>12, <1>13, WalkOnly
<1>15. QED
  BY <1>11, <1>14 DEF IInv

(* What happens to the file system leaves a tree, and every object but one  *)
(* as it was.                                                               *)
LEMMA DisturbFacts ==
  ASSUME Types, Disturb
  PROVE  /\ IsTree(fs') /\ DOMAIN fs' \subseteq Path /\ \A q \in DOMAIN fs' : fs'[q] \in Object
         /\ touched \subseteq touched' /\ touched' \subseteq Path
         /\ DOMAIN fs \cup touched \subseteq DOMAIN fs' \cup touched'
         /\ \A q : q \notin touched' => /\ q \in DOMAIN fs' <=> q \in DOMAIN fs
                                        /\ q \in DOMAIN fs => fs'[q] = fs[q]
<1>1. PICK p \in Path : CreateObject(p) \/ ChangeObject(p) \/ RemoveObject(p)
  BY DEF Disturb
<1>2. touched' = touched \cup {p}
  BY <1>1 DEF CreateObject, ChangeObject, RemoveObject, Touch
<1>3. /\ IsTree(fs) /\ DOMAIN fs \subseteq Path /\ touched \subseteq Path
      /\ \A q \in DOMAIN fs : fs[q] \in Object
  BY DEF Types
<1>4. \E o \in Object :
        \/ /\ p \notin DOMAIN fs /\ (Len(p) = 1 \/ IsDir(fs, Front(p)))
           /\ fs' = [q \in DOMAIN fs \cup {p} |-> IF q = p THEN o ELSE fs[q]]
        \/ /\ p \in DOMAIN fs /\ (o.type = "dir" \/ ChildrenIn(fs, p) = {})
           /\ fs' = [fs EXCEPT ![p] = o]
        \/ ChildrenIn(fs, p) = {} /\ fs' = [q \in DOMAIN fs \ {p} |-> fs[q]]
  <2>1. CASE CreateObject(p)
    BY <2>1 DEF CreateObject
  <2>2. CASE ChangeObject(p)
    BY <2>2 DEF ChangeObject
  <2>3. CASE RemoveObject(p)
    BY <2>3, <1>3 DEF RemoveObject
  <2>4. QED
    BY <2>1, <2>2, <2>3, <1>1
<1>5. /\ IsTree(fs') /\ DOMAIN fs' \subseteq Path /\ \A q \in DOMAIN fs' : fs'[q] \in Object
      /\ DOMAIN fs \subseteq DOMAIN fs' \cup {p}
      /\ \A q : q # p => /\ q \in DOMAIN fs' <=> q \in DOMAIN fs
                         /\ q \in DOMAIN fs => fs'[q] = fs[q]
  BY <1>3, <1>4, ChangedTree
<1>6. QED
  BY <1>2, <1>3, <1>5

LEMMA DisturbedKeeps == IInv /\ Disturbed => IInv'
<1> SUFFICES ASSUME IInv, Disturbed
             PROVE  IInv'
  OBVIOUS
<1>1. Types /\ WalkOK /\ Progress /\ Reported /\ Fitting
  BY DEF IInv
<1>2. UNCHANGED <<specs, todo, spec, db, was, walk, opening, report, errors>> /\ Disturb
  BY DEF Disturbed
<1>3. /\ IsTree(fs') /\ DOMAIN fs' \subseteq Path /\ \A q \in DOMAIN fs' : fs'[q] \in Object
      /\ touched \subseteq touched' /\ touched' \subseteq Path
      /\ DOMAIN fs \cup touched \subseteq DOMAIN fs' \cup touched'
      /\ \A q : q \notin touched' => /\ q \in DOMAIN fs' <=> q \in DOMAIN fs
                                     /\ q \in DOMAIN fs => fs'[q] = fs[q]
  BY <1>1, <1>2, DisturbFacts
<1>4. Types'
  BY <1>1, <1>2, <1>3 DEF Types
<1>5. WalkOK'
  <2>1. \A i \in DOMAIN walk : FrameOK(walk[i])
    BY <1>1 DEF WalkOK
  <2>2. (\A i \in DOMAIN walk : FrameOK(walk[i]))'
    BY <2>1, <1>2, <1>3 DEF FrameOK
  <2>3. \A i \in DOMAIN opening : OpeningOK(opening[i])
    BY <1>1 DEF WalkOK
  <2>4. (\A i \in DOMAIN opening : OpeningOK(opening[i]))'
    BY <2>3, <1>2, <1>3 DEF OpeningOK
  <2>5. QED
    BY <2>2, <2>4, <1>1, <1>2 DEF WalkOK, Idle
<1>6. Progress'
  <2> SUFFICES ASSUME NEW t \in specs, NEW q \in Path, Reaches(t, q)
               PROVE  Status(t, q)'
    BY <1>2 DEF Progress
  <2>1. Status(t, q)
    BY <1>1 DEF Progress
  <2>2. /\ Fresh(t, q)' <=> Fresh(t, q)
        /\ HasFCOData(was, q)' = HasFCOData(was, q)
        /\ OldDue(t, q)' <=> OldDue(t, q)
        /\ NewDue(t, q)' <=> NewDue(t, q)
        /\ (t \in todo)' <=> t \in todo
    BY <1>2 DEF Fresh, EntriesAt, OldDue, NewDue
  <2>3. Excused(t, q) => Excused(t, q)'
    BY <1>2, <1>3 DEF Excused
  <2>4. ASSUME q \notin touched'
        PROVE  /\ Seen(fs, t, q)' <=> Seen(fs, t, q)
               /\ FcoOf(fs, t, q)' = FcoOf(fs, t, q)
               /\ Expected(fs, was, t, q)' = Expected(fs, was, t, q)
    <3>1. q \in DOMAIN fs' <=> q \in DOMAIN fs
      BY <2>4, <1>3
    <3>2. q \in DOMAIN fs => fs'[q] = fs[q]
      BY <2>4, <1>3
    <3>3. Seen(fs', t, q) <=> Seen(fs, t, q)
      BY <3>1 DEF Seen
    <3>4. FcoOf(fs', t, q) = FcoOf(fs, t, q)
      BY <3>1, <3>2 DEF FcoOf, InitializeTypeInfo
    <3>5. Expected(fs', was, t, q) = Expected(fs, was, t, q)
      BY <3>3, <3>4 DEF Expected
    <3>6. QED
      BY <3>3, <3>4, <3>5, <1>2
  <2>5. Gone(t, q) => Gone(t, q)'
    BY <2>3, <2>4, <1>3 DEF Gone
  <2>6. Right(t, q) => Right(t, q)'
    <3> SUFFICES ASSUME Right(t, q), q \notin touched', ~Excused(t, q)'
                 PROVE  (EntriesAt(t, q) = Expected(fs, was, t, q) /\ RightFco(t, q))'
      BY DEF Right
    <3>1. EntriesAt(t, q) = Expected(fs, was, t, q) /\ RightFco(t, q)
      BY <2>3, <1>3 DEF Right
    <3>2. EntriesAt(t, q)' = EntriesAt(t, q)
      BY <1>2 DEF EntriesAt
    <3>3. RightFco(t, q)'
      BY <3>1, <2>4, <1>2 DEF RightFco
    <3>4. QED
      BY <3>1, <3>2, <3>3, <2>4
  <2>7. Awaited(t, q) => Awaited(t, q)'
    BY <2>2, <2>5 DEF Awaited
  <2>8. QED
    BY <2>1, <2>2, <2>6, <2>7 DEF Status
<1>7. Reported'
  BY <1>1, <1>2 DEF Reported, ReportedOnce, PhantomHasError
<1>8. Fitting'
  BY <1>1, <1>2 DEF Fitting, Suits, Adapted
<1>9. QED
  BY <1>4, <1>5, <1>6, <1>7, <1>8 DEF IInv

LEMMA NextKeeps == IInv /\ [Next]_vars => IInv'
<1> SUFFICES ASSUME IInv, [Next]_vars
             PROVE  IInv'
  OBVIOUS
<1>1. CASE UNCHANGED vars
  <2>1. /\ Types /\ WalkOK /\ Progress /\ Reported /\ Fitting
    BY DEF IInv
  <2>2. Still /\ errors' = errors /\ walk' = walk /\ opening' = opening
    BY <1>1 DEF vars, Still, Calm
  <2>3. PICK s : s = spec
    OBVIOUS
  <2>4. Reaches(s, s.start) /\ Logs(s, s.start) /\ PassesOver(s)
    BY <2>1, <2>2, <2>3, SpecsFacts DEF Types, Logs, PassesOver
  <2>5. Types' /\ Progress' /\ Reported' /\ Fitting'
    BY <2>1, <2>2, <2>3, <2>4, WalkOnly
  <2>6. WalkOK'
    BY <2>1, <2>2 DEF WalkOK, Idle, FrameOK, OpeningOK, Still, Calm
  <2>7. QED
    BY <2>5, <2>6 DEF IInv
<1>2. CASE \E works \in BOOLEAN, s \in todo : ProcessSpec(s, works)
  BY <1>2, ProcessSpecKeeps
<1>3. CASE \E works \in BOOLEAN : OpenDir(works)
  BY <1>3, OpenDirKeeps
<1>4. CASE \E works \in BOOLEAN : AddedObject(works)
  BY <1>4, AddedObjectKeeps
<1>5. CASE \E works \in BOOLEAN : ComparedObject(works)
  BY <1>5, ComparedObjectKeeps
<1>6. CASE RemovedObject
  BY <1>6, RemovedObjectKeeps
<1>7. CASE SkipObject
  BY <1>7, SkipObjectKeeps
<1>8. CASE LeaveDir
  BY <1>8, LeaveDirKeeps
<1>9. CASE Disturbed
  BY <1>9, DisturbedKeeps
<1>10. QED
  BY <1>1, <1>2, <1>3, <1>4, <1>5, <1>6, <1>7, <1>8, <1>9 DEF Next, Step

(* All of it is kept: nothing that a rule reaches falls out of the walk     *)
(* without having been reported as it is.                                   *)
THEOREM Invariant == Spec => []IInv
<1>1. Init => IInv
  BY InitEstablishes
<1>2. IInv /\ [Next]_vars => IInv'
  BY NextKeeps
<1>3. QED
  BY <1>1, <1>2, PTL DEF Spec

-----------------------------------------------------------------------------
(* What every state of a check satisfies.  First: the tree stays a tree, the*)
(* walk adds and removes no entry of the database, and errors are reported  *)
(* only for what a rule reaches.                                            *)
THEOREM TypeCorrect == Spec => []TypeOK
<1>1. IInv => TypeOK
  BY DEF IInv, Types, Reported, TypeOK, Rooted, Entries
<1>2. QED
  BY <1>1, Invariant, PTL

(* When the check is finished, the report says of every object that the     *)
(* rules reach, and that nothing happened to, how it differs from the       *)
(* database, unless there is an error for one above it: whatever happens to *)
(* the other objects while the walk is under way.                           *)
THEOREM UntouchedIsReported == Spec => []UntouchedReported
<1>1. ASSUME IInv, Finished, NEW s \in specs, NEW p \in Path, Reaches(s, p), p \notin touched,
             \A e \in Path : <<s.start, e>> \in errors /\ AtOrAbove(e, p)
                            => e \notin DOMAIN fs \cup touched
      PROVE  {e \in report : e.rule = s.start /\ e.path = p} = Expected(fs, was, s, p)
  <2>1. s \notin todo /\ walk = <<>> /\ opening = <<>>
    BY <1>1 DEF Finished, Idle
  <2>2. ~OldDue(s, p) /\ ~NewDue(s, p)
    BY <2>1 DEF OldDue, NewDue, OldToCome, NewToCome
  <2>3. Status(s, p)
    BY <1>1 DEF IInv, Progress
  <2>4. Right(s, p)
    BY <2>1, <2>2, <2>3 DEF Status
  <2>5. ~Excused(s, p)
    BY <1>1 DEF Excused
  <2>6. QED
    BY <2>4, <2>5, <1>1 DEF Right, EntriesAt
<1>2. IInv => UntouchedReported
  BY <1>1 DEF UntouchedReported
<1>3. QED
  BY <1>2, Invariant, PTL

(* No object is reported twice, by one rule or by two, and each only by the *)
(* rule it is in: the report can be applied to the database.                *)
THEOREM NothingReportedTwice == Spec => []ReportedOnce
<1>1. IInv => ReportedOnce
  BY DEF IInv, Reported
<1>2. QED
  BY <1>1, Invariant, PTL

(* The report of a check, whatever the policy, the file system and what     *)
(* becomes of it meanwhile: all that differs, and nothing twice.            *)
THEOREM ReportIsRight == Spec => []ReportsRight
<1>1. UntouchedReported /\ ReportedOnce => ReportsRight
  BY DEF ReportsRight
<1>2. QED
  BY <1>1, UntouchedIsReported, NothingReportedTwice, PTL

(* An object of which nothing could be learnt is reported with an error     *)
(* beside it, or is a mount point.                                          *)
THEOREM NoPhantomWithoutError == Spec => []PhantomHasError
<1>1. IInv => PhantomHasError
  BY DEF IInv, Reported
<1>2. QED
  BY <1>1, Invariant, PTL


-----------------------------------------------------------------------------
(* FCOs, and what a check that is part of an update makes of them.          *)

LookedObject == Object \cup {InvalidObject}

LEMMA ObjectFacts ==
  ASSUME NEW o \in LookedObject, NEW ps
  PROVE  LET f == CalcProps(o, ps)
         IN /\ f = [x \in DOMAIN f |-> f[x]]
            /\ DOMAIN f = IF o = InvalidObject THEN {"type"} ELSE ps
            /\ \A x \in DOMAIN f : f[x] = PropValue(o, x)
            /\ "type" \in DOMAIN f => (f["type"] = "invalid" <=> o = InvalidObject)
<1>1. \A w \in Object : w # InvalidObject /\ w.type # "invalid"
  BY DEF Object, InvalidObject
<1>2. InvalidObject.type = "invalid"
  BY DEF InvalidObject
<1>3. PropValue(o, "type") = o.type
  BY DEF PropValue
<1>4. o.type = "invalid" <=> o = InvalidObject
  BY <1>1, <1>2 DEF LookedObject
<1>5. QED
  BY <1>3, <1>4 DEF CalcProps

(* What the new policy keeps of an FCO is still one, as is what is added.   *)
LEMMA KeptFco ==
  ASSUME NEW o \in LookedObject, NEW ps, NEW qs, "type" \in qs
  PROVE  \E rs \in SUBSET qs : KeepProps(CalcProps(o, ps), qs) = CalcProps(o, rs)
<1> DEFINE f == CalcProps(o, ps)
           g == CalcProps(o, ps \cap qs)
<1>1. /\ DOMAIN f = IF o = InvalidObject THEN {"type"} ELSE ps
      /\ \A x \in DOMAIN f : f[x] = PropValue(o, x)
  BY ObjectFacts
<1>2. /\ DOMAIN g = IF o = InvalidObject THEN {"type"} ELSE ps \cap qs
      /\ \A x \in DOMAIN g : g[x] = PropValue(o, x)
      /\ g = [x \in DOMAIN g |-> g[x]]
  BY ObjectFacts
<1> HIDE DEF f, g
<1>3. DOMAIN f \cap qs = DOMAIN g
  BY <1>1, <1>2
<1>4. KeepProps(f, qs) = g
  BY <1>1, <1>2, <1>3 DEF KeepProps
<1>5. QED
  BY <1>4 DEF f, g

LEMMA AdjustedTo ==
  ASSUME NEW s, NEW old, NEW new
  PROVE  Adjusted(s, old, new) = AddProps(KeepProps(old, s.props), new)
BY PolicyUpdateAssumption DEF Adjusted

LEMMA AdjustedIsFco ==
  ASSUME NEW s, "type" \in s.props, NEW w \in LookedObject, NEW ps, NEW o \in LookedObject
  PROVE  Adjusted(s, CalcProps(w, ps), CalcProps(o, s.props)) \in Fcos(s.props)
<1>1. PICK rs \in SUBSET s.props : KeepProps(CalcProps(w, ps), s.props) = CalcProps(w, rs)
  BY KeptFco
<1>2. AddProps(CalcProps(w, rs), CalcProps(o, s.props)) \in Fcos(s.props)
  BY FcosFacts DEF LookedObject
<1>3. QED
  BY <1>1, <1>2, AdjustedTo

(* The properties compared are those of both sides.                         *)
LEMMA ComparedBoth ==
  ASSUME NEW s, NEW old, NEW o \in LookedObject, "type" \in s.props
  PROVE  LET new == CalcProps(o, s.props)
         IN CompareFCOs(s, old, new) = {x \in DOMAIN old \cap DOMAIN new : old[x] # new[x]}
<1> DEFINE new == CalcProps(o, s.props)
<1>1. DOMAIN new \subseteq s.props
  BY ObjectFacts
<1>2. PropsToCheck(s, old, new) = DOMAIN old \cap DOMAIN new
  BY <1>1, PolicyUpdateAssumption DEF PropsToCheck
<1>3. QED
  BY <1>2 DEF CompareFCOs, Differing

(* Where both sides agree in what both have, the database has the object    *)
(* afterwards as the new policy asks for it.                                *)
LEMMA AdjustedAlike ==
  ASSUME NEW s, "type" \in s.props, NEW w \in LookedObject, NEW ps, "type" \in ps,
         NEW o \in LookedObject,
         CompareFCOs(s, CalcProps(w, ps), CalcProps(o, s.props)) = {}
  PROVE  Adjusted(s, CalcProps(w, ps), CalcProps(o, s.props)) = CalcProps(o, s.props)
<1> DEFINE old == CalcProps(w, ps)
           new == CalcProps(o, s.props)
           kept == KeepProps(old, s.props)
<1>1. /\ DOMAIN new = IF o = InvalidObject THEN {"type"} ELSE s.props
      /\ new = [x \in DOMAIN new |-> new[x]]
      /\ "type" \in DOMAIN new
      /\ new["type"] = "invalid" <=> o = InvalidObject
  BY ObjectFacts
<1>2. /\ DOMAIN old = IF w = InvalidObject THEN {"type"} ELSE ps
      /\ "type" \in DOMAIN old
      /\ old["type"] = "invalid" <=> w = InvalidObject
  BY ObjectFacts
<1>3. \A x \in DOMAIN old \cap DOMAIN new : old[x] = new[x]
  BY ComparedBoth
<1> HIDE DEF old, new
<1>4. DOMAIN kept = DOMAIN old \cap s.props /\ \A x \in DOMAIN kept : kept[x] = old[x]
  BY DEF KeepProps
<1>5. DOMAIN kept \subseteq DOMAIN new
  BY <1>1, <1>2, <1>3, <1>4
<1> HIDE DEF kept
<1>6. AddProps(kept, new) = new
  BY <1>1, <1>3, <1>4, <1>5 DEF AddProps
<1>7. QED
  BY <1>6, AdjustedTo DEF old, new, kept

-----------------------------------------------------------------------------
(* What an update begins with.                                              *)

Given == \E policy, oldPolicy \in Policies, before \in FileSystems :
           /\ specs = CreateFCOSpecs(policy)
           /\ oldSpecs = CreateFCOSpecs(oldPolicy)
           /\ was = DbOf(Snapshot(before, oldSpecs))

LEMMA GivenFacts ==
  ASSUME Given
  PROVE  /\ IsDb(was)
         /\ \A p : HasFCOData(was, p) =>
              /\ p \in Path
              /\ \E t \in oldSpecs : /\ Reaches(t, p) /\ "type" \in t.props
                                     /\ \E o \in LookedObject : was.data[p] = CalcProps(o, t.props)
         /\ \A s \in specs : "type" \in s.props /\ NoData \notin Fcos(s.props)
<1>1. PICK policy \in Policies, oldPolicy \in Policies, before \in FileSystems :
        /\ specs = CreateFCOSpecs(policy)
        /\ oldSpecs = CreateFCOSpecs(oldPolicy)
        /\ was = DbOf(Snapshot(before, oldSpecs))
  BY DEF Given
<1>2. /\ PolicyAssumption(policy) /\ PolicyAssumption(oldPolicy)
      /\ DataAssumption(policy) /\ DataAssumption(oldPolicy) /\ TreeAssumption(before)
  BY CheckAssumption, PolicyUpdateAssumption
<1>3. /\ IsDb(was) /\ Entries(was) \subseteq Path
      /\ \A p : HasFCOData(was, p) <=> /\ p \in DOMAIN before
                                       /\ \E t \in oldSpecs : Reaches(t, p) /\ Seen(before, t, p)
      /\ \A t \in oldSpecs : \A p : Reaches(t, p) /\ Seen(before, t, p) =>
           was.data[p] = FcoOf(before, t, p)
  BY <1>1, <1>2, SnapshotFacts
<1>4. ASSUME NEW p, HasFCOData(was, p)
      PROVE  /\ p \in Path
             /\ \E t \in oldSpecs : /\ Reaches(t, p) /\ "type" \in t.props
                                    /\ \E o \in LookedObject : was.data[p] = CalcProps(o, t.props)
  <2>1. PICK t \in oldSpecs : Reaches(t, p) /\ Seen(before, t, p)
    BY <1>3, <1>4
  <2>2. was.data[p] = CalcProps(InitializeTypeInfo(before, t, p), t.props)
    BY <1>3, <2>1 DEF FcoOf
  <2>3. InitializeTypeInfo(before, t, p) \in LookedObject
    BY <1>2, LookedAt DEF LookedObject
  <2>4. "type" \in t.props
    BY <1>1, <1>2, RuleFacts
  <2>5. QED
    BY <1>3, <1>4, <2>1, <2>2, <2>3, <2>4 DEF HasFCOData
<1>5. \A s \in specs : "type" \in s.props /\ NoData \notin Fcos(s.props)
  BY <1>1, <1>2, RuleFacts DEF DataAssumption
<1>6. QED
  BY <1>3, <1>4, <1>5

(* What a check calculates is an FCO.                                       *)
LEMMA CalculatedIsFco ==
  ASSUME Given, NEW s \in specs, NEW o \in LookedObject
  PROVE  CalcProps(o, s.props) # NoData
<1>1. CalcProps(o, s.props) \in Fcos(s.props)
  BY FcosFacts DEF LookedObject
<1>2. QED
  BY <1>1, GivenFacts

(* Adjusting an object does not change whether there is one.                *)
LEMMA AdaptedHeld ==
  ASSUME Given, NEW p, Entries(db) = Entries(was), p \in Entries(was) => Adapted(p)
  PROVE  HasFCOData(db, p) <=> HasFCOData(was, p)
<1>1. CASE p \notin Entries(was)
  BY <1>1 DEF HasFCOData
<1>2. CASE p \in Entries(was) /\ db.data[p] = was.data[p]
  BY <1>2 DEF HasFCOData
<1>3. CASE p \in Entries(was) /\ db.data[p] # was.data[p]
  <2>1. HasFCOData(was, p)
    BY <1>3 DEF Adapted
  <2>2. PICK s \in specs, o \in LookedObject :
          db.data[p] = Adjusted(s, was.data[p], CalcProps(o, s.props))
    BY <1>3 DEF Adapted, LookedObject
  <2>3. PICK t \in oldSpecs, w \in LookedObject : was.data[p] = CalcProps(w, t.props)
    BY <2>1, GivenFacts
  <2>4. db.data[p] \in Fcos(s.props)
    BY <2>2, <2>3, GivenFacts, AdjustedIsFco
  <2>5. db.data[p] # NoData
    BY <2>4, GivenFacts
  <2>6. QED
    BY <1>3, <2>1, <2>5 DEF HasFCOData
<1>4. QED
  BY <1>1, <1>2, <1>3

-----------------------------------------------------------------------------
(* While nothing happens, no call fails, no error is for an object that is  *)
(* there, and only directories are gone into.                               *)
Undisturbed ==
  /\ faults \in Nat
  /\ faults = 0 => /\ touched = {}
                   /\ \A e \in errors : e[2] \notin DOMAIN fs
                   /\ \A i \in DOMAIN opening : opening[i].new => IsDir(fs, opening[i].dir)

(* Only directories are gone into.                                          *)
IntoDirs == \A i \in DOMAIN opening' : opening'[i].new => IsDir(fs, opening'[i].dir)

LEMMA BelowDirs ==
  ASSUME NEW p, NEW a, NEW b \in BOOLEAN, opening' = Below(p, a, b), b => IsDir(fs, p)
  PROVE  IntoDirs
BY DEF Below, IntoDirs

LEMMA LookedDir ==
  ASSUME NEW s, NEW p, NEW works
  PROVE  Look(s, p, works).type = "dir" => IsDir(fs, p)
<1>1. InvalidObject.type # "dir"
  BY DEF InvalidObject
<1>2. QED
  BY <1>1 DEF Look, InitializeTypeInfo, IsDir

LEMMA BelowLooked ==
  ASSUME NEW s, NEW p, NEW works, NEW a,
         opening' = Below(p, a, Look(s, p, works).type = "dir")
  PROVE  IntoDirs
<1>1. PICK b \in BOOLEAN : b = (Look(s, p, works).type = "dir")
  OBVIOUS
<1>2. opening' = Below(p, a, b)
  BY <1>1, Zenon
<1>3. b => Look(s, p, works).type = "dir"
  BY <1>1, Zenon
<1>4. b => IsDir(fs, p)
  BY <1>3, LookedDir
<1>5. QED
  BY <1>2, <1>4, BelowDirs

(* The database keeps its form, and what is gone into is a directory.       *)
LEMMA ProcessedObject ==
  ASSUME NEW s, NEW p, NEW works, IsDb(db),
         \/ ProcessRemovedFCO(s, p)
         \/ ProcessAddedFCO(s, p, Look(s, p, works))
         \/ ProcessChangedFCO(s, p, Look(s, p, works))
  PROVE  IntoDirs /\ IsDb(db')
<1> DEFINE o == Look(s, p, works)
<1>1. CASE ProcessRemovedFCO(s, p)
  <2>1. opening' = Below(p, CanDescend(db, p), FALSE) /\ db' = db
    BY <1>1 DEF ProcessRemovedFCO
  <2>2. QED
    BY <2>1, BelowDirs
<1>2. CASE ProcessAddedFCO(s, p, o)
  <2>1. opening' = Below(p, FALSE, o.type = "dir") /\ db' = db
    BY <1>2 DEF ProcessAddedFCO
  <2>2. QED
    BY <2>1, BelowLooked
<1>3. CASE ProcessChangedFCO(s, p, o)
  <2>1. opening' = Below(p, CanDescend(db, p), o.type = "dir")
    BY <1>3 DEF ProcessChangedFCO
  <2>2. CASE HasFCOData(db, p)
    <3>1. CompareAndAdjust(s, p, CalcProps(o, s.props))
      BY <1>3, <2>2 DEF ProcessChangedFCO
    <3>2. \E f : db' = SetFCOData(db, p, f)
      BY <3>1 DEF CompareAndAdjust
    <3>3. IsDb(db')
      BY <2>2, <3>2, SetOver DEF HasFCOData
    <3>4. QED
      BY <2>1, <3>3, BelowLooked
  <2>3. CASE ~HasFCOData(db, p)
    <3>1. db' = db
      BY <1>3, <2>3 DEF ProcessChangedFCO
    <3>2. QED
      BY <2>1, <3>1, BelowLooked
  <2>4. QED
    BY <2>2, <2>3
<1>4. QED
  BY <1>1, <1>2, <1>3

LEMMA CalledUndisturbed ==
  ASSUME Undisturbed, NEW works \in BOOLEAN, Call(works), NEW s, NEW p, NEW fine,
         LogError(s, p, fine), works /\ ~fine /\ faults = 0 => p \notin DOMAIN fs, IntoDirs
  PROVE  Undisturbed'
<1>1. faults' \in Nat /\ (faults' = 0 => works /\ faults = 0)
  BY DEF Undisturbed, Call
<1>2. fs' = fs /\ touched' = touched
  BY DEF Call
<1>3. ASSUME faults' = 0
      PROVE  \A e \in errors' : e \in errors \/ e[2] \notin DOMAIN fs
  BY <1>1, <1>3 DEF LogError
<1>4. \A i \in DOMAIN opening' : opening'[i].new => IsDir(fs', opening'[i].dir)
  BY <1>2 DEF IntoDirs, IsDir
<1>5. QED
  BY <1>1, <1>2, <1>3, <1>4 DEF Undisturbed

LEMMA CheckUndisturbed ==
  ASSUME WalkOK, Undisturbed, IsDb(db), [Next]_vars
  PROVE  Undisturbed' /\ IsDb(db')
<1>1. ASSUME NEW works \in BOOLEAN, NEW s \in todo, ProcessSpec(s, works)
      PROVE  Undisturbed' /\ IsDb(db')
  <2>1. Call(works) /\ LogError(s, s.start, works /\ s.start \in DOMAIN fs)
    BY <1>1 DEF ProcessSpec
  <2>2. CASE UNCHANGED <<db, report, opening>>
    <3>1. opening = <<>>
      BY <1>1 DEF ProcessSpec, Idle
    <3>2. IntoDirs
      BY <2>2, <3>1 DEF IntoDirs
    <3>3. QED
      BY <2>1, <2>2, <3>2, CalledUndisturbed
  <2>3. CASE \/ ProcessRemovedFCO(s, s.start)
             \/ ProcessAddedFCO(s, s.start, Look(s, s.start, works))
             \/ ProcessChangedFCO(s, s.start, Look(s, s.start, works))
    <3>1. IntoDirs /\ IsDb(db')
      BY <2>3, ProcessedObject
    <3>2. QED
      BY <2>1, <3>1, CalledUndisturbed
  <2>4. QED
    BY <1>1, <2>2, <2>3 DEF ProcessSpec
<1>2. ASSUME NEW works \in BOOLEAN, OpenDir(works)
      PROVE  Undisturbed' /\ IsDb(db')
  <2> DEFINE p == opening[1].dir
             readable == works /\ IsDir(fs, p)
  <2>1. /\ Call(works) /\ LogError(spec, p, readable \/ ~opening[1].new)
        /\ opening' = <<>> /\ db' = db /\ opening # <<>>
    BY <1>2 DEF OpenDir
  <2>2. IntoDirs
    BY <2>1 DEF IntoDirs
  <2>3. ASSUME works, ~(readable \/ ~opening[1].new)
        PROVE  p \in DOMAIN fs /\ faults = 0 => FALSE
    <3>1. 1 \in DOMAIN opening
      BY <2>1 DEF WalkOK
    <3>2. QED
      BY <2>3, <3>1 DEF Undisturbed
  <2>4. QED
    BY <2>1, <2>2, <2>3, CalledUndisturbed
<1>3. ASSUME NEW works \in BOOLEAN, AddedObject(works)
      PROVE  Undisturbed' /\ IsDb(db')
  <2>1. /\ Call(works) /\ LogError(spec, NewName, works /\ NewName \in DOMAIN fs)
        /\ ProcessAddedFCO(spec, NewName, Look(spec, NewName, works))
    BY <1>3 DEF AddedObject
  <2>2. IntoDirs /\ IsDb(db')
    BY <2>1, ProcessedObject
  <2>3. QED
    BY <2>1, <2>2, CalledUndisturbed
<1>4. ASSUME NEW works \in BOOLEAN, ComparedObject(works)
      PROVE  Undisturbed' /\ IsDb(db')
  <2>1. /\ Call(works) /\ LogError(spec, NewName, works /\ NewName \in DOMAIN fs)
        /\ ProcessChangedFCO(spec, NewName, Look(spec, NewName, works))
    BY <1>4 DEF ComparedObject
  <2>2. IntoDirs /\ IsDb(db')
    BY <2>1, ProcessedObject
  <2>3. QED
    BY <2>1, <2>2, CalledUndisturbed
<1>5. ASSUME RemovedObject
      PROVE  Undisturbed' /\ IsDb(db')
  <2>1. ProcessRemovedFCO(spec, OldName)
    BY <1>5 DEF RemovedObject
  <2>2. IntoDirs /\ IsDb(db')
    BY <2>1, ProcessedObject
  <2>3. QED
    BY <1>5, <2>2 DEF RemovedObject, Undisturbed, IntoDirs, IsDir
<1>6. CASE SkipObject \/ LeaveDir \/ UNCHANGED vars
  BY <1>6 DEF SkipObject, LeaveDir, vars, Undisturbed, IsDir
<1>7. CASE Disturbed
  <2>1. \E p : Touch(p) /\ UNCHANGED <<db, opening, errors>>
    BY <1>7 DEF Disturbed, Disturb, CreateObject, ChangeObject, RemoveObject
  <2>2. QED
    BY <2>1 DEF Touch, Undisturbed
<1>8. QED
  BY <1>1, <1>2, <1>3, <1>4, <1>5, <1>6, <1>7 DEF Next, Step

-----------------------------------------------------------------------------
(* The invariant.                                                           *)

(* What the check that is through has reported, and is not changed by what  *)
(* is done with it.                                                         *)
Told(e) == /\ e.kind = "added" <=> ~HasFCOData(was, e.path)
           /\ e.kind # "removed" => \E s \in specs, o \in LookedObject : e.new = CalcProps(o, s.props)
Left(s, p) == Reaches(s, p) /\ p \notin touched /\ ~Excused(s, p)
Checked ==
  /\ Finished /\ Reported
  /\ DOMAIN fs \subseteq Path /\ \A p \in DOMAIN fs : fs[p] \in Object
  /\ \A e \in report : Told(e)
  /\ \A s \in specs, p \in Path : Left(s, p) => EntriesAt(s, p) = Expected(fs, was, s, p)
  /\ conflicts = {e.path : e \in {f \in report : Conflicting(f)}}

(* What an entry says there was before is what the database has now.        *)
Ready(e) == /\ e.kind = "added" <=> ~HasFCOData(db, e.path)
            /\ e.kind = "changed" => db.data[e.path] = e.old
Result(s, p) == IF Seen(fs, s, p) THEN HasFCOData(db, p) /\ db.data[p] = FcoOf(fs, s, p)
                                  ELSE ~HasFCOData(db, p)
Applying == /\ IsDb(db) /\ Contents(db) \subseteq Path
            /\ pending \subseteq report /\ \A e \in pending : Ready(e)
            /\ \A s \in specs, p \in Path :
                 Left(s, p) /\ (\A e \in pending : e.path # p) => Result(s, p)
Done == /\ NoUselessEntries
        /\ \A p \in Contents(db) : p \in Path /\ FCOInSpecList(specs, p)
        /\ \A s \in specs, p \in Path : Left(s, p) => Result(s, p)

PUInv == /\ Given /\ Undisturbed /\ refused = {}
         /\ phase \in {"check", "update", "done"}
         /\ phase = "check" => IInv /\ IsDb(db)
         /\ phase # "check" => Checked
         /\ phase = "update" => Applying
         /\ phase = "done" => Done

LEMMA GivenRules ==
  ASSUME Given
  PROVE  /\ \A s \in specs : /\ s.start \in Name \ {<<>>} /\ "type" \in s.props
                             /\ Reaches(s, s.start)
         /\ \A s, t \in specs : s.start = t.start => s = t
         /\ \A s, t \in specs, p \in Name : Reaches(s, p) /\ Reaches(t, p) => s = t
<1>1. PICK policy \in Policies : specs = CreateFCOSpecs(policy)
  BY DEF Given
<1>2. PolicyAssumption(policy)
  BY CheckAssumption
<1>3. \A s \in specs : /\ s.start \in Name \ {<<>>} /\ "type" \in s.props /\ Reaches(s, s.start)
  BY <1>1, <1>2, RuleFacts
<1>4. \A s, t \in specs : s.start = t.start => s = t
  BY <1>1, OneRuleAtStart
<1>5. \A s, t \in specs, p \in Name : Reaches(s, p) /\ Reaches(t, p) => s = t
  BY <1>1, <1>2, OneRuleReaches
<1>6. QED
  BY <1>3, <1>4, <1>5

(* What is looked at where it is seen is an object or the invalid one.      *)
LEMMA SeenFco ==
  ASSUME \A p \in DOMAIN fs : fs[p] \in Object, NEW s, NEW p
  PROVE  \E o \in LookedObject : FcoOf(fs, s, p) = CalcProps(o, s.props)
<1>1. InitializeTypeInfo(fs, s, p) \in LookedObject
  BY DEF InitializeTypeInfo, LookedObject
<1>2. QED
  BY <1>1 DEF FcoOf

(* The entry for a name that a rule reaches is of that rule.                *)
LEMMA EntryOfRule ==
  ASSUME Given, Reported, NEW e \in report, NEW s \in specs, NEW p, e.path = p, Reaches(s, p)
  PROVE  p \in Path /\ e \in EntriesAt(s, p)
<1>1. p \in Path /\ p \in Name
  BY PathFacts DEF Reported
<1>2. PICK t \in specs : t.start = e.rule /\ Reaches(t, e.path)
  BY DEF Reported, ReportedOnce
<1>3. t = s
  BY <1>1, <1>2, GivenRules
<1>4. QED
  BY <1>1, <1>2, <1>3 DEF EntriesAt

(* What is reported of an object, by what there is to be seen of it and     *)
(* what the database had.                                                   *)
LEMMA ToldOf ==
  ASSUME NEW s, NEW p, NEW e \in Expected(fs, was, s, p)
  PROVE  /\ e.kind = "removed" => ~Seen(fs, s, p) /\ HasFCOData(was, p)
         /\ e.kind # "removed" => Seen(fs, s, p) /\ e.new = FcoOf(fs, s, p)
         /\ e.kind = "added" => ~HasFCOData(was, p)
         /\ e.kind = "changed" => /\ HasFCOData(was, p)
                                  /\ CompareFCOs(s, was.data[p], FcoOf(fs, s, p)) # {}
         /\ e.path = p /\ e.kind \in {"added", "removed", "changed"}
BY DEF Expected, Added, Removed, Entry

LEMMA InitEstablishesUpdate == PUInit => PUInv
<1> SUFFICES ASSUME PUInit
             PROVE  PUInv
  OBVIOUS
<1>1. Init /\ IInv
  BY InitEstablishes DEF PUInit
<1>2. Given
  BY DEF PUInit, Init, Given
<1>3. Undisturbed
  BY DEF PUInit, Init, Undisturbed
<1>4. IsDb(db)
  BY <1>1, <1>2, GivenFacts DEF Init
<1>5. QED
  BY <1>1, <1>2, <1>3, <1>4 DEF PUInit, PUInv

(* The check goes on.                                                       *)
LEMMA CheckGoesOn ==
  ASSUME PUInv, phase = "check", [Next]_vars, UNCHANGED <<ownVars, pending, current, refused>>
  PROVE  PUInv'
<1>1. IInv' /\ Undisturbed' /\ IsDb(db')
  BY NextKeeps, CheckUndisturbed DEF PUInv, IInv
<1>2. specs' = specs /\ was' = was
  BY DEF Next, Step, ProcessSpec, OpenDir, AddedObject, ComparedObject, RemovedObject,
         SkipObject, LeaveDir, Disturbed, vars
<1>3. Given'
  BY <1>2 DEF PUInv, Given, ownVars
<1>4. QED
  BY <1>1, <1>3 DEF PUInv, ownVars

(* The check is through: what it has to report about is in the report and   *)
(* in the database as it was found, and what it does not report of is in    *)
(* the database as the new policy asks for it.                              *)
LEMMA UnreportedIsDone ==
  ASSUME Given, Types, NEW s \in specs, NEW p \in Path, Expected(fs, was, s, p) = {}, RightFco(s, p),
         HasFCOData(db, p) <=> HasFCOData(was, p)
  PROVE  Result(s, p)
<1>1. CASE ~Seen(fs, s, p)
  BY <1>1 DEF Expected, Result
<1>2. CASE Seen(fs, s, p)
  <2>1. HasFCOData(was, p) /\ CompareFCOs(s, was.data[p], FcoOf(fs, s, p)) = {}
    BY <1>2 DEF Expected
  <2>2. PICK t \in oldSpecs, w \in LookedObject :
          "type" \in t.props /\ was.data[p] = CalcProps(w, t.props)
    BY <2>1, GivenFacts
  <2>3. PICK o \in LookedObject : FcoOf(fs, s, p) = CalcProps(o, s.props)
    BY SeenFco DEF Types
  <2>4. Adjusted(s, was.data[p], FcoOf(fs, s, p)) = FcoOf(fs, s, p)
    BY <2>1, <2>2, <2>3, GivenFacts, AdjustedAlike
  <2>5. QED
    BY <1>2, <2>1, <2>4 DEF RightFco, Result
<1>3. QED
  BY <1>1, <1>2

LEMMA CheckIsThrough ==
  ASSUME PUInv, phase = "check", ReportConflicts
  PROVE  PUInv'
<1>1. /\ Given /\ Undisturbed /\ Types /\ Progress /\ Reported /\ Fitting
      /\ IsDb(db) /\ Finished
  BY DEF PUInv, IInv, ReportConflicts
<1>2. /\ fs' = fs /\ faults' = faults /\ touched' = touched /\ specs' = specs /\ todo' = todo
      /\ was' = was /\ walk' = walk /\ opening' = opening /\ report' = report /\ errors' = errors
      /\ db' = db /\ oldSpecs' = oldSpecs /\ pending' = report /\ refused' = refused
      /\ phase' = "update" /\ conflicts' = {e.path : e \in {f \in report : Conflicting(f)}}
  BY DEF ReportConflicts, vars
<1>3. \A p : HasFCOData(db, p) <=> HasFCOData(was, p)
  BY <1>1, AdaptedHeld DEF Types, Fitting
<1>4. \A s \in specs, p \in Path : Reaches(s, p) => Right(s, p)
  <2>1. todo = {} /\ \A q : ~OldToCome(walk, opening, q) /\ ~NewToCome(walk, opening, q)
    BY <1>1 DEF Finished, Idle, OldToCome, NewToCome
  <2>2. QED
    BY <1>1, <2>1 DEF Progress, Status, OldDue, NewDue
<1>5. \A e \in report : Told(e) /\ Ready(e)
  BY <1>1, <1>3 DEF Fitting, Suits, Told, Ready, LookedObject
<1>6. ASSUME NEW s \in specs, NEW p \in Path, Left(s, p)
      PROVE  /\ EntriesAt(s, p) = Expected(fs, was, s, p)
             /\ (\A e \in report : e.path # p) => Result(s, p)
  <2>1. EntriesAt(s, p) = Expected(fs, was, s, p) /\ RightFco(s, p)
    BY <1>4, <1>6 DEF Left, Right
  <2>2. (\A e \in report : e.path # p) => EntriesAt(s, p) = {}
    BY DEF EntriesAt
  <2>3. QED
    BY <1>1, <1>3, <2>1, <2>2, UnreportedIsDone
<1>7. Contents(db) \subseteq Path
  BY <1>3, GivenFacts, <1>1 DEF Contents
<1>8. Checked'
  <2>1. Finished' /\ Reported'
    BY <1>1, <1>2 DEF Finished, Idle, Reported, ReportedOnce, PhantomHasError
  <2>2. \A f : Conflicting(f)' <=> Conflicting(f)
    BY <1>2 DEF Conflicting, FCOInSpecList
  <2>3. conflicts' = {e.path : e \in {f \in report' : Conflicting(f)'}}
    BY <1>2, <2>2
  <2>4. \A s, p : (Left(s, p)' <=> Left(s, p)) /\ EntriesAt(s, p)' = EntriesAt(s, p)
    BY <1>2 DEF Left, EntriesAt, Excused
  <2>5. \A e : Told(e)' <=> Told(e)
    BY <1>2 DEF Told
  <2>6. QED
    BY <1>1, <1>2, <1>5, <1>6, <2>1, <2>3, <2>4, <2>5 DEF Checked, Types
<1>9. Applying'
  <2>1. \A e : Ready(e)' <=> Ready(e)
    BY <1>2 DEF Ready
  <2>2. \A s, p : (Left(s, p)' <=> Left(s, p)) /\ (Result(s, p)' <=> Result(s, p))
    BY <1>2 DEF Left, Excused, Result
  <2>3. QED
    BY <1>1, <1>2, <1>5, <1>6, <1>7, <2>1, <2>2 DEF Applying
<1>10. Given' /\ Undisturbed'
  BY <1>1, <1>2 DEF Given, Undisturbed, IsDir
<1>11. QED
  BY <1>2, <1>8, <1>9, <1>10 DEF PUInv

-----------------------------------------------------------------------------
(* The update works on the database as the check does.                      *)
LEMMA UpdateOperators ==
  /\ \A d, p : Update!HasFCOData(d, p) <=> HasFCOData(d, p)
  /\ \A d, p, f : Update!SetFCOData(d, p, f) = SetFCOData(d, p, f)
  /\ \A d, p : Update!CreatePath(d, p) = CreatePath(d, p)
  /\ \A d, p : Update!RemoveFCOFromDb(d, p) = RemoveFCOFromDb(d, p)
  /\ \A f : Update!Differing(f, f, DOMAIN f) = {}
  /\ \A e : Update!NewData(e) = e.new
<1>1. \A d, p : Update!HasFCOData(d, p) <=> HasFCOData(d, p)
  BY DEF Update!HasFCOData, HasFCOData, Update!Entries, Entries
<1>2. \A d, p, f : Update!SetFCOData(d, p, f) = SetFCOData(d, p, f)
  BY DEF Update!SetFCOData, SetFCOData
<1>3. \A d, p : Update!CreatePath(d, p) = CreatePath(d, p)
  BY DEF Update!CreatePath, CreatePath, Update!WithEntries, WithEntries, Update!PathsTo, PathsTo,
         Update!Prefixes, Prefixes, Update!Entries, Entries, Update!Front, Front
<1>4. \A d, p : Update!RemoveFCOFromDb(d, p) = RemoveFCOFromDb(d, p)
  BY DEF Update!RemoveFCOFromDb, RemoveFCOFromDb, Update!SetFCOData, SetFCOData,
         Update!CanDescend, CanDescend, Update!RemoveFCO, RemoveFCO, Update!FoldLeft, FoldLeft,
         Update!MapThenFoldSet, MapThenFoldSet, Update!RemoveIfEmpty, RemoveIfEmpty,
         Update!Entries, Entries, Update!HasFCOData, HasFCOData,
         Update!RemoveChildArray, RemoveChildArray,
         Update!CanRemoveChildArray, CanRemoveChildArray, Update!Children, Children,
         Update!Front, Front, Update!Max, Max
<1>5. \A f : Update!Differing(f, f, DOMAIN f) = {}
  BY DEF Update!Differing
<1>6. \A e : Update!NewData(e) = e.new
  BY DEF Update!NewData
<1>7. QED
  BY <1>1, <1>2, <1>3, <1>4, <1>5, <1>6

(* An entry that is ready is applied: its name has what the entry brings,   *)
(* or nothing if it says that the object is gone, and no other changes.     *)
AppliedTo(e) == /\ IsDb(db') /\ SameBut(db, db', e.path)
                /\ IF e.kind = "removed" THEN ~HasFCOData(db', e.path)
                   ELSE HasFCOData(db', e.path) /\ db'.data[e.path] = e.new
                /\ pending' = pending \ {e} /\ refused' = refused

LEMMA ReadyIsApplied ==
  ASSUME IsDb(db), NEW e, e.path \in Path, Ready(e), e.kind # "removed" => e.new # NoData,
         Update!AddFCOOf(e) \/ Update!RemoveFCOOf(e) \/ Update!ChangeFCOOf(e)
  PROVE  AppliedTo(e)
<1>1. e.path \in Name /\ e.path # <<>>
  BY PathFacts
<1>2. CASE Update!AddFCOOf(e)
  <2>1. /\ e.kind = "added" /\ pending' = pending \ {e} /\ refused' = refused
        /\ db' = SetFCOData(CreatePath(db, e.path), e.path, e.new)
    BY <1>2, UpdateOperators DEF Update!AddFCOOf, Update!Take, Update!Apply, Ready
  <2>2. QED
    BY <1>1, <2>1, CreateAndSet DEF AppliedTo
<1>3. CASE Update!RemoveFCOOf(e)
  <2>1. /\ e.kind = "removed" /\ pending' = pending \ {e} /\ refused' = refused
        /\ db' = RemoveFCOFromDb(db, e.path) /\ HasFCOData(db, e.path)
    BY <1>3, UpdateOperators DEF Update!RemoveFCOOf, Update!Take, Update!Apply, Ready
  <2>2. QED
    BY <2>1, RemovedFromDb DEF AppliedTo
<1>4. CASE Update!ChangeFCOOf(e)
  <2>1. e.kind = "changed" /\ pending' = pending \ {e}
    BY <1>4 DEF Update!ChangeFCOOf, Update!Take
  <2>2. HasFCOData(db, e.path) /\ db.data[e.path] = e.old
    BY <2>1 DEF Ready
  <2>3. Update!HasFCOData(db, e.path) /\ Update!Differing(e.old, db.data[e.path], DOMAIN e.old) = {}
    BY <2>2, UpdateOperators
  <2>4. db' = SetFCOData(db, e.path, e.new) /\ refused' = refused
    BY <1>4, <2>3, UpdateOperators DEF Update!ChangeFCOOf, Update!Apply
  <2>5. e.path \in Entries(db) /\ e.new # NoData
    BY <2>1, <2>2 DEF HasFCOData
  <2>6. QED
    BY <2>1, <2>4, <2>5, SetOver DEF AppliedTo
<1>5. QED
  BY <1>2, <1>3, <1>4

LEMMA ReportGoesOn ==
  ASSUME PUInv, ApplyReport
  PROVE  PUInv'
<1>1. PICK e \in pending : Update!AddFCOOf(e) \/ Update!RemoveFCOOf(e) \/ Update!ChangeFCOOf(e)
  BY DEF ApplyReport, Update!UpdateStep
<1>2. /\ phase = "update" /\ Given /\ Undisturbed /\ Checked /\ Applying /\ refused = {}
      /\ Reported /\ e \in report /\ Told(e) /\ Ready(e) /\ e.path \in Path
  BY DEF PUInv, ApplyReport, Applying, Checked, Reported
<1>3. /\ fs' = fs /\ faults' = faults /\ touched' = touched /\ specs' = specs /\ todo' = todo
      /\ was' = was /\ walk' = walk /\ opening' = opening /\ report' = report /\ errors' = errors
      /\ oldSpecs' = oldSpecs /\ phase' = phase /\ conflicts' = conflicts
  BY DEF ApplyReport, ownVars
<1>4. e.kind # "removed" => e.new # NoData
  BY <1>2, CalculatedIsFco DEF Told
<1>5. AppliedTo(e)
  BY <1>1, <1>2, <1>4, ReadyIsApplied DEF Applying
<1>6. \A f \in pending : f # e => f.path # e.path
  BY <1>2 DEF Applying, Reported, ReportedOnce
<1>7. ASSUME NEW f \in pending', f.path # e.path
      PROVE  Ready(f)'
  <2>1. Ready(f)
    BY <1>2, <1>5, <1>7 DEF AppliedTo, Applying
  <2>2. /\ HasFCOData(db', f.path) <=> HasFCOData(db, f.path)
        /\ HasFCOData(db, f.path) => db'.data[f.path] = db.data[f.path]
    BY <1>5, <1>7 DEF AppliedTo, SameBut
  <2>3. QED
    BY <2>1, <2>2 DEF Ready
<1>8. ASSUME NEW s \in specs, NEW p \in Path, Left(s, p), \A f \in pending' : f.path # p
      PROVE  Result(s, p)'
  <2>1. CASE p # e.path
    <3>1. Result(s, p)
      BY <1>2, <1>5, <1>8, <2>1 DEF AppliedTo, Applying
    <3>2. /\ HasFCOData(db', p) <=> HasFCOData(db, p)
          /\ HasFCOData(db, p) => db'.data[p] = db.data[p]
      BY <1>5, <2>1 DEF AppliedTo, SameBut
    <3>3. QED
      BY <1>3, <3>1, <3>2 DEF Result
  <2>2. CASE p = e.path
    <3>1. e \in EntriesAt(s, p)
      BY <1>2, <1>8, <2>2, EntryOfRule DEF Left
    <3>2. e \in Expected(fs, was, s, p)
      BY <1>2, <1>8, <3>1 DEF Checked
    <3>3. /\ e.kind = "removed" => ~Seen(fs, s, p)
          /\ e.kind # "removed" => Seen(fs, s, p) /\ e.new = FcoOf(fs, s, p)
      BY <3>2, ToldOf
    <3>4. QED
      BY <1>3, <1>5, <2>2, <3>3 DEF AppliedTo, Result
  <2>3. QED
    BY <2>1, <2>2
<1>9. Contents(db') \subseteq Path
  BY <1>2, <1>5 DEF Applying, AppliedTo, SameBut, Contents, HasFCOData
<1>10. \A s, p : (Left(s, p)' <=> Left(s, p)) /\ EntriesAt(s, p)' = EntriesAt(s, p)
  BY <1>3 DEF Left, EntriesAt, Excused
<1>11. Applying'
  <2>1. \A f \in pending' : f.path # e.path
    BY <1>5, <1>6 DEF AppliedTo
  <2>2. pending' \subseteq report'
    BY <1>2, <1>3, <1>5 DEF AppliedTo, Applying
  <2>3. QED
    BY <1>3, <1>5, <1>7, <1>8, <1>9, <1>10, <2>1, <2>2 DEF Applying, AppliedTo
<1>12. Checked'
  <2>1. Finished' /\ Reported'
    BY <1>2, <1>3 DEF Checked, Finished, Idle, Reported, ReportedOnce, PhantomHasError
  <2>2. \A f : (Conflicting(f)' <=> Conflicting(f)) /\ (Told(f)' <=> Told(f))
    BY <1>3 DEF Conflicting, FCOInSpecList, Told
  <2>3. QED
    BY <1>2, <1>3, <1>10, <2>1, <2>2 DEF Checked
<1>13. Given' /\ Undisturbed' /\ refused' = {}
  BY <1>2, <1>3, <1>5 DEF Given, Undisturbed, IsDir, AppliedTo
<1>14. QED
  BY <1>2, <1>3, <1>11, <1>12, <1>13 DEF PUInv

-----------------------------------------------------------------------------
(* What a rule reaches, and what it contains.  With a limit of the depth it *)
(* contains objects that it does not reach.                                 *)
NoDepthLimit == \A policy \in Policies : \A p \in DOMAIN policy.rules :
                  policy.rules[p].depth \in {0, RecurseInfinite}

LEMMA ReachedIsContained ==
  ASSUME NEW policy, PolicyAssumption(policy), NEW s \in CreateFCOSpecs(policy),
         NEW p \in Name, Reaches(s, p)
  PROVE  SpecContainsFCO(s, p)
<1>1. s.start \in Name /\ AtOrAbove(s.start, p)
  BY RuleFacts DEF Reaches
<1>2. /\ Len(p) \in Nat /\ Len(s.start) \in Nat /\ Len(s.start) <= Len(p)
  BY <1>1, AboveFacts, NameFacts
<1>3. CASE s.depth = 0
  <2>1. ~ShouldStopDescent(s, p)
    BY <1>1, ReachedNotStopped
  <2>2. Len(p) <= Len(s.start)
    BY <1>2, <1>3, <2>1 DEF ShouldStopDescent, RecurseInfinite
  <2>3. p = s.start
    BY <1>1, <1>2, <2>2, AboveFacts
  <2>4. QED
    BY <1>3, <2>3 DEF SpecContainsFCO
<1>4. CASE s.depth # 0
  <2>1. ASSUME NEW q \in s.stops, AtOrAbove(q, p)
        PROVE  FALSE
    <3>1. q \in StopList(policy) /\ Above(s.start, q)
      BY <1>4, RuleFacts DEF Covers
    <3>2. q \in Name /\ AtOrAbove(s.start, q)
      BY <3>1 DEF PolicyAssumption, Above, Name
    <3>3. Reaches(s, q)
      BY <1>1, <2>1, <3>2, ReachedAbove
    <3>4. QED
      BY <1>1, <3>2, <3>3, ReachedNotStopped DEF ShouldStopDescent
  <2>2. QED
    BY <1>1, <1>4, <2>1 DEF SpecContainsFCO, ContainsFCO
<1>5. QED
  BY <1>3, <1>4

LEMMA ContainedIsReached ==
  ASSUME NEW policy, PolicyAssumption(policy), NEW s \in CreateFCOSpecs(policy),
         s.depth \in {0, RecurseInfinite}, NEW p \in Name, SpecContainsFCO(s, p)
  PROVE  Reaches(s, p)
<1>1. s.start \in Name /\ Len(s.start) \in Nat /\ Len(p) \in Nat
  BY RuleFacts, NameFacts
<1>2. CASE s.depth = 0
  BY <1>2, RuleFacts DEF SpecContainsFCO
<1>3. CASE s.depth = RecurseInfinite
  <2>1. AtOrAbove(s.start, p) /\ \A q \in s.stops : ~AtOrAbove(q, p)
    BY <1>3 DEF SpecContainsFCO, ContainsFCO, RecurseInfinite
  <2>2. ASSUME NEW n \in Len(s.start)..Len(p)
        PROVE  ~ShouldStopDescent(s, SubSeq(p, 1, n))
    <3>1. n \in 0..Len(p)
      BY <1>1
    <3>2. AtOrAbove(SubSeq(p, 1, n), p)
      BY <3>1, BeginningIsAbove
    <3>3. QED
      BY <1>3, <2>1, <3>2 DEF ShouldStopDescent
  <2>3. QED
    BY <2>1, <2>2 DEF Reaches
<1>4. QED
  BY <1>2, <1>3

LEMMA ReachedByRules ==
  ASSUME Given, NEW p \in Name
  PROVE  /\ \A s \in specs : Reaches(s, p) => FCOInSpecList(specs, p)
         /\ \A t \in oldSpecs : Reaches(t, p) => FCOInSpecList(oldSpecs, p)
         /\ NoDepthLimit => /\ FCOInSpecList(specs, p) => \E s \in specs : Reaches(s, p)
                            /\ FCOInSpecList(oldSpecs, p) => \E t \in oldSpecs : Reaches(t, p)
<1>1. PICK policy \in Policies, oldPolicy \in Policies :
        specs = CreateFCOSpecs(policy) /\ oldSpecs = CreateFCOSpecs(oldPolicy)
  BY DEF Given
<1>2. PolicyAssumption(policy) /\ PolicyAssumption(oldPolicy)
  BY CheckAssumption
<1>3. /\ \A s \in specs : Reaches(s, p) => SpecContainsFCO(s, p)
      /\ \A t \in oldSpecs : Reaches(t, p) => SpecContainsFCO(t, p)
  BY <1>1, <1>2, ReachedIsContained
<1>4. ASSUME NoDepthLimit
      PROVE  /\ \A s \in specs : s.depth \in {0, RecurseInfinite}
             /\ \A t \in oldSpecs : t.depth \in {0, RecurseInfinite}
  BY <1>1, <1>4 DEF NoDepthLimit, CreateFCOSpecs
<1>5. ASSUME NoDepthLimit
      PROVE  /\ \A s \in specs : SpecContainsFCO(s, p) => Reaches(s, p)
             /\ \A t \in oldSpecs : SpecContainsFCO(t, p) => Reaches(t, p)
  BY <1>1, <1>2, <1>4, <1>5, ContainedIsReached
<1>6. QED
  BY <1>3, <1>5 DEF FCOInSpecList

(* Pruning keeps what the rules contain, and what is above it.              *)
LEMMA PrunedFacts ==
  ASSUME NEW d, IsDb(d)
  PROVE  LET e == Pruned(d)
         IN /\ Rooted(e)
            /\ \A p \in Entries(e) : HasFCOData(e, p) \/ Children(e, p) # {}
            /\ \A p : HasFCOData(e, p) <=> HasFCOData(d, p) /\ FCOInSpecList(specs, p)
            /\ \A p : HasFCOData(e, p) => e.data[p] = d.data[p]
<1> DEFINE kept == {p \in Contents(d) : FCOInSpecList(specs, p)}
           stay == UNION {PathsTo(p) : p \in kept}
           e == Pruned(d)
<1>1. /\ Entries(e) = stay
      /\ \A p \in stay : e.data[p] = IF p \in kept THEN d.data[p] ELSE NoData
      /\ e.arrays = {a \in d.arrays : a = <<>> \/ a \in kept \/ \E p \in stay : Above(a, p)}
  BY DEF Pruned, Entries
<1>2. kept \subseteq Name \ {<<>>} /\ kept \subseteq Entries(d)
  BY DEF Contents, IsDb
<1>3. \A q : q \in stay <=> q \in Name \ {<<>>} /\ \E p \in kept : AtOrAbove(q, p)
  BY <1>2, PrefixSets
<1>4. kept \subseteq stay
  BY <1>2, <1>3, AtOrAboveOrder
<1>5. \A p \in kept : FCOInSpecList(specs, p) /\ HasFCOData(d, p) /\ d.data[p] # NoData
  BY DEF Contents, HasFCOData
<1>6. \A p : HasFCOData(d, p) /\ FCOInSpecList(specs, p) => p \in kept
  BY DEF Contents, HasFCOData
<1> HIDE DEF kept, stay, e
<1>7. \A p : HasFCOData(e, p) <=> p \in kept
  BY <1>1, <1>4, <1>5 DEF HasFCOData
<1>8. ASSUME NEW q \in stay
      PROVE  /\ q \in kept \/ \E n \in Int : Append(q, n) \in stay /\ Front(Append(q, n)) = q
             /\ Front(q) \in e.arrays
  <2>1. PICK p \in kept : q \in Name \ {<<>>} /\ AtOrAbove(q, p) /\ p \in Name
    BY <1>2, <1>3
  <2>2. ASSUME q # p
        PROVE  \E n \in Int : Append(q, n) \in stay /\ Front(Append(q, n)) = q
    <3>1. Above(q, p)
      BY <2>1, <2>2 DEF Above
    <3>2. PICK n \in Int : AtOrAbove(Append(q, n), p)
      BY <2>1, <3>1, BelowIsAtChild
    <3>3. Append(q, n) \in Name \ {<<>>} /\ Front(Append(q, n)) = q
      BY <2>1, ChildFacts
    <3>4. QED
      BY <1>3, <3>2, <3>3
  <2>3. q \in Entries(d)
    BY <1>2, <2>1, RootedFacts DEF IsDb
  <2>4. Front(q) \in d.arrays /\ Above(Front(q), q)
    BY <2>1, <2>3, FrontFacts DEF IsDb, Rooted
  <2>5. QED
    BY <1>1, <2>1, <2>2, <2>4
<1>9. ASSUME NEW a \in e.arrays, a # <<>>
      PROVE  a \in stay
  <2>1. a \in Entries(d) /\ a \in Name \ {<<>>}
    BY <1>1, <1>9 DEF IsDb, Rooted
  <2>2. CASE a \in kept
    BY <1>4, <2>2
  <2>3. ASSUME NEW q \in stay, Above(a, q)
        PROVE  a \in stay
    <3>1. PICK p \in kept : q \in Name /\ AtOrAbove(q, p) /\ p \in Name
      BY <1>2, <1>3
    <3>2. AtOrAbove(a, p)
      BY <2>1, <2>3, <3>1, AtOrAboveOrder DEF Above
    <3>3. QED
      BY <1>3, <2>1, <3>2
  <2>4. QED
    BY <1>1, <1>9, <2>2, <2>3
<1>10. Rooted(e)
  BY <1>1, <1>8, <1>9 DEF Rooted
<1>11. \A q \in Entries(e) : HasFCOData(e, q) \/ Children(e, q) # {}
  BY <1>1, <1>7, <1>8 DEF Children
<1>12. QED
  BY <1>1, <1>4, <1>5, <1>6, <1>7, <1>10, <1>11 DEF e

LEMMA PrunesWhatIsLeft ==
  ASSUME PUInv, Prune
  PROVE  PUInv'
<1>1. /\ Given /\ Undisturbed /\ Checked /\ Applying /\ refused = {} /\ pending = {}
  BY DEF PUInv, Prune
<1>2. /\ fs' = fs /\ faults' = faults /\ touched' = touched /\ specs' = specs /\ todo' = todo
      /\ was' = was /\ walk' = walk /\ opening' = opening /\ report' = report /\ errors' = errors
      /\ oldSpecs' = oldSpecs /\ phase' = "done" /\ conflicts' = conflicts /\ refused' = refused
      /\ db' = Pruned(db)
  BY DEF Prune
<1>3. /\ Rooted(db')
      /\ \A p \in Entries(db') : HasFCOData(db', p) \/ Children(db', p) # {}
      /\ \A p : HasFCOData(db', p) <=> HasFCOData(db, p) /\ FCOInSpecList(specs, p)
      /\ \A p : HasFCOData(db', p) => db'.data[p] = db.data[p]
  BY <1>1, <1>2, PrunedFacts DEF Applying
<1>4. \A s, p : (Left(s, p)' <=> Left(s, p)) /\ EntriesAt(s, p)' = EntriesAt(s, p)
  BY <1>2 DEF Left, EntriesAt, Excused
<1>5. ASSUME NEW s \in specs, NEW p \in Path, Left(s, p)
      PROVE  Result(s, p)'
  <2>1. Result(s, p)
    BY <1>1, <1>5 DEF Applying
  <2>2. FCOInSpecList(specs, p)
    BY <1>1, <1>5, PathFacts, ReachedByRules DEF Left
  <2>3. QED
    BY <1>2, <1>3, <2>1, <2>2 DEF Result
<1>6. \A p \in Contents(db') : p \in Path /\ FCOInSpecList(specs, p)'
  BY <1>1, <1>2, <1>3 DEF Applying, Contents, FCOInSpecList, HasFCOData
<1>7. Done'
  BY <1>2, <1>3, <1>4, <1>5, <1>6 DEF Done, NoUselessEntries
<1>8. Checked'
  <2>1. Finished' /\ Reported'
    BY <1>1, <1>2 DEF Checked, Finished, Idle, Reported, ReportedOnce, PhantomHasError
  <2>2. \A f : (Conflicting(f)' <=> Conflicting(f)) /\ (Told(f)' <=> Told(f))
    BY <1>2 DEF Conflicting, FCOInSpecList, Told
  <2>3. QED
    BY <1>1, <1>2, <1>4, <2>1, <2>2 DEF Checked
<1>9. Given' /\ Undisturbed' /\ refused' = {}
  BY <1>1, <1>2 DEF Given, Undisturbed, IsDir
<1>10. QED
  BY <1>2, <1>7, <1>8, <1>9 DEF PUInv

LEMMA PUNextKeeps == PUInv /\ [PUNext]_allVars => PUInv'
<1> SUFFICES ASSUME PUInv, [PUNext]_allVars
             PROVE  PUInv'
  OBVIOUS
<1>1. CASE Check \/ DisturbedUpdate
  <2>1. /\ phase = "check" /\ UNCHANGED <<ownVars, pending, current, refused>>
        /\ [Next]_vars
    BY <1>1 DEF Check, DisturbedUpdate, Next
  <2>2. QED
    BY <2>1, CheckGoesOn
<1>2. CASE ReportConflicts
  BY <1>2, CheckIsThrough DEF ReportConflicts
<1>3. CASE ApplyReport
  BY <1>3, ReportGoesOn
<1>4. CASE Prune
  BY <1>4, PrunesWhatIsLeft
<1>5. CASE UNCHANGED allVars
  <2>1. CASE phase = "check"
    BY <1>5, <2>1, CheckGoesOn DEF allVars
  <2>2. CASE phase # "check"
    <3>1. UNCHANGED <<vars, ownVars, pending, current, refused>>
      BY <1>5 DEF allVars
    <3>2. /\ Checked' <=> Checked
          /\ Applying' <=> Applying
          /\ Done' <=> Done
          /\ Given' <=> Given
          /\ Undisturbed' <=> Undisturbed
      <4>1. \A s, p : /\ Left(s, p)' <=> Left(s, p)
                      /\ EntriesAt(s, p)' = EntriesAt(s, p)
                      /\ Result(s, p)' <=> Result(s, p)
                      /\ FCOInSpecList(specs, p)' <=> FCOInSpecList(specs, p)
        BY <3>1 DEF Left, EntriesAt, Excused, Result, vars, ownVars, FCOInSpecList
      <4>2. \A f : /\ Conflicting(f)' <=> Conflicting(f)
                   /\ Told(f)' <=> Told(f)
                   /\ Ready(f)' <=> Ready(f)
        BY <3>1 DEF Conflicting, FCOInSpecList, Told, Ready, vars, ownVars
      <4>3. (Finished' <=> Finished) /\ (Reported' <=> Reported)
        BY <3>1 DEF Finished, Idle, Reported, ReportedOnce, PhantomHasError, vars
      <4>4. Checked' <=> Checked
        BY <3>1, <4>1, <4>2, <4>3 DEF Checked, vars, ownVars
      <4>5. Applying' <=> Applying
        BY <3>1, <4>1, <4>2 DEF Applying, vars, ownVars
      <4>6. Done' <=> Done
        BY <3>1, <4>1 DEF Done, NoUselessEntries, vars, ownVars
      <4>7. (Given' <=> Given) /\ (Undisturbed' <=> Undisturbed)
        BY <3>1 DEF Given, Undisturbed, IsDir, vars, ownVars
      <4>8. QED
        BY <4>4, <4>5, <4>6, <4>7
    <3>3. QED
      BY <2>2, <3>1, <3>2 DEF PUInv, ownVars
  <2>3. QED
    BY <2>1, <2>2
<1>6. QED
  BY <1>1, <1>2, <1>3, <1>4, <1>5 DEF PUNext

(* What holds throughout a policy update.                                   *)
THEOREM PolicyUpdateInvariant == PUSpec => []PUInv
BY InitEstablishesUpdate, PUNextKeeps, PTL DEF PUSpec

-----------------------------------------------------------------------------
(* What it shows, whatever the depths of the rules.                         *)

LEMMA PUInvGeneral == PUInv => NothingRefused /\ UntouchedTakenOver /\ NoUselessEntries
<1> SUFFICES ASSUME PUInv
             PROVE  NothingRefused /\ UntouchedTakenOver /\ NoUselessEntries
  OBVIOUS
<1>1. NothingRefused
  BY DEF PUInv, NothingRefused
<1>2. NoUselessEntries
  <2>1. phase # "done" => Rooted(db)
    BY DEF PUInv, Applying, IsDb
  <2>2. QED
    BY <2>1 DEF PUInv, Done, NoUselessEntries
<1>3. UntouchedTakenOver
  <2> SUFFICES ASSUME phase = "done", NEW s \in specs, NEW p \in Path,
                      Reaches(s, p), p \notin touched,
                      \A e \in Path : <<s.start, e>> \in errors /\ AtOrAbove(e, p)
                                        => e \notin DOMAIN fs \cup touched
               PROVE  IF Seen(fs, s, p) THEN HasFCOData(db, p) /\ db.data[p] = FcoOf(fs, s, p)
                                        ELSE ~HasFCOData(db, p)
    BY DEF UntouchedTakenOver
  <2>1. Left(s, p)
    BY DEF Left, Excused
  <2>2. Result(s, p)
    BY <2>1 DEF PUInv, Done
  <2>3. QED
    BY <2>2 DEF Result
<1>4. QED
  BY <1>1, <1>2, <1>3

(* When nothing happened meanwhile, nothing is excused.                     *)
LEMMA AtRestFacts ==
  ASSUME PUInv, AtRest
  PROVE  /\ Given /\ Checked /\ Done
         /\ \A s \in specs, p \in Path : Reaches(s, p) =>
              EntriesAt(s, p) = Expected(fs, was, s, p) /\ Result(s, p)
<1>1. Given /\ Checked /\ Done /\ touched = {} /\ \A e \in errors : e[2] \notin DOMAIN fs
  BY DEF PUInv, AtRest, Undisturbed
<1>2. \A s \in specs, p \in Path : Reaches(s, p) => Left(s, p)
  BY <1>1 DEF Left, Excused
<1>3. QED
  BY <1>1, <1>2 DEF Checked, Done

(* Where no rule has a limit of its depth, what the new policy watches is   *)
(* in the database as it asks for it, and nothing else is.                  *)
LEMMA PUInvNewPolicy == ASSUME NoDepthLimit PROVE PUInv => DbUnderNewPolicy
<1> SUFFICES ASSUME PUInv, AtRest
             PROVE  /\ Contents(db) = DOMAIN Snapshot(fs, specs)
                    /\ \A p \in Contents(db) : db.data[p] = Snapshot(fs, specs)[p]
  BY DEF DbUnderNewPolicy
<1>1. /\ Given /\ Checked /\ Done
      /\ \A s \in specs, p \in Path : Reaches(s, p) => Result(s, p)
  BY AtRestFacts
<1>2. \A p : p \in DOMAIN Snapshot(fs, specs)
               <=> p \in DOMAIN fs /\ \E s \in specs : Reaches(s, p) /\ Seen(fs, s, p)
  BY DEF Snapshot
<1>3. ASSUME NEW p \in DOMAIN Snapshot(fs, specs), NEW s \in specs, Reaches(s, p), Seen(fs, s, p)
      PROVE  Snapshot(fs, specs)[p] = FcoOf(fs, s, p)
  <2>1. p \in Name
    BY <1>1, <1>2, PathFacts DEF Checked
  <2>2. \A t \in specs : Reaches(t, p) => t = s
    BY <1>1, <1>3, <2>1, GivenRules
  <2>3. (CHOOSE t \in specs : Reaches(t, p) /\ Seen(fs, t, p)) = s
    BY <1>3, <2>2
  <2>4. QED
    BY <2>3 DEF Snapshot
<1>4. ASSUME NEW p \in Contents(db)
      PROVE  p \in DOMAIN Snapshot(fs, specs) /\ db.data[p] = Snapshot(fs, specs)[p]
  <2>1. p \in Path /\ p \in Name /\ FCOInSpecList(specs, p) /\ HasFCOData(db, p)
    BY <1>1, PathFacts DEF Done, Contents
  <2>2. PICK s \in specs : Reaches(s, p)
    BY <1>1, <2>1, ReachedByRules
  <2>3. Result(s, p)
    BY <1>1, <2>1, <2>2
  <2>4. Seen(fs, s, p) /\ db.data[p] = FcoOf(fs, s, p)
    BY <2>1, <2>3 DEF Result
  <2>5. p \in DOMAIN Snapshot(fs, specs)
    BY <1>2, <2>2, <2>4 DEF Seen
  <2>6. QED
    BY <1>3, <2>2, <2>4, <2>5
<1>5. ASSUME NEW p \in DOMAIN Snapshot(fs, specs)
      PROVE  p \in Contents(db)
  <2>1. p \in Path /\ \E s \in specs : Reaches(s, p) /\ Seen(fs, s, p)
    BY <1>1, <1>2 DEF Checked
  <2>2. HasFCOData(db, p)
    BY <1>1, <2>1 DEF Result
  <2>3. QED
    BY <2>2 DEF Contents, HasFCOData
<1>6. QED
  BY <1>4, <1>5

(* A conflict is reported for what both policies watch and is not as it     *)
(* was.                                                                     *)
LEMMA ConflictAt ==
  ASSUME NoDepthLimit, PUInv, AtRest, NEW p
  PROVE  p \in conflicts <=>
           /\ p \in Path
           /\ \E s \in specs :
                /\ Reaches(s, p)
                /\ \E t \in oldSpecs :
                     /\ Reaches(t, p)
                     /\ IF HasFCOData(was, p)
                        THEN \/ ~Seen(fs, s, p)
                             \/ \E x \in DOMAIN FcoOf(fs, s, p) \cap DOMAIN was.data[p] :
                                  FcoOf(fs, s, p)[x] # was.data[p][x]
                        ELSE Seen(fs, s, p)
<1>1. /\ Given /\ Checked /\ Reported
      /\ \A s \in specs, q \in Path : Reaches(s, q) => EntriesAt(s, q) = Expected(fs, was, s, q)
      /\ conflicts = {e.path : e \in {f \in report : Conflicting(f)}}
  BY AtRestFacts DEF Checked
<1>2. ASSUME NEW s \in specs, Reaches(s, p), HasFCOData(was, p), Seen(fs, s, p)
      PROVE  CompareFCOs(s, was.data[p], FcoOf(fs, s, p)) # {}
               <=> \E x \in DOMAIN FcoOf(fs, s, p) \cap DOMAIN was.data[p] :
                     FcoOf(fs, s, p)[x] # was.data[p][x]
  <2>1. PICK o \in LookedObject : FcoOf(fs, s, p) = CalcProps(o, s.props)
    BY <1>1, SeenFco DEF Checked
  <2>2. "type" \in s.props
    BY <1>1, GivenRules
  <2>3. CompareFCOs(s, was.data[p], FcoOf(fs, s, p))
          = {x \in DOMAIN was.data[p] \cap DOMAIN FcoOf(fs, s, p) :
               was.data[p][x] # FcoOf(fs, s, p)[x]}
    BY <2>1, <2>2, ComparedBoth
  <2>4. QED
    BY <2>3
<1>3. ASSUME NEW e \in report, Conflicting(e), e.path = p
      PROVE  /\ p \in Path
             /\ \E s \in specs :
                  /\ Reaches(s, p)
                  /\ \E t \in oldSpecs :
                       /\ Reaches(t, p)
                       /\ IF HasFCOData(was, p)
                          THEN \/ ~Seen(fs, s, p)
                               \/ \E x \in DOMAIN FcoOf(fs, s, p) \cap DOMAIN was.data[p] :
                                    FcoOf(fs, s, p)[x] # was.data[p][x]
                          ELSE Seen(fs, s, p)
  <2>1. PICK s \in specs : Reaches(s, p)
    BY <1>1, <1>3 DEF Reported, ReportedOnce
  <2>2. p \in Path /\ p \in Name /\ e \in EntriesAt(s, p)
    BY <1>1, <1>3, <2>1, EntryOfRule, PathFacts
  <2>3. e \in Expected(fs, was, s, p)
    BY <1>1, <2>1, <2>2
  <2>4. /\ e.kind = "removed" => ~Seen(fs, s, p) /\ HasFCOData(was, p)
        /\ e.kind # "removed" => Seen(fs, s, p)
        /\ e.kind = "added" => ~HasFCOData(was, p)
        /\ e.kind = "changed" => /\ HasFCOData(was, p)
                                 /\ CompareFCOs(s, was.data[p], FcoOf(fs, s, p)) # {}
        /\ e.kind \in {"added", "removed", "changed"}
    BY <2>3, ToldOf
  <2>5. PICK t \in oldSpecs : Reaches(t, p)
    <3>1. CASE e.kind = "added"
      <4>1. FCOInSpecList(oldSpecs, p)
        BY <1>3, <3>1 DEF Conflicting
      <4>2. QED
        BY <1>1, <2>2, <4>1, ReachedByRules
    <3>2. CASE e.kind # "added"
      BY <1>1, <2>4, <3>2, GivenFacts
    <3>3. QED
      BY <3>1, <3>2
  <2>6. QED
    BY <1>2, <2>1, <2>2, <2>4, <2>5
<1>4. ASSUME NEW s \in specs, NEW t \in oldSpecs, p \in Path, Reaches(s, p), Reaches(t, p),
             IF HasFCOData(was, p)
             THEN \/ ~Seen(fs, s, p)
                  \/ \E x \in DOMAIN FcoOf(fs, s, p) \cap DOMAIN was.data[p] :
                       FcoOf(fs, s, p)[x] # was.data[p][x]
             ELSE Seen(fs, s, p)
      PROVE  p \in conflicts
  <2>1. Expected(fs, was, s, p) # {}
    BY <1>2, <1>4 DEF Expected
  <2>2. PICK e \in EntriesAt(s, p) : TRUE
    BY <1>1, <1>4, <2>1
  <2>3. e \in report /\ e.path = p /\ e \in Expected(fs, was, s, p)
    BY <1>1, <1>4 DEF EntriesAt
  <2>4. e.kind \in {"added", "removed", "changed"}
    BY <2>3, ToldOf
  <2>5. FCOInSpecList(specs, p) /\ FCOInSpecList(oldSpecs, p)
    BY <1>1, <1>4, PathFacts, ReachedByRules
  <2>6. Conflicting(e)
    BY <2>3, <2>4, <2>5 DEF Conflicting
  <2>7. QED
    BY <1>1, <2>3, <2>6
<1>5. ASSUME p \in conflicts
      PROVE  \E e \in report : Conflicting(e) /\ e.path = p
  BY <1>1, <1>5
<1>6. QED
  BY <1>3, <1>4, <1>5

LEMMA PUInvConflicts == ASSUME NoDepthLimit PROVE PUInv => ConflictsRight
<1> SUFFICES ASSUME PUInv, AtRest
             PROVE  conflicts =
               {p \in Path : \E s \in specs :
                  /\ Reaches(s, p)
                  /\ \E t \in oldSpecs :
                       /\ Reaches(t, p)
                       /\ IF HasFCOData(was, p)
                          THEN \/ ~Seen(fs, s, p)
                               \/ \E x \in DOMAIN FcoOf(fs, s, p) \cap DOMAIN was.data[p] :
                                    FcoOf(fs, s, p)[x] # was.data[p][x]
                          ELSE Seen(fs, s, p)}
  BY DEF ConflictsRight
<1> QED
  BY ConflictAt

-----------------------------------------------------------------------------
(* What every state of a policy update satisfies.  First, for rules of any  *)
(* depth: cUpdateDb refuses nothing of the report of the update's own       *)
(* check; what nothing happened to ends as the new policy would have it,    *)
(* unless an error was reported for one above it; and pruning leaves no     *)
(* entry for nothing (cPolicyUpdate::Execute, util_PruneExtraObjects).      *)
THEOREM TakesOverWhatIsUntouched ==
  PUSpec => [](NothingRefused /\ UntouchedTakenOver /\ NoUselessEntries)
BY PolicyUpdateInvariant, PUInvGeneral, PTL

(* Its check reports right, as one on its own does, though it rewrites the  *)
(* database as it goes.                                                     *)
THEOREM RewritingCheckIsRight == PUSpec => [](ReportsRight /\ PhantomHasError)
<1>1. PUInv => ReportsRight /\ PhantomHasError
  <2> SUFFICES ASSUME PUInv
               PROVE  ReportsRight /\ PhantomHasError
    OBVIOUS
  <2>1. Reported
    BY DEF PUInv, IInv, Checked
  <2>2. UntouchedReported
    <3> SUFFICES ASSUME Finished, NEW s \in specs, NEW p \in Path,
                        Reaches(s, p), p \notin touched,
                        \A e \in Path : <<s.start, e>> \in errors /\ AtOrAbove(e, p)
                                          => e \notin DOMAIN fs \cup touched
                 PROVE  EntriesAt(s, p) = Expected(fs, was, s, p)
      BY DEF UntouchedReported, EntriesAt
    <3>1. Left(s, p)
      BY DEF Left, Excused
    <3>2. CASE phase = "check"
      <4>1. todo = {} /\ ~OldToCome(walk, opening, p) /\ ~NewToCome(walk, opening, p)
        BY DEF Finished, Idle, OldToCome, NewToCome
      <4>2. Right(s, p)
        BY <3>2, <4>1 DEF PUInv, IInv, Progress, Status, OldDue, NewDue
      <4>3. QED
        BY <3>1, <4>2 DEF Left, Right
    <3>3. CASE phase # "check"
      BY <3>1, <3>3 DEF PUInv, Checked
    <3>4. QED
      BY <3>2, <3>3
  <2>3. QED
    BY <2>1, <2>2 DEF Reported, ReportsRight
<1>2. QED
  BY <1>1, PolicyUpdateInvariant, PTL

(* Where no rule has a limit of its depth, a policy update that nothing     *)
(* happens to leaves the database that the new policy would have made.      *)
THEOREM LeavesNewDatabase == ASSUME NoDepthLimit PROVE PUSpec => []DbUnderNewPolicy
BY PolicyUpdateInvariant, PUInvNewPolicy, PTL

(* The conflicts are then those objects that both policies watch and that   *)
(* are not as they were, and all else is taken over.                        *)
THEOREM TakesOverTidily == ASSUME NoDepthLimit PROVE PUSpec => []TakenOverTidily
<1>1. PUInv => TakenOverTidily
  BY PUInvGeneral, PUInvConflicts DEF TakenOverTidily
<1>2. QED
  BY <1>1, PolicyUpdateInvariant, PTL
===============================================================================
