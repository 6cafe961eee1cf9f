---------------------- MODULE RulesAndProperties_proofs ----------------------
(* The two sides of a rule: the objects it contains and the properties that *)
(* are recorded of them.                                                    *)
(*                                                                          *)
(* The stop points of a rule are unrelated and stand for all that were      *)
(* given, whatever the names are and however many.  The invariant that is   *)
(* inductive says it of every name, not only of those below the start       *)
(* point, since the start point may move.                                   *)
(*                                                                          *)
(* Whatever commands wrote it, the entry of an object says what was         *)
(* measured; for every set of properties, values and policies.              *)
(*                                                                          *)
(* The digests of an entry are of the one text that was read, in blocks and *)
(* units of any size.  The argument is about what a context keeps: the      *)
(* whole units of the text so far as the compression got them, and its rest *)
(* in the bytes it has.                                                     *)
EXTENDS StopPoints, FsPropSet, Signatures, SequenceTheorems, TLAPS

SameRegion == \A p \in Path : (\E q \in set.stops : AtOrAbove(q, p))
                                <=> (\E a \in added : AtOrAbove(a, p))
IInv == TypeOK /\ StopsUnrelated /\ SameRegion

-----------------------------------------------------------------------------
(* A name is at or above another when it is as long or shorter and agrees   *)
(* with it as far as it goes.                                               *)
LEMMA PrefixPointwise ==
  ASSUME NEW p \in Path, NEW q \in Path
  PROVE  AtOrAbove(p, q) <=> Len(p) <= Len(q) /\ \A i \in 1..Len(p) : p[i] = q[i]
<1>1. p \in Seq(Name) /\ q \in Seq(Name)
  BY PathAssumption
<1>2. /\ Len(p) \in Nat /\ Len(q) \in Nat
      /\ \A i \in 1..Len(p) : p[i] \in Name
      /\ \A i \in 1..Len(q) : q[i] \in Name
  BY <1>1, LenProperties, ElementOfSeq
<1>3. ASSUME Len(p) <= Len(q)
      PROVE  SubSeq(p, 1, Len(p)) = SubSeq(q, 1, Len(p)) <=> \A i \in 1..Len(p) : p[i] = q[i]
  <2>1. /\ SubSeq(p, 1, Len(p)) \in Seq(Name)
        /\ Len(SubSeq(p, 1, Len(p))) = Len(p)
        /\ \A i \in 1..Len(p) : SubSeq(p, 1, Len(p))[i] = p[i]
    BY <1>2, SubSeqProperties, Z3
  <2>2. /\ SubSeq(q, 1, Len(p)) \in Seq(Name)
        /\ Len(SubSeq(q, 1, Len(p))) = Len(p)
        /\ \A i \in 1..Len(p) : SubSeq(q, 1, Len(p))[i] = q[i]
    <3>1. \A i \in 1..Len(p) : q[i] \in Name
      BY <1>2, <1>3
    <3>2. QED
      BY <3>1, <1>2, SubSeqProperties, Z3
  <2>3. ASSUME \A i \in 1..Len(p) : p[i] = q[i]
        PROVE  SubSeq(p, 1, Len(p)) = SubSeq(q, 1, Len(p))
    <3>1. \A i \in 1..Len(p) : SubSeq(p, 1, Len(p))[i] = SubSeq(q, 1, Len(p))[i]
      BY <2>1, <2>2, <2>3
    <3>2. QED
      BY <3>1, <2>1, <2>2, SeqEqual
  <2>4. QED
    BY <2>1, <2>2, <2>3
<1>4. QED
  BY <1>2, <1>3 DEF AtOrAbove, IsPrefix

LEMMA PrefixOrder ==
  /\ \A p \in Path : AtOrAbove(p, p)
  /\ \A p, q, r \in Path : AtOrAbove(p, q) /\ AtOrAbove(q, r) => AtOrAbove(p, r)
  /\ \A p, q \in Path : AtOrAbove(p, q) /\ AtOrAbove(q, p) => p = q
<1>1. \A p \in Path : Len(p) \in Nat
  BY PathAssumption, LenProperties
<1>2. \A p \in Path : AtOrAbove(p, p)
  BY <1>1, PrefixPointwise
<1>3. ASSUME NEW p \in Path, NEW q \in Path, NEW r \in Path,
             AtOrAbove(p, q), AtOrAbove(q, r)
      PROVE  AtOrAbove(p, r)
  <2>1. Len(p) <= Len(q) /\ \A i \in 1..Len(p) : p[i] = q[i]
    BY <1>3, PrefixPointwise
  <2>2. Len(q) <= Len(r) /\ \A i \in 1..Len(q) : q[i] = r[i]
    BY <1>3, PrefixPointwise
  <2>3. Len(p) <= Len(r) /\ \A i \in 1..Len(p) : p[i] = r[i]
    BY <2>1, <2>2, <1>1
  <2>4. QED
    BY <2>3, PrefixPointwise
<1>4. ASSUME NEW p \in Path, NEW q \in Path, AtOrAbove(p, q), AtOrAbove(q, p)
      PROVE  p = q
  <2>1. Len(p) = Len(q) /\ \A i \in 1..Len(p) : p[i] = q[i]
    BY <1>1, <1>4, PrefixPointwise
  <2>2. QED
    BY <2>1, SeqEqual, PathAssumption
<1>5. QED
  BY <1>2, <1>3, <1>4

-----------------------------------------------------------------------------
LEMMA InitEstablishes == Init => IInv
BY PathAssumption, DepthAssumption
   DEF Init, IInv, TypeOK, StopsUnrelated, SameRegion, RecurseInfinite

(* Adding a stop point: the two cases of AddTo.                             *)
LEMMA AddPreserves ==
  ASSUME IInv, NEW x \in Path, Add(x)
  PROVE  IInv'
<1> DEFINE S == set.stops
           T == AddTo(S, x)
<1>1. /\ set.start \in Path /\ S \subseteq Path /\ added \subseteq Path
      /\ set \in [start : Path, stops : SUBSET Path, depth : Depths]
  BY DEF IInv, TypeOK
<1>2. /\ set'.stops = T /\ set'.start = set.start /\ set'.depth = set.depth
      /\ set' \in [start : Path, stops : SUBSET Path, depth : Depths]
      /\ added' = added \cup {x}
      /\ clone' = clone
  <2>1. T \subseteq Path
    BY <1>1 DEF AddTo
  <2>2. QED
    BY <1>1, <2>1 DEF Add
<1>3. Above(set.start, x)
  BY DEF Add
<1>4. TypeOK'
  BY <1>1, <1>2 DEF IInv, TypeOK
<1>5. CASE \E q \in S : AtOrAbove(q, x)
  <2>1. T = S
    BY <1>5 DEF AddTo
  <2>2. StopsUnrelated'
    BY <1>2, <2>1 DEF IInv, StopsUnrelated
  <2>3. ASSUME NEW p \in Path, AtOrAbove(x, p)
        PROVE  \E q \in S : AtOrAbove(q, p)
    BY <1>1, <1>5, <2>3, PrefixOrder
  <2>4. SameRegion'
    BY <1>2, <2>1, <2>3 DEF IInv, SameRegion
  <2>5. QED
    BY <1>4, <2>2, <2>4 DEF IInv
<1>6. CASE ~ \E q \in S : AtOrAbove(q, x)
  <2>1. T = {q \in S : ~AtOrAbove(x, q)} \cup {x}
    BY <1>6 DEF AddTo
  <2>2. \A p, q \in T : AtOrAbove(p, q) => p = q
    BY <1>6, <2>1 DEF IInv, StopsUnrelated
  <2>3. \A p \in T : Above(set.start, p)
    BY <1>3, <2>1 DEF IInv, StopsUnrelated
  <2>4. StopsUnrelated'
    BY <1>2, <2>2, <2>3 DEF StopsUnrelated
  <2>5. ASSUME NEW p \in Path
        PROVE  (\E q \in T : AtOrAbove(q, p))
                 <=> (\E q \in S : AtOrAbove(q, p)) \/ AtOrAbove(x, p)
    <3>1. ASSUME NEW q \in S, AtOrAbove(q, p)
          PROVE  \E r \in T : AtOrAbove(r, p)
      <4>1. CASE AtOrAbove(x, q)
        BY <4>1, <3>1, <1>1, <2>1, PrefixOrder
      <4>2. CASE ~AtOrAbove(x, q)
        BY <4>2, <3>1, <2>1
      <4>3. QED
        BY <4>1, <4>2
    <3>2. QED
      BY <3>1, <2>1
  <2>6. SameRegion'
    BY <1>2, <2>5 DEF IInv, SameRegion
  <2>7. QED
    BY <1>4, <2>4, <2>6 DEF IInv
<1>7. QED
  BY <1>5, <1>6

LEMMA StartPreserves ==
  ASSUME IInv, NEW x \in Path, SetStartPoint(x)
  PROVE  IInv'
<1>1. /\ set'.stops = set.stops /\ set'.start = x
      /\ set' \in [start : Path, stops : SUBSET Path, depth : Depths]
      /\ added' = added /\ clone' = clone
  BY DEF SetStartPoint, IInv, TypeOK
<1>2. TypeOK'
  BY <1>1 DEF IInv, TypeOK
<1>3. StopsUnrelated'
  BY <1>1 DEF IInv, StopsUnrelated, SetStartPoint
<1>4. SameRegion'
  BY <1>1 DEF IInv, SameRegion
<1>5. QED
  BY <1>2, <1>3, <1>4 DEF IInv

LEMMA StepPreserves == IInv /\ [Next]_vars => IInv'
<1> SUFFICES ASSUME IInv, [Next]_vars
             PROVE  IInv'
  OBVIOUS
<1>1. ASSUME NEW x \in Path, Add(x)
      PROVE  IInv'
  BY <1>1, AddPreserves
<1>2. ASSUME NEW x \in Path, SetStartPoint(x)
      PROVE  IInv'
  BY <1>2, StartPreserves
<1>3. ASSUME NEW d \in Depths, SetRecurseDepth(d)
      PROVE  IInv'
  <2>1. /\ set'.stops = set.stops /\ set'.start = set.start
        /\ set' \in [start : Path, stops : SUBSET Path, depth : Depths]
        /\ added' = added /\ clone' = clone
    BY <1>3 DEF SetRecurseDepth, IInv, TypeOK
  <2>2. QED
    BY <2>1 DEF IInv, TypeOK, StopsUnrelated, SameRegion
<1>4. CASE Clone
  <2>1. /\ set' = set /\ added' = added
        /\ clone' \in [start : Path, stops : SUBSET Path, depth : Depths]
    BY <1>4, DepthAssumption DEF Clone, IInv, TypeOK
  <2>2. QED
    BY <2>1 DEF IInv, TypeOK, StopsUnrelated, SameRegion
<1>5. CASE UNCHANGED vars
  BY <1>5 DEF vars, IInv, TypeOK, StopsUnrelated, SameRegion
<1>6. QED
  BY <1>1, <1>2, <1>3, <1>4, <1>5 DEF Next

-----------------------------------------------------------------------------
(* The stop points of a rule are pairwise unrelated and below its start     *)
(* point, however the parser adds them (cFCOSpecStopPointSet::Add).         *)
THEOREM StopPointsUnrelated == Spec => []StopsUnrelated
<1>1. IInv => StopsUnrelated
  BY DEF IInv
<1>2. QED
  BY <1>1, InitEstablishes, StepPreserves, PTL DEF Spec

(* What a rule contains is decided by every stop point it was ever given,   *)
(* those that Add dropped or replaced included (ContainsFCO).               *)
THEOREM RegionAsGiven == Spec => []StopsAsGiven
<1>1. IInv => StopsAsGiven
  BY DEF IInv, SameRegion, StopsAsGiven, ContainsFCO
<1>2. QED
  BY <1>1, InitEstablishes, StepPreserves, PTL DEF Spec

(* A walk that asks ShouldStopDescent of every object it comes to stays in  *)
(* what ContainsFCO says is in the rule, and comes to all of that when the  *)
(* depth has no limit: a stop point stops the walk before it is below it,   *)
(* since stop points are below the start point.                             *)
THEOREM WalkKeepsToRegion == Spec => []WalkStaysInside
<1>1. ASSUME IInv
      PROVE  WalkStaysInside
  <2>1. ASSUME NEW p \in Reached(set)
        PROVE  p \in Contained(set)
    <3>1. p \in Path /\ AtOrAbove(set.start, p)
      BY DEF Reached
    <3>2. ASSUME NEW q \in set.stops, AtOrAbove(q, p)
          PROVE  FALSE
      <4>1. q \in Path /\ AtOrAbove(set.start, q)
        BY <1>1, <3>2 DEF IInv, TypeOK, StopsUnrelated, Above
      <4>2. QED
        BY <4>1, <3>2 DEF Reached, ShouldStopDescent
    <3>3. QED
      BY <3>1, <3>2 DEF Contained, ContainsFCO
  <2>2. ASSUME set.depth = RecurseInfinite, NEW p \in Contained(set)
        PROVE  p \in Reached(set)
    <3>1. p \in Path /\ AtOrAbove(set.start, p) /\ \A q \in set.stops : ~AtOrAbove(q, p)
      BY <2>2 DEF Contained, ContainsFCO
    <3>2. \A q \in Path : AtOrAbove(q, p) => ~ShouldStopDescent(set, q)
      BY <3>1, <2>2 DEF ShouldStopDescent
    <3>3. QED
      BY <3>1, <3>2 DEF Reached
  <2>3. QED
    BY <2>1, <2>2 DEF WalkStaysInside
<1>2. QED
  BY <1>1, InitEstablishes, StepPreserves, PTL DEF Spec

-----------------------------------------------------------------------------
(* The properties recorded of an object.                                    *)

Reading == Value \cup {Undefined, Never}

PropSets == [valid : SUBSET Prop, undefined : SUBSET Prop, value : [Prop -> Value \cup {Never}]]

(* What is no longer valid but still marked undefined was undefined when it *)
(* was last recorded; and so is all that a command fails for.               *)
MarksRemembered ==
  \A x \in entry.undefined \ entry.valid : measured[x] = Undefined

PropTypeOK == /\ disk \in Disks /\ policy \in PropPolicies /\ entry \in PropSets
              /\ measured \in [Prop -> Reading]

PropInv == PropTypeOK /\ EntryIsAsMeasured /\ MarksRemembered

-----------------------------------------------------------------------------
(* What is calculated: all that was asked for, and nothing else is marked.  *)
LEMMA Calculated ==
  ASSUME PropAssumption, disk \in Disks, NEW props \in SUBSET Prop
  PROVE  /\ CalcPropSet(props) \in PropSets
         /\ CalcPropSet(props).valid = props
         /\ CalcPropSet(props).undefined \subseteq props
BY DEF PropAssumption, CalcPropSet, PropSets, Disks, Prop

(* A copy reads as the original where that is valid.                        *)
LEMMA CopiesAlike ==
  ASSUME PropAssumption, NEW ps \in PropSets
  PROVE  /\ Copied(ps) \in PropSets
         /\ Copied(ps).valid = ps.valid /\ Copied(ps).undefined = ps.undefined
         /\ \A x \in ps.valid : GetPropAt(Copied(ps), x) = GetPropAt(ps, x)
BY DEF PropAssumption, Copied, PropSets, GetPropAt

(* Properties that are copied read as in their source, the others as before.*)
LEMMA CopyReads ==
  ASSUME PropAssumption, NEW ps \in PropSets, NEW from \in PropSets, NEW props \in SUBSET Prop
  PROVE  /\ CopyProps(ps, from, props) \in PropSets
         /\ CopyProps(ps, from, props).valid = ps.valid \cup props
         /\ CopyProps(ps, from, props).undefined \subseteq ps.undefined \cup props
         /\ \A x \in props : GetPropAt(CopyProps(ps, from, props), x) = GetPropAt(from, x)
         /\ \A x \in Prop \ props :
              /\ GetPropAt(CopyProps(ps, from, props), x) = GetPropAt(ps, x)
              /\ x \in CopyProps(ps, from, props).undefined <=> x \in ps.undefined
BY DEF PropAssumption, CopyProps, PropSets, GetPropAt

(* A measurement of a property is the same whatever else is asked for.      *)
LEMMA RecordReads ==
  ASSUME PropAssumption, PropTypeOK, NEW props \in SUBSET Prop
  PROVE  /\ Record(props) \in [Prop -> Reading]
         /\ \A more \in SUBSET Prop : \A x \in props :
              x \in more => Record(props)[x] = GetPropAt(CalcPropSet(more), x)
         /\ \A x \in Prop \ props : Record(props)[x] = measured[x]
<1>1. ASSUME NEW more \in SUBSET Prop, NEW x \in more
      PROVE  GetPropAt(CalcPropSet(more), x) =
               IF x \in Hash THEN disk.hashes ELSE disk.stat
  BY DEF CalcPropSet, GetPropAt, PropTypeOK, Disks, Prop
<1>2. disk.hashes \in Reading /\ disk.stat \in Reading
  BY DEF PropTypeOK, Disks, Reading
<1>3. \A x \in props : Record(props)[x] = IF x \in Hash THEN disk.hashes ELSE disk.stat
  BY <1>1 DEF Record
<1>4. \A x \in Prop \ props : Record(props)[x] = measured[x]
  BY DEF Record
<1>5. Record(props) \in [Prop -> Reading]
  BY <1>2, <1>3, <1>4 DEF Record, PropTypeOK
<1>. QED
  BY <1>1, <1>3, <1>4, <1>5

(* TrimmedTo leaves what both policies ask for, and every mark.               *)
LEMMA TrimmedKeeps ==
  ASSUME PropTypeOK, NEW props \in SUBSET Prop
  PROVE  /\ TrimmedTo(props) \in PropSets
         /\ TrimmedTo(props).valid = entry.valid \cap props
         /\ TrimmedTo(props).undefined = entry.undefined
         /\ \A x \in Prop : GetPropAt(TrimmedTo(props), x) = GetPropAt(entry, x)
BY DEF PropTypeOK, PropSets, TrimmedTo, InvalidateProps, Xor, GetPropAt

-----------------------------------------------------------------------------
(* A new database is as its policy asks.                                    *)
LEMMA InitHolds == PropAssumption /\ PropInit => PropInv
<1>. SUFFICES ASSUME PropAssumption, PropInit PROVE PropInv
  OBVIOUS
<1>1. policy \in SUBSET Prop /\ disk \in Disks /\ policy \in PropPolicies
  BY DEF PropAssumption, PropInit
<1>. DEFINE new == CalcPropSet(policy)
<1>2. new \in PropSets /\ new.valid = policy /\ new.undefined \subseteq policy
  BY <1>1, Calculated
<1>3. /\ Stored(new) \in PropSets /\ Stored(new).valid = policy
      /\ Stored(new).undefined \subseteq policy
  BY <1>2, CopiesAlike DEF Stored
<1>4. entry = Stored(new) /\ threw = {}
      /\ measured = [x \in Prop |-> IF x \in policy THEN GetPropAt(entry, x) ELSE Never]
  BY DEF PropInit
<1>5. \A x \in Prop : GetPropAt(entry, x) \in Reading
  BY <1>3, <1>4 DEF GetPropAt, PropSets, Reading
<1>6. measured \in [Prop -> Reading]
  BY <1>4, <1>5 DEF Reading
<1>. QED
  BY <1>1, <1>3, <1>4, <1>6 DEF PropInv, PropTypeOK, EntryIsAsMeasured, MarksRemembered

(* Replacing the entry by what was measured for props.                      *)
LEMMA ReplacedHolds ==
  ASSUME PropAssumption, PropInv, NEW props \in PropPolicies,
         policy' = props, entry' = Stored(CalcPropSet(props)), measured' = Record(props),
         threw' = {}, disk' = disk
  PROVE  PropInv'
<1>1. props \in SUBSET Prop /\ PropTypeOK
  BY DEF PropAssumption, PropInv
<1>. DEFINE new == CalcPropSet(props)
<1>2. new \in PropSets /\ new.valid = props /\ new.undefined \subseteq props
  BY <1>1, Calculated DEF PropTypeOK
<1>3. /\ Stored(new) \in PropSets /\ Stored(new).valid = props
      /\ Stored(new).undefined \subseteq props
      /\ \A x \in props : GetPropAt(Stored(new), x) = GetPropAt(new, x)
  BY <1>2, CopiesAlike DEF Stored
<1>4. Record(props) \in [Prop -> Reading] /\ \A x \in props : Record(props)[x] = GetPropAt(new, x)
  BY <1>1, RecordReads
<1>5. PropTypeOK'
  BY <1>1, <1>3, <1>4 DEF PropTypeOK
<1>6. EntryIsAsMeasured'
  BY <1>3, <1>4 DEF EntryIsAsMeasured, GetPropAt
<1>7. MarksRemembered'
  BY <1>3 DEF MarksRemembered
<1>. QED
  BY <1>5, <1>6, <1>7 DEF PropInv

(* An update of the database folds what was ignored into the new entry.     *)
LEMMA UpdateHolds ==
  ASSUME PropAssumption, PropInv, NEW ignored \in SUBSET Prop, UpdateEntry(ignored)
  PROVE  PropInv'
<1>. DEFINE asked == policy \ ignored
            new   == CalcPropSet(asked)
            fold  == Xor(entry.valid, new.valid) \cap entry.valid
            made  == CopyProps(Copied(new), entry, fold)
<1>1. /\ PropTypeOK /\ policy \in SUBSET Prop /\ entry \in PropSets /\ entry.valid = policy
      /\ \A x \in policy : GetPropAt(entry, x) = measured[x]
  BY DEF PropAssumption, PropInv, PropTypeOK, EntryIsAsMeasured
<1>2. disk' = disk /\ policy' = policy /\ threw' = {}
  BY DEF UpdateEntry
<1>3. CASE entry' = entry /\ measured' = measured
  BY <1>2, <1>3 DEF PropInv, PropTypeOK, EntryIsAsMeasured, MarksRemembered, GetPropAt
<1>4. CASE entry' = Copied(made) /\ measured' = Record(asked)
  <2>1. asked \in SUBSET Prop
    BY <1>1
  <2>2. new \in PropSets /\ new.valid = asked /\ new.undefined \subseteq asked
    BY <1>1, <2>1, Calculated DEF PropTypeOK
  <2>3. fold = policy \ asked
    BY <1>1, <2>2 DEF Xor
  <2>4. /\ Copied(new) \in PropSets /\ Copied(new).valid = asked /\ Copied(new).undefined \subseteq asked
        /\ \A x \in asked : GetPropAt(Copied(new), x) = GetPropAt(new, x)
    BY <2>2, CopiesAlike
  <2>5. fold \in SUBSET Prop
    BY <1>1, <2>3
  <2>6. /\ made \in PropSets /\ made.valid = asked \cup fold /\ made.undefined \subseteq asked \cup fold
        /\ \A x \in fold : GetPropAt(made, x) = GetPropAt(entry, x)
        /\ \A x \in Prop \ fold : GetPropAt(made, x) = GetPropAt(Copied(new), x)
    <3>. HIDE DEF new, fold
    <3>. QED  BY <1>1, <2>4, <2>5, CopyReads
  <2>7. made.valid = policy /\ made.undefined \subseteq policy
    BY <2>3, <2>6
  <2>8. /\ Copied(made) \in PropSets /\ Copied(made).valid = policy
        /\ Copied(made).undefined \subseteq policy
        /\ \A x \in policy : GetPropAt(Copied(made), x) = GetPropAt(made, x)
    <3>. HIDE DEF made
    <3>. QED  BY <2>6, <2>7, CopiesAlike
  <2>9. /\ Record(asked) \in [Prop -> Reading]
        /\ \A x \in asked : Record(asked)[x] = GetPropAt(new, x)
        /\ \A x \in Prop \ asked : Record(asked)[x] = measured[x]
    <3>. HIDE DEF asked
    <3>. QED  BY <1>1, <2>1, RecordReads
  <2>10. ASSUME NEW x \in policy PROVE GetPropAt(Copied(made), x) = Record(asked)[x]
    <3>. HIDE DEF made, new
    <3>1. CASE x \in asked
      BY <1>1, <2>3, <2>4, <2>6, <2>8, <2>9, <3>1
    <3>2. CASE x \notin asked
      BY <1>1, <2>3, <2>6, <2>8, <2>9, <3>2
    <3>. QED  BY <3>1, <3>2
  <2>. HIDE DEF made
  <2>11. PropTypeOK'
    BY <1>1, <1>2, <1>4, <2>8, <2>9 DEF PropTypeOK
  <2>12. EntryIsAsMeasured'
    BY <1>2, <1>4, <2>8, <2>10 DEF EntryIsAsMeasured, GetPropAt
  <2>13. MarksRemembered'
    BY <1>4, <2>8 DEF MarksRemembered
  <2>. QED  BY <2>11, <2>12, <2>13 DEF PropInv
<1>. QED
  BY <1>3, <1>4 DEF UpdateEntry, Stored

(* An update of the policy drops, adds or replaces; or it is refused.       *)
LEMMA TakeOverHolds ==
  ASSUME PropAssumption, PropInv, NEW props \in PropPolicies, NEW secure \in BOOLEAN,
         TakeOver(props, secure)
  PROVE  PropInv'
<1>. DEFINE new    == CalcPropSet(props)
            trim   == TrimmedTo(props)
            gained == Xor(entry.valid \cap props, new.valid)
            fails  == CopyThrows(trim, new, gained)
            made   == CopyProps(trim, new, gained)
<1>1. /\ PropTypeOK /\ policy \in SUBSET Prop /\ props \in SUBSET Prop
      /\ entry \in PropSets /\ entry.valid = policy
      /\ \A x \in policy : GetPropAt(entry, x) = measured[x]
  BY DEF PropAssumption, PropInv, PropTypeOK, EntryIsAsMeasured
<1>2. new \in PropSets /\ new.valid = props /\ new.undefined \subseteq props
  BY <1>1, Calculated DEF PropTypeOK
<1>3. gained = props \ policy /\ gained \in SUBSET Prop
  BY <1>1, <1>2 DEF Xor
<1>4. /\ trim \in PropSets /\ trim.valid = policy \cap props /\ trim.undefined = entry.undefined
      /\ \A x \in Prop : GetPropAt(trim, x) = GetPropAt(entry, x)
  BY <1>1, TrimmedKeeps
<1>5. disk' = disk /\ threw' = fails
  BY DEF TakeOver
<1>6. CASE policy' = policy /\ entry' = entry /\ measured' = measured
  <2>1. fails \subseteq {x \in Prop \ policy : measured[x] = Undefined}
    <3>. HIDE DEF new, trim, gained
    <3>. QED  BY <1>1, <1>3, <1>4 DEF CopyThrows, PropInv, MarksRemembered
  <2>. HIDE DEF fails
  <2>. QED
    BY <1>5, <1>6, <2>1 DEF PropInv, PropTypeOK, EntryIsAsMeasured, MarksRemembered, GetPropAt
<1>7. CASE fails = {} /\ policy' = props /\ entry' = Stored(new) /\ measured' = Record(props)
  BY <1>5, <1>7, ReplacedHolds
<1>8. CASE fails = {} /\ policy' = props /\ entry' = Stored(made) /\ measured' = Record(gained)
  <2>1. /\ made \in PropSets /\ made.valid = props
        /\ \A x \in gained : GetPropAt(made, x) = GetPropAt(new, x)
        /\ \A x \in Prop \ gained :
             /\ GetPropAt(made, x) = GetPropAt(entry, x)
             /\ x \in made.undefined <=> x \in entry.undefined
    <3>. HIDE DEF new, trim, gained
    <3>1. /\ made \in PropSets /\ made.valid = trim.valid \cup gained
          /\ \A x \in gained : GetPropAt(made, x) = GetPropAt(new, x)
          /\ \A x \in Prop \ gained :
               /\ GetPropAt(made, x) = GetPropAt(trim, x)
               /\ x \in made.undefined <=> x \in trim.undefined
      BY <1>2, <1>3, <1>4, CopyReads
    <3>2. trim.valid \cup gained = props
      BY <1>3, <1>4
    <3>. HIDE DEF made
    <3>. QED  BY <1>4, <3>1, <3>2
  <2>. HIDE DEF made
  <2>2. /\ Stored(made) \in PropSets /\ Stored(made).valid = props
        /\ Stored(made).undefined = made.undefined
        /\ \A x \in props : GetPropAt(Stored(made), x) = GetPropAt(made, x)
    BY <2>1, CopiesAlike DEF Stored
  <2>3. /\ Record(gained) \in [Prop -> Reading]
        /\ \A x \in gained : Record(gained)[x] = GetPropAt(new, x)
        /\ \A x \in Prop \ gained : Record(gained)[x] = measured[x]
    <3>. HIDE DEF gained
    <3>1. \A x \in gained : x \in props
      BY <1>3
    <3>. QED  BY <1>1, <1>3, <3>1, RecordReads
  <2>4. ASSUME NEW x \in props PROVE GetPropAt(Stored(made), x) = Record(gained)[x]
    <3>. HIDE DEF new, gained
    <3>1. CASE x \in gained
      BY <2>1, <2>2, <2>3, <3>1
    <3>2. CASE x \notin gained
      BY <1>1, <1>3, <2>1, <2>2, <2>3, <3>2
    <3>. QED  BY <3>1, <3>2
  <2>5. ASSUME NEW x \in Stored(made).undefined \ props PROVE Record(gained)[x] = Undefined
    <3>1. x \in Prop \ gained
      BY <1>3, <2>2 DEF PropSets
    <3>2. x \in entry.undefined
      BY <2>1, <2>2, <3>1
    <3>3. measured[x] = Undefined
      BY <1>1, <3>2 DEF PropInv, MarksRemembered, GetPropAt
    <3>. HIDE DEF gained
    <3>. QED  BY <2>3, <3>1, <3>3
  <2>6. PropTypeOK'
    BY <1>1, <1>5, <1>8, <2>2, <2>3 DEF PropTypeOK
  <2>7. EntryIsAsMeasured'
    <3>. HIDE DEF fails, gained
    <3>. QED  BY <1>5, <1>8, <2>2, <2>4 DEF EntryIsAsMeasured, GetPropAt
  <2>8. MarksRemembered'
    <3>. HIDE DEF gained
    <3>. QED  BY <1>8, <2>2, <2>5 DEF MarksRemembered
  <2>. QED  BY <2>6, <2>7, <2>8 DEF PropInv
<1>. QED
  BY <1>6, <1>7, <1>8 DEF TakeOver

-----------------------------------------------------------------------------
(* No sequence of generations, updates and policy updates, whatever becomes *)
(* of the object in between, makes its entry say what was not measured; and *)
(* an update of the policy ends with an internal error only over a property *)
(* that was recorded as undefined and given up since.                       *)
THEOREM EntrySaysWhatWasMeasured == PropAssumption => (PropSpec => []EntryIsAsMeasured)
<1>. SUFFICES ASSUME PropAssumption PROVE PropSpec => []EntryIsAsMeasured
  OBVIOUS
<1>1. PropInit => PropInv
  BY InitHolds
<1>2. PropInv /\ [PropNext]_propVars => PropInv'
  <2>. SUFFICES ASSUME PropInv, [PropNext]_propVars PROVE PropInv'
    OBVIOUS
  <2>1. CASE ChangeDisk
    BY <2>1 DEF ChangeDisk, PropInv, PropTypeOK, EntryIsAsMeasured, MarksRemembered, GetPropAt
  <2>2. ASSUME NEW props \in PropPolicies, Generate(props) PROVE PropInv'
    BY <2>2, ReplacedHolds DEF Generate
  <2>3. ASSUME NEW ignored \in SUBSET Prop, UpdateEntry(ignored) PROVE PropInv'
    BY <2>3, UpdateHolds
  <2>4. ASSUME NEW props \in PropPolicies, NEW secure \in BOOLEAN, TakeOver(props, secure)
        PROVE  PropInv'
    BY <2>4, TakeOverHolds
  <2>5. CASE UNCHANGED propVars
    BY <2>5 DEF propVars, PropInv, PropTypeOK, EntryIsAsMeasured, MarksRemembered, GetPropAt
  <2>. QED
    BY <2>1, <2>2, <2>3, <2>4, <2>5 DEF PropNext
<1>3. PropInv => EntryIsAsMeasured
  BY DEF PropInv
<1>. QED
  BY <1>1, <1>2, <1>3, PTL DEF PropSpec

-----------------------------------------------------------------------------
(* Texts.                                                                   *)
Symbol == {"o", "n", "x", "80", "00", "version"} \cup STRING \cup {ToString(n) : n \in Nat}
Bytes  == Seq(Symbol)

(* A text cut into units, what is left over left out.                       *)
Whole(text, U) == Units(text, 0, U, Len(text) \div U)

(* Numbers: what a text leaves over in units, and what fills the last.      *)
LEMMA DivMod ==
  ASSUME NEW n \in Nat, NEW d \in Nat \ {0}
  PROVE  \E q \in Nat, r \in 0 .. d - 1 : n \div d = q /\ n % d = r /\ n = q * d + r
<1>1. n \div d \in Int /\ n % d \in 0 .. d - 1
  OBVIOUS
<1>2. n - d * (n \div d) = n % d
  OBVIOUS
<1>3. PICK q \in Int : q = n \div d
  BY <1>1
<1>4. PICK r \in 0 .. d - 1 : r = n % d
  BY <1>1
<1>5. n - d * q = r
  BY <1>2, <1>3, <1>4
<1>6. n = q * d + r
  BY <1>5
<1>7. q \in Nat
  BY <1>6
<1>. QED BY <1>3, <1>4, <1>6, <1>7

LEMMA ModSum ==
  ASSUME NEW a \in Nat, NEW b \in Nat, NEW d \in Nat \ {0}, a % d = 0
  PROVE  (a + b) % d = b % d /\ (a + b) \div d = (a \div d) + (b \div d)
OBVIOUS

LEMMA MulMono ==
  ASSUME NEW a \in Nat, NEW b \in Nat, NEW d \in Nat, a <= b
  PROVE  a * d <= b * d /\ a * d \in Nat
OBVIOUS

LEMMA DivUnique ==
  ASSUME NEW n \in Nat, NEW d \in Nat \ {0}, NEW q \in Nat, NEW r \in 0 .. d - 1, n = q * d + r
  PROVE  n \div d = q /\ n % d = r
OBVIOUS

LEMMA ModOf ==
  ASSUME NEW d \in Nat \ {0}, NEW q \in Nat, NEW r \in 0 .. d - 1
  PROVE  (q * d + r) % d = r
OBVIOUS

LEMMA NextUnit ==
  ASSUME NEW d \in Nat \ {0}, NEW n \in Nat, n % d = d - 1
  PROVE  (n + 1) % d = 0
<1>1. PICK q \in Nat : n = q * d + (d - 1)
  <2>1. PICK q \in Nat, k \in 0 .. d - 1 : n \div d = q /\ n % d = k /\ n = q * d + k
    BY DivMod
  <2>. QED BY <2>1
<1>2. (q + 1) * d = q * d + d /\ q * d \in Nat
  BY MulMono
<1>3. n + 1 = (q + 1) * d + 0 /\ 0 \in 0 .. d - 1 /\ q + 1 \in Nat
  BY <1>1, <1>2
<1>4. ((q + 1) * d + 0) % d = 0
  BY <1>3, ModOf
<1>. QED BY <1>3, <1>4

(* How much fills the last unit but for a trailer, after a rest.            *)
Filling(rest, U, t) == (IF rest < U - t THEN U - t ELSE U + (U - t)) - rest

LEMMA FillingFills ==
  ASSUME NEW n \in Nat, NEW U \in Nat \ {0}, NEW t \in Nat, t > 0, t < U
  PROVE  LET p == Filling(n % U, U, t)
         IN p \in 1 .. U /\ (n + p) % U = U - t /\ (n + p + t) % U = 0
<1>. DEFINE k == n % U
            p == Filling(k, U, t)
<1>1. PICK q \in Nat : k \in 0 .. U - 1 /\ n = q * U + k
  <2>1. \E q \in Nat, r \in 0 .. U - 1 : n \div U = q /\ n % U = r /\ n = q * U + r
    BY DivMod
  <2>. QED BY <2>1
<1>. HIDE DEF k
<1>0. p = (IF k < U - t THEN U - t ELSE U + (U - t)) - k
  BY <1>1 DEF Filling
<1>. HIDE DEF p
<1>2. q * U \in Nat /\ (q + 1) * U = q * U + U /\ (q + 2) * U = q * U + U + U
  BY MulMono
<1>4. PICK x \in Nat : n + p = x * U + (U - t) /\ n + p + t = (x + 1) * U
  <2>1. CASE k < U - t
    <3>1. n + p = q * U + (U - t) /\ n + p + t = (q + 1) * U
      BY <1>0, <1>1, <1>2, <2>1
    <3>. QED BY <3>1
  <2>2. CASE ~(k < U - t)
    <3>1. n + p = (q + 1) * U + (U - t) /\ n + p + t = ((q + 1) + 1) * U
      BY <1>0, <1>1, <1>2, <2>2
    <3>2. q + 1 \in Nat
      OBVIOUS
    <3>. QED BY <3>1, <3>2, Zenon
  <2>. QED BY <2>1, <2>2
<1>5. p \in 1 .. U
  BY <1>0, <1>1
<1>. DEFINE a == n + p
            c == n + p + t
<1>6. a \in Nat /\ c \in Nat /\ U - t \in 0 .. U - 1 /\ 0 \in 0 .. U - 1
  BY <1>5
<1>7. a = x * U + (U - t) /\ c = (x + 1) * U + 0
  BY <1>2, <1>4
<1>. HIDE DEF a, c
<1>8. a % U = U - t
  <2>1. (x * U + (U - t)) % U = U - t
    BY <1>6, ModOf
  <2>. QED BY <1>7, <2>1
<1>9. c % U = 0
  <2>1. ((x + 1) * U + 0) % U = 0 /\ x + 1 \in Nat
    BY <1>6, ModOf
  <2>. QED BY <1>7, <2>1
<1>. QED BY <1>5, <1>8, <1>9 DEF a, c, p, k

(* A part of a text is a text, whatever its ends are.                       *)
IsPart(u, s, m, n) == /\ u \in Bytes
                      /\ Len(u) = IF m <= n THEN n - m + 1 ELSE 0
                      /\ \A i \in 1 .. Len(u) : u[i] = s[m + i - 1]

LEMMA PartOf ==
  ASSUME NEW s \in Bytes, NEW m \in Nat \ {0}, NEW n \in Nat, n <= Len(s)
  PROVE  IsPart(SubSeq(s, m, n), s, m, n)
<1>. DEFINE u == SubSeq(s, m, n)
<1>1. \A i \in m .. n : s[i] \in Symbol
  BY ElementOfSeq, LenProperties DEF Bytes
<1>2. /\ u \in Bytes
      /\ Len(u) = IF m <= n THEN n - m + 1 ELSE 0
      /\ \A i \in 1 .. n - m + 1 : u[i] = s[m + i - 1]
  BY <1>1, SubSeqProperties DEF Bytes
<1>. HIDE DEF u
<1>3. \A i \in 1 .. Len(u) : u[i] = s[m + i - 1]
  BY <1>2
<1>4. IsPart(u, s, m, n)
  BY <1>2, <1>3 DEF IsPart
<1>. QED BY <1>4 DEF u

(* The parts of a sequence that is two put together.                        *)
LEMMA EndOfConcat ==
  ASSUME NEW s \in Bytes, NEW t \in Bytes, NEW m \in Nat \ {0}, NEW n \in Nat, n <= Len(t)
  PROVE  SubSeq(s \o t, Len(s) + m, Len(s) + n) = SubSeq(t, m, n)
<1>1. s \o t \in Bytes /\ Len(s \o t) = Len(s) + Len(t) /\ Len(s) \in Nat /\ Len(t) \in Nat
  BY ConcatProperties, LenProperties DEF Bytes
<1>2. \A i \in 1 .. Len(s) + Len(t) : (s \o t)[i] = IF i <= Len(s) THEN s[i] ELSE t[i - Len(s)]
  BY ConcatProperties
<1>. DEFINE u == SubSeq(s \o t, Len(s) + m, Len(s) + n)
            v == SubSeq(t, m, n)
<1>3. IsPart(u, s \o t, Len(s) + m, Len(s) + n)
  <2>1. Len(s) + m \in Nat \ {0} /\ Len(s) + n \in Nat /\ Len(s) + n <= Len(s \o t)
    BY <1>1
  <2>. QED BY <1>1, <2>1, PartOf
<1>4. IsPart(v, t, m, n)
  BY PartOf
<1>. HIDE DEF u, v
<1>5. ASSUME NEW i \in 1 .. Len(u)
      PROVE  (s \o t)[Len(s) + m + i - 1] = t[m + i - 1]
  <2>1. Len(s) + m + i - 1 \in 1 .. Len(s) + Len(t) /\ ~(Len(s) + m + i - 1 <= Len(s))
    BY <1>1, <1>3 DEF IsPart
  <2>2. (Len(s) + m + i - 1) - Len(s) = m + i - 1
    BY <1>1
  <2>. QED BY <1>2, <2>1, <2>2
<1>6. u \in Bytes /\ v \in Bytes /\ Len(u) = Len(v)
  BY <1>1, <1>3, <1>4 DEF IsPart
<1>7. \A i \in 1 .. Len(u) : u[i] = v[i]
  BY <1>3, <1>4, <1>5, <1>6 DEF IsPart
<1>8. u = v
  BY <1>6, <1>7, SeqEqual DEF Bytes
<1>. QED BY <1>8 DEF u, v

LEMMA PartsOfConcat ==
  ASSUME NEW s \in Bytes, NEW t \in Bytes
  PROVE  /\ \A m \in Nat \ {0}, n \in Nat : n <= Len(s) => SubSeq(s \o t, m, n) = SubSeq(s, m, n)
         /\ \A m \in Nat \ {0}, n \in Nat : n <= Len(t) =>
              SubSeq(s \o t, Len(s) + m, Len(s) + n) = SubSeq(t, m, n)
         /\ SubSeq(s \o t, 1, Len(s)) = s
         /\ SubSeq(s \o t, Len(s) + 1, Len(s \o t)) = t
<1>1. s \o t \in Bytes /\ Len(s \o t) = Len(s) + Len(t) /\ Len(s) \in Nat /\ Len(t) \in Nat
  BY ConcatProperties, LenProperties DEF Bytes
<1>2. \A i \in 1 .. Len(s) + Len(t) : (s \o t)[i] = IF i <= Len(s) THEN s[i] ELSE t[i - Len(s)]
  BY ConcatProperties
<1>3. ASSUME NEW m \in Nat \ {0}, NEW n \in Nat, n <= Len(s)
      PROVE  SubSeq(s \o t, m, n) = SubSeq(s, m, n)
  <2>. DEFINE u == SubSeq(s \o t, m, n)
              v == SubSeq(s, m, n)
  <2>1. IsPart(u, s \o t, m, n)
    <3>1. n <= Len(s \o t)
      BY <1>1, <1>3
    <3>. QED BY <1>1, <3>1, PartOf
  <2>2. IsPart(v, s, m, n)
    BY <1>3, PartOf
  <2>. HIDE DEF u, v
  <2>3. \A i \in 1 .. Len(u) : (s \o t)[m + i - 1] = s[m + i - 1]
    BY <1>1, <1>2, <1>3, <2>1 DEF IsPart
  <2>4. u \in Bytes /\ v \in Bytes /\ Len(u) = Len(v) /\ \A i \in 1 .. Len(u) : u[i] = v[i]
    BY <2>1, <2>2, <2>3 DEF IsPart
  <2>5. u = v
    BY <2>4, SeqEqual DEF Bytes
  <2>. QED BY <2>5 DEF u, v
<1>4. ASSUME NEW m \in Nat \ {0}, NEW n \in Nat, n <= Len(t)
      PROVE  SubSeq(s \o t, Len(s) + m, Len(s) + n) = SubSeq(t, m, n)
  BY <1>4, EndOfConcat
<1>5. SubSeq(s \o t, 1, Len(s)) = s
  BY <1>1, <1>3, SubSeqFull DEF Bytes
<1>6. SubSeq(s \o t, Len(s) + 1, Len(s \o t)) = t
  <2>1. SubSeq(s \o t, Len(s) + 1, Len(s) + Len(t)) = SubSeq(t, 1, Len(t))
    BY <1>1, <1>4
  <2>. QED BY <1>1, <2>1, SubSeqFull DEF Bytes
<1>. QED BY <1>3, <1>4, <1>5, <1>6

(* A text is what comes before a place and what comes after it.             *)
LEMMA SplitAt ==
  ASSUME NEW s \in Bytes, NEW m \in 0 .. Len(s)
  PROVE  /\ SubSeq(s, 1, m) \in Bytes /\ Len(SubSeq(s, 1, m)) = m
         /\ SubSeq(s, m + 1, Len(s)) \in Bytes /\ Len(SubSeq(s, m + 1, Len(s))) = Len(s) - m
         /\ s = SubSeq(s, 1, m) \o SubSeq(s, m + 1, Len(s))
<1>1. Len(s) \in Nat
  BY LenProperties
<1>2. /\ SubSeq(s, 1, m) \in Bytes /\ Len(SubSeq(s, 1, m)) = m
      /\ SubSeq(s, m + 1, Len(s)) \in Bytes /\ Len(SubSeq(s, m + 1, Len(s))) = Len(s) - m
  <2>1. IsPart(SubSeq(s, 1, m), s, 1, m) /\ IsPart(SubSeq(s, m + 1, Len(s)), s, m + 1, Len(s))
    BY <1>1, PartOf
  <2>. QED BY <1>1, <2>1 DEF IsPart
<1>3. SubSeq(s, 1, m) \o SubSeq(s, m + 1, Len(s)) = SubSeq(s, 1, Len(s))
  <2>1. 1 \in 1 .. Len(s) + 1 /\ m \in 1 - 1 .. Len(s) /\ Len(s) \in m .. Len(s)
    BY <1>1
  <2>. QED BY <2>1, ConcatAdjacentSubSeq DEF Bytes
<1>. QED BY <1>2, <1>3, SubSeqFull DEF Bytes

(* The units of a text.                                                     *)
AreUnits(w, s, U, n) ==
  /\ w \in Seq(Bytes) /\ Len(w) = n
  /\ \A k \in 1 .. n : /\ w[k] = SubSeq(s, (k - 1) * U + 1, k * U)
                       /\ (k - 1) * U + 1 \in Nat \ {0} /\ k * U \in Nat /\ k * U <= Len(s)

LEMMA UnitsOf ==
  ASSUME NEW s \in Bytes, NEW U \in Nat \ {0}, NEW n \in Nat, n * U <= Len(s)
  PROVE  AreUnits(Units(s, 0, U, n), s, U, n)
<1>1. ASSUME NEW k \in 1 .. n
      PROVE  (k - 1) * U + 1 \in Nat \ {0} /\ k * U \in Nat /\ k * U <= Len(s)
  <2>1. k * U <= n * U /\ k * U \in Nat /\ n * U \in Nat
    BY MulMono
  <2>2. (k - 1) * U \in Nat
    BY MulMono
  <2>3. Len(s) \in Nat
    BY LenProperties
  <2>. QED BY <2>1, <2>2, <2>3
<1>2. \A k \in 1 .. n : SubSeq(s, (k - 1) * U + 1, k * U) \in Bytes
  BY <1>1, PartOf DEF IsPart
<1>3. Units(s, 0, U, n) = [k \in 1 .. n |-> SubSeq(s, (k - 1) * U + 1, k * U)]
  <2>1. ASSUME NEW k \in 1 .. n
        PROVE  0 + (k - 1) * U + 1 = (k - 1) * U + 1 /\ 0 + k * U = k * U
    BY <1>1
  <2>2. \A k \in 1 .. n : SubSeq(s, 0 + (k - 1) * U + 1, 0 + k * U) = SubSeq(s, (k - 1) * U + 1, k * U)
    BY <2>1
  <2>. QED BY <2>2, Zenon DEF Units
<1>. DEFINE w == Units(s, 0, U, n)
<1>4. w = [k \in 1 .. n |-> SubSeq(s, (k - 1) * U + 1, k * U)]
  BY <1>3
<1>. HIDE DEF w
<1>5. w \in [1 .. n -> Bytes]
  BY <1>2, <1>4, Zenon
<1>6. w \in Seq(Bytes) /\ Len(w) = n
  <2>1. w \in Seq(Bytes)
    BY <1>5, SeqDef
  <2>2. DOMAIN w = 1 .. n /\ DOMAIN w = 1 .. Len(w) /\ Len(w) \in Nat
    BY <1>5, <2>1, LenProperties
  <2>. QED BY <2>1, <2>2
<1>7. \A k \in 1 .. n : w[k] = SubSeq(s, (k - 1) * U + 1, k * U)
  BY <1>4, Zenon
<1>8. AreUnits(w, s, U, n)
  BY <1>1, <1>6, <1>7, Zenon DEF AreUnits
<1>. QED BY <1>8 DEF w

(* Whole units and what follows them are cut as each of them is.            *)
LEMMA WholeConcat ==
  ASSUME NEW s \in Bytes, NEW t \in Bytes, NEW U \in Nat \ {0}, Len(s) % U = 0
  PROVE  Whole(s \o t, U) = Whole(s, U) \o Whole(t, U)
<1>1. PICK m \in Nat : Len(s) \div U = m /\ Len(s) = m * U
  <2>1. Len(s) \in Nat
    BY LenProperties
  <2>2. \E q \in Nat, r \in 0 .. U - 1 : Len(s) \div U = q /\ Len(s) % U = r /\ Len(s) = q * U + r
    BY <2>1, DivMod
  <2>3. PICK q \in Nat, r \in 0 .. U - 1 : Len(s) \div U = q /\ Len(s) % U = r /\ Len(s) = q * U + r
    BY <2>2
  <2>4. q * U \in Nat /\ r = 0
    BY <2>3, MulMono
  <2>. QED BY <2>3, <2>4
<1>2. PICK n \in Nat, r \in 0 .. U - 1 : Len(t) \div U = n /\ Len(t) = n * U + r
  <2>1. Len(t) \in Nat
    BY LenProperties
  <2>2. \E q \in Nat, r \in 0 .. U - 1 : Len(t) \div U = q /\ Len(t) % U = r /\ Len(t) = q * U + r
    BY <2>1, DivMod
  <2>. QED BY <2>2
<1>3. /\ s \o t \in Bytes /\ Len(s \o t) = Len(s) + Len(t) /\ Len(s) \in Nat /\ Len(t) \in Nat
      /\ m * U \in Nat /\ n * U \in Nat /\ (m + n) * U = m * U + n * U
  BY ConcatProperties, LenProperties DEF Bytes
<1>4. Len(s \o t) \div U = m + n
  <2>1. (Len(s) + Len(t)) \div U = (Len(s) \div U) + (Len(t) \div U)
    <3>. DEFINE a == Len(s)
                b == Len(t)
    <3>1. a \in Nat /\ b \in Nat /\ a % U = 0
      BY <1>3
    <3>. HIDE DEF a, b
    <3>2. (a + b) \div U = (a \div U) + (b \div U)
      BY <3>1, ModSum
    <3>. QED BY <3>2 DEF a, b
  <2>. QED BY <1>1, <1>2, <1>3, <2>1
<1>5. m * U <= Len(s) /\ n * U <= Len(t) /\ (m + n) * U <= Len(s \o t)
  BY <1>1, <1>2, <1>3
<1>. DEFINE ws == Units(s, 0, U, m)
            wt == Units(t, 0, U, n)
            wst == Units(s \o t, 0, U, m + n)
<1>6. AreUnits(ws, s, U, m) /\ AreUnits(wt, t, U, n) /\ AreUnits(wst, s \o t, U, m + n)
  <2>1. m + n \in Nat
    OBVIOUS
  <2>. QED BY <1>3, <1>5, <2>1, UnitsOf
<1>. HIDE DEF ws, wt, wst
<1>9. /\ ws \o wt \in Seq(Bytes) /\ Len(ws \o wt) = m + n
      /\ \A k \in 1 .. m + n : (ws \o wt)[k] = IF k <= m THEN ws[k] ELSE wt[k - m]
  <2>1. ws \in Seq(Bytes) /\ Len(ws) = m /\ wt \in Seq(Bytes) /\ Len(wt) = n
    BY <1>6 DEF AreUnits
  <2>2. /\ ws \o wt \in Seq(Bytes) /\ Len(ws \o wt) = Len(ws) + Len(wt)
        /\ \A k \in 1 .. Len(ws) + Len(wt) : (ws \o wt)[k] = IF k <= Len(ws) THEN ws[k] ELSE wt[k - Len(ws)]
    BY <2>1, ConcatProperties
  <2>. QED BY <2>1, <2>2
<1>10. ASSUME NEW k \in 1 .. m + n
       PROVE  wst[k] = (ws \o wt)[k]
  <2>1. CASE k <= m
    <3>1. k \in 1 .. m
      BY <2>1
    <3>2. SubSeq(s \o t, (k - 1) * U + 1, k * U) = SubSeq(s, (k - 1) * U + 1, k * U)
      <4>1. (k - 1) * U + 1 \in Nat \ {0} /\ k * U \in Nat /\ k * U <= Len(s)
        BY <1>6, <3>1, Zenon DEF AreUnits
      <4>. QED BY <4>1, PartsOfConcat
    <3>3. /\ wst[k] = SubSeq(s \o t, (k - 1) * U + 1, k * U)
          /\ ws[k] = SubSeq(s, (k - 1) * U + 1, k * U)
      BY <1>6, <3>1, Zenon DEF AreUnits
    <3>4. (ws \o wt)[k] = ws[k]
      BY <1>9, <2>1
    <3>. QED BY <3>2, <3>3, <3>4
  <2>2. CASE ~(k <= m)
    <3>1. PICK j \in 1 .. n : k = m + j
      <4>1. k - m \in 1 .. n /\ k = m + (k - m)
        BY <2>2
      <4>. QED BY <4>1
    <3>2. k * U = Len(s) + j * U /\ (k - 1) * U + 1 = Len(s) + ((j - 1) * U + 1)
      <4>1. (m + j) * U = m * U + j * U /\ (m + j - 1) * U = m * U + (j - 1) * U
        OBVIOUS
      <4>2. j * U \in Nat /\ (j - 1) * U \in Nat
        BY MulMono
      <4>. QED BY <1>1, <1>3, <3>1, <4>1, <4>2
    <3>3. SubSeq(s \o t, Len(s) + ((j - 1) * U + 1), Len(s) + j * U) = SubSeq(t, (j - 1) * U + 1, j * U)
      <4>1. (j - 1) * U + 1 \in Nat \ {0} /\ j * U \in Nat /\ j * U <= Len(t)
        BY <1>6, Zenon DEF AreUnits
      <4>2. ASSUME NEW a \in Nat \ {0}, NEW b \in Nat, b <= Len(t)
            PROVE  SubSeq(s \o t, Len(s) + a, Len(s) + b) = SubSeq(t, a, b)
        BY <4>2, EndOfConcat
      <4>. QED BY <4>1, <4>2, Zenon
    <3>4. k - m = j
      BY <3>1
    <3>5. /\ wst[k] = SubSeq(s \o t, (k - 1) * U + 1, k * U)
          /\ wt[j] = SubSeq(t, (j - 1) * U + 1, j * U)
      BY <1>6, Zenon DEF AreUnits
    <3>6. (ws \o wt)[k] = wt[j]
      BY <1>9, <2>2, <3>4
    <3>. QED BY <3>2, <3>3, <3>5, <3>6
  <2>. QED BY <2>1, <2>2
<1>11. wst = ws \o wt
  <2>1. wst \in Seq(Bytes) /\ Len(wst) = m + n
    BY <1>6 DEF AreUnits
  <2>2. wst \in Seq(Bytes) /\ ws \o wt \in Seq(Bytes) /\ Len(wst) = Len(ws \o wt)
    BY <1>9, <2>1
  <2>3. \A k \in 1 .. Len(wst) : wst[k] = (ws \o wt)[k]
    BY <1>10, <2>1
  <2>. QED BY <2>2, <2>3, SeqEqual
<1>. QED BY <1>1, <1>2, <1>4, <1>11 DEF Whole, ws, wt, wst

(* A text shorter than a unit has none, and one as long is the one it has.  *)
LEMMA WholeOf ==
  ASSUME NEW s \in Bytes, NEW U \in Nat \ {0}
  PROVE  /\ Whole(s, U) \in Seq(Bytes)
         /\ Len(s) < U => Whole(s, U) = <<>>
         /\ Len(s) = U => Whole(s, U) = <<s>>
<1>1. Len(s) \in Nat
  BY LenProperties DEF Bytes
<1>2. PICK q \in Nat, r \in 0 .. U - 1 : Len(s) \div U = q /\ Len(s) % U = r /\ Len(s) = q * U + r
  BY <1>1, DivMod
<1>. DEFINE w == Units(s, 0, U, q)
<1>3. AreUnits(w, s, U, q)
  <2>1. q * U \in Nat
    BY MulMono
  <2>2. q * U <= Len(s)
    BY <1>2, <2>1
  <2>. QED BY <2>2, UnitsOf
<1>4. Whole(s, U) = w
  BY <1>2 DEF Whole
<1>. HIDE DEF w
<1>5. w \in Seq(Bytes) /\ Len(w) = q
  BY <1>3 DEF AreUnits
<1>6. ASSUME Len(s) < U
      PROVE  w = <<>>
  <2>1. q = 0
    <3>1. SUFFICES ASSUME q # 0 PROVE FALSE
      OBVIOUS
    <3>2. 1 * U <= q * U
      BY <3>1, MulMono
    <3>. QED BY <1>2, <1>6, <3>2
  <2>. QED BY <1>5, <2>1, EmptySeq
<1>7. ASSUME Len(s) = U
      PROVE  w = <<s>>
  <2>1. q = 1
    <3>1. Len(s) = 1 * U + 0 /\ 0 \in 0 .. U - 1
      BY <1>7
    <3>2. Len(s) \div U = 1
      BY <1>1, <3>1, DivUnique
    <3>. QED BY <1>2, <3>2
  <2>2. w[1] = SubSeq(s, (1 - 1) * U + 1, 1 * U)
    BY <1>3, <2>1 DEF AreUnits
  <2>3. SubSeq(s, (1 - 1) * U + 1, 1 * U) = s
    <3>1. (1 - 1) * U + 1 = 1 /\ 1 * U = Len(s)
      BY <1>7
    <3>. QED BY <3>1, SubSeqFull DEF Bytes
  <2>4. <<s>> \in Seq(Bytes) /\ Len(<<s>>) = 1 /\ <<s>>[1] = s
    OBVIOUS
  <2>. QED BY <1>5, <2>1, <2>2, <2>3, <2>4, SeqEqual
<1>. QED BY <1>4, <1>5, <1>6, <1>7

(* A text is whole units and a rest.                                        *)
Cut(a, U, b, r) == /\ a \in Bytes /\ b \in Bytes /\ r \in Bytes
                   /\ a = b \o r /\ Len(b) % U = 0 /\ Len(r) < U

LEMMA Cutting ==
  ASSUME NEW a \in Bytes, NEW U \in Nat \ {0}
  PROVE  \E b, r \in Bytes :
           /\ Cut(a, U, b, r)
           /\ r = SubSeq(a, (Len(a) \div U) * U + 1, Len(a))
<1>1. Len(a) \in Nat
  BY LenProperties DEF Bytes
<1>2. PICK q \in Nat, k \in 0 .. U - 1 : Len(a) \div U = q /\ Len(a) % U = k /\ Len(a) = q * U + k
  BY <1>1, DivMod
<1>3. q * U \in Nat /\ q * U \in 0 .. Len(a)
  <2>1. q * U \in Nat
    BY MulMono
  <2>. QED BY <1>1, <1>2, <2>1
<1>. DEFINE b == SubSeq(a, 1, q * U)
            r == SubSeq(a, q * U + 1, Len(a))
<1>4. b \in Bytes /\ Len(b) = q * U /\ r \in Bytes /\ Len(r) = Len(a) - q * U /\ a = b \o r
  BY <1>3, SplitAt
<1>5. r = SubSeq(a, (Len(a) \div U) * U + 1, Len(a))
  BY <1>2
<1>. HIDE DEF b, r
<1>6. Len(r) < U
  BY <1>2, <1>3, <1>4
<1>7. Len(b) % U = 0
  <2>1. Len(b) = q * U + 0 /\ 0 \in 0 .. U - 1 /\ Len(b) \in Nat
    BY <1>3, <1>4
  <2>. QED BY <2>1, DivUnique
<1>. QED BY <1>4, <1>5, <1>6, <1>7 DEF Cut

(* What is left over of a text counts in its length and not in its units.   *)
LEMMA CutFacts ==
  ASSUME NEW a, NEW b, NEW r, NEW U \in Nat \ {0}, Cut(a, U, b, r)
  PROVE  /\ Len(a) \in Nat /\ Len(b) \in Nat /\ Len(r) \in 0 .. U - 1 /\ Len(a) = Len(b) + Len(r)
         /\ Len(a) % U = Len(r)
         /\ Whole(a, U) = Whole(b, U)
<1>1. a \in Bytes /\ b \in Bytes /\ r \in Bytes /\ a = b \o r /\ Len(b) % U = 0 /\ Len(r) < U
  BY DEF Cut
<1>2. Len(a) \in Nat /\ Len(b) \in Nat /\ Len(r) \in Nat /\ Len(a) = Len(b) + Len(r)
  BY <1>1, LenProperties, ConcatProperties DEF Bytes
<1>3. (Len(b) + Len(r)) % U = Len(r)
  <2>1. (Len(b) + Len(r)) % U = Len(r) % U
    BY <1>1, <1>2, ModSum
  <2>2. Len(r) = 0 * U + Len(r) /\ Len(r) \in 0 .. U - 1
    BY <1>1, <1>2
  <2>3. Len(r) % U = Len(r)
    BY <1>2, <2>2, DivUnique
  <2>. QED BY <2>1, <2>3
<1>4. Whole(a, U) = Whole(b, U) \o Whole(r, U)
  BY <1>1, WholeConcat
<1>5. Whole(r, U) = <<>> /\ Whole(b, U) \in Seq(Bytes)
  BY <1>1, WholeOf
<1>6. Whole(b, U) \o <<>> = Whole(b, U)
  BY <1>5, ConcatEmptySeq
<1>. QED BY <1>1, <1>2, <1>3, <1>4, <1>5, <1>6

LEMMA Regroup ==
  ASSUME NEW x \in Bytes, NEW y \in Bytes, NEW z \in Bytes
  PROVE  (x \o y) \o z = x \o (y \o z)
BY ConcatAssociative DEF Bytes

LEMMA Joined ==
  ASSUME NEW x \in Bytes, NEW y \in Bytes
  PROVE  x \o y \in Bytes /\ Len(x \o y) = Len(x) + Len(y) /\ Len(x) \in Nat /\ Len(y) \in Nat
BY ConcatProperties, LenProperties DEF Bytes

(* A text goes on where its rest does.                                      *)
LEMMA CutGrows ==
  ASSUME NEW U \in Nat \ {0}, NEW text, NEW b, NEW r, Cut(text, U, b, r),
         NEW bytes \in Bytes, NEW b2, NEW r2, Cut(r \o bytes, U, b2, r2)
  PROVE  /\ Cut(text \o bytes, U, b \o b2, r2)
         /\ Whole(b \o b2, U) = Whole(b, U) \o Whole(b2, U)
<1>1. text \in Bytes /\ b \in Bytes /\ r \in Bytes /\ text = b \o r /\ Len(b) % U = 0
  BY DEF Cut
<1>2. b2 \in Bytes /\ r2 \in Bytes /\ r \o bytes = b2 \o r2 /\ Len(b2) % U = 0 /\ Len(r2) < U
  BY DEF Cut
<1>3. text \o bytes = (b \o b2) \o r2
  <2>1. (b \o r) \o bytes = b \o (r \o bytes) /\ (b \o b2) \o r2 = b \o (b2 \o r2)
    <3>1. b \in Bytes /\ r \in Bytes /\ b2 \in Bytes /\ r2 \in Bytes
      BY <1>1, <1>2
    <3>2. (b \o r) \o bytes = b \o (r \o bytes)
      BY <3>1, Regroup, SMTT(30)
    <3>3. (b \o b2) \o r2 = b \o (b2 \o r2)
      BY <3>1, Regroup, SMTT(30)
    <3>. QED BY <3>2, <3>3
  <2>. QED BY <1>1, <1>2, <2>1
<1>4. text \o bytes \in Bytes /\ b \o b2 \in Bytes /\ Len(b \o b2) = Len(b) + Len(b2)
  BY <1>1, <1>2, ConcatProperties DEF Bytes
<1>5. Len(b \o b2) % U = 0
  <2>1. Len(b) \in Nat /\ Len(b2) \in Nat
    BY <1>1, <1>2, LenProperties DEF Bytes
  <2>2. (Len(b) + Len(b2)) % U = Len(b2) % U
    BY <1>1, <2>1, ModSum
  <2>. QED BY <1>2, <1>4, <2>2
<1>6. Whole(b \o b2, U) = Whole(b, U) \o Whole(b2, U)
  BY <1>1, <1>2, WholeConcat
<1>. QED BY <1>2, <1>3, <1>4, <1>5, <1>6 DEF Cut

-----------------------------------------------------------------------------
(* What a context keeps of a text: its length, the rest of a unit, and the  *)
(* whole units as the compression was given them.                           *)
IsContext(c) == /\ c = [count |-> c.count, in |-> c.in, hashed |-> c.hashed]
                /\ c.count \in Nat /\ c.in \in Bytes

KeptAs(c, U, text, b, r) == /\ Cut(text, U, b, r)
                            /\ Len(r) <= Len(c.in) /\ SubSeq(c.in, 1, Len(r)) = r
                            /\ c.hashed = Whole(b, U)

Kept(c, U, text) == /\ IsContext(c) /\ c.count = Len(text)
                    /\ \E b, r : KeptAs(c, U, text, b, r)

LEMMA MD5UpdateKeeps ==
  ASSUME NEW c, NEW text, Kept(c, UnitSize, text), NEW bytes \in Bytes
  PROVE  Kept(MD5Update(c, bytes), UnitSize, text \o bytes)
<1>. DEFINE U == UnitSize
<1>1. U \in Nat \ {0}
  BY SignaturesAssumption
<1>. HIDE DEF U
<1>2. PICK b, r : KeptAs(c, U, text, b, r)
  BY DEF Kept, U
<1>3. Cut(text, U, b, r)
  BY <1>2 DEF KeptAs
<1>17. SubSeq(c.in, 1, Len(r)) = r /\ c.hashed = Whole(b, U)
  BY <1>2 DEF KeptAs
<1>4. c.count = Len(text) /\ IsContext(c)
  BY DEF Kept
<1>5. text \in Bytes /\ r \in Bytes
  BY <1>3 DEF Cut
<1>6. c.count % U = Len(r)
  <2>1. Len(text) % U = Len(r)
    BY <1>1, <1>3, CutFacts
  <2>. QED BY <1>4, <2>1
<1>. DEFINE all == r \o bytes
            n   == Len(all) \div U
            d   == MD5Update(c, bytes)
<1>7. all \in Bytes
  BY <1>5, ConcatProperties DEF Bytes
<1>8. d = [count |-> c.count + Len(bytes),
           in |-> SubSeq(all, n * U + 1, Len(all)),
           hashed |-> c.hashed \o Whole(all, U)]
  BY <1>17, <1>6 DEF MD5Update, Whole, U
<1>. HIDE DEF all, d, n
<1>9. PICK b2, r2 \in Bytes : Cut(all, U, b2, r2) /\ r2 = SubSeq(all, n * U + 1, Len(all))
  BY <1>1, <1>7, Cutting DEF n
<1>10. Cut(text \o bytes, U, b \o b2, r2) /\ Whole(b \o b2, U) = Whole(b, U) \o Whole(b2, U)
  BY <1>1, <1>3, <1>9, CutGrows DEF all
<1>11. Whole(all, U) = Whole(b2, U)
  BY <1>1, <1>9, CutFacts
<1>12. d.count = c.count + Len(bytes) /\ d.in = r2 /\ d.hashed = Whole(b \o b2, U)
  BY <1>17, <1>8, <1>9, <1>10, <1>11
<1>13. KeptAs(d, U, text \o bytes, b \o b2, r2)
  <2>1. SubSeq(r2, 1, Len(r2)) = r2 /\ Len(r2) <= Len(r2)
    BY SubSeqFull, LenProperties DEF Bytes
  <2>. QED BY <1>10, <1>12, <2>1 DEF KeptAs
<1>14. d.count = Len(text \o bytes) /\ d.count \in Nat
  BY <1>4, <1>5, <1>12, ConcatProperties, LenProperties DEF Bytes
<1>15. IsContext(d)
  BY <1>8, <1>9, <1>12, <1>14 DEF IsContext
<1>16. Kept(d, U, text \o bytes)
  BY <1>13, <1>14, <1>15 DEF Kept
<1>. QED BY <1>16 DEF d, U

LEMMA NoRest ==
  ASSUME NEW U \in Nat \ {0}, NEW text, NEW b, NEW r, Cut(text, U, b, r), Len(text) % U = 0
  PROVE  r = <<>> /\ b = text
<1>1. Len(r) = 0
  BY CutFacts
<1>2. b \in Bytes /\ r \in Bytes /\ text = b \o r
  BY DEF Cut
<1>3. r = <<>>
  BY <1>1, <1>2, EmptySeq DEF Bytes
<1>. QED BY <1>2, <1>3, ConcatEmptySeq DEF Bytes

(* The rest overwrites what a context has kept, which must be nothing of    *)
(* the text.                                                                *)
LEMMA shsUpdateKeeps ==
  ASSUME NEW c, NEW text, Kept(c, UnitSize, text), Len(text) % UnitSize = 0, NEW bytes \in Bytes
  PROVE  Kept(shsUpdate(c, bytes), UnitSize, text \o bytes)
<1>. DEFINE U == UnitSize
<1>1. U \in Nat \ {0}
  BY SignaturesAssumption
<1>0. Len(text) % U = 0
  OBVIOUS
<1>. HIDE DEF U
<1>2. PICK b, r : KeptAs(c, U, text, b, r)
  BY DEF Kept, U
<1>3. Cut(text, U, b, r)
  BY <1>2 DEF KeptAs
<1>4. c.hashed = Whole(b, U)
  BY <1>2 DEF KeptAs
<1>5. c.count = Len(text) /\ c.count \in Nat /\ c.in \in Bytes
  BY DEF Kept, IsContext
<1>6. r = <<>> /\ b = text
  BY <1>0, <1>1, <1>3, NoRest
<1>. DEFINE n    == Len(bytes) \div U
            rest == SubSeq(bytes, n * U + 1, Len(bytes))
            old  == SubSeq(c.in, Len(rest) + 1, Len(c.in))
            d    == shsUpdate(c, bytes)
<1>7. d = [count |-> c.count + Len(bytes), in |-> rest \o old, hashed |-> c.hashed \o Whole(bytes, U)]
  BY DEF shsUpdate, Whole, U
<1>. HIDE DEF d
<1>8. PICK b2, r2 \in Bytes : Cut(bytes, U, b2, r2) /\ r2 = rest
  BY <1>1, Cutting
<1>9. Cut(r \o bytes, U, b2, r2)
  <2>1. r \o bytes = bytes
    BY <1>6, ConcatEmptySeq DEF Bytes
  <2>. QED BY <1>8, <2>1
<1>10. Cut(text \o bytes, U, b \o b2, r2) /\ Whole(b \o b2, U) = Whole(b, U) \o Whole(b2, U)
  BY <1>1, <1>3, <1>9, CutGrows
<1>11. Whole(bytes, U) = Whole(b2, U)
  BY <1>1, <1>8, CutFacts
<1>. HIDE DEF rest
<1>12. old \in Bytes
  <2>1. Len(rest) + 1 \in Nat \ {0} /\ Len(c.in) \in Nat
    BY <1>5, <1>8, LenProperties DEF Bytes
  <2>2. IsPart(old, c.in, Len(rest) + 1, Len(c.in))
    BY <1>5, <2>1, PartOf
  <2>. QED BY <2>2 DEF IsPart
<1>. HIDE DEF old
<1>13. d.count = c.count + Len(bytes) /\ d.in = r2 \o old /\ d.hashed = Whole(b \o b2, U)
  BY <1>4, <1>7, <1>8, <1>10, <1>11
<1>14. /\ r2 \o old \in Bytes /\ Len(r2) <= Len(r2 \o old) /\ SubSeq(r2 \o old, 1, Len(r2)) = r2
  <2>1. r2 \o old \in Bytes /\ Len(r2 \o old) = Len(r2) + Len(old) /\ Len(r2) \in Nat /\ Len(old) \in Nat
    BY <1>12, ConcatProperties, LenProperties DEF Bytes
  <2>2. SubSeq(r2 \o old, 1, Len(r2)) = r2
    BY <1>12, PartsOfConcat
  <2>. QED BY <2>1, <2>2
<1>15. KeptAs(d, U, text \o bytes, b \o b2, r2)
  BY <1>10, <1>13, <1>14 DEF KeptAs
<1>16. d.count = Len(text \o bytes) /\ d.count \in Nat
  <2>1. text \in Bytes
    BY <1>3 DEF Cut
  <2>. QED BY <1>5, <1>13, <2>1, ConcatProperties, LenProperties DEF Bytes
<1>17. IsContext(d)
  <2>1. d = [count |-> d.count, in |-> d.in, hashed |-> d.hashed]
    BY <1>7
  <2>. QED BY <1>13, <1>14, <1>16, <2>1 DEF IsContext
<1>18. Kept(d, U, text \o bytes)
  BY <1>15, <1>16, <1>17 DEF Kept
<1>. QED BY <1>18 DEF d, U

(* The units from a place on are those of what follows it.                  *)
LEMMA UnitsAfter ==
  ASSUME NEW s \in Bytes, NEW t \in Bytes, NEW U \in Nat \ {0}
  PROVE  Units(s \o t, Len(s), U, Len(t) \div U) = Whole(t, U)
<1>1. Len(s) \in Nat /\ Len(t) \in Nat
  BY LenProperties DEF Bytes
<1>2. PICK n \in Nat, r \in 0 .. U - 1 : Len(t) \div U = n /\ Len(t) % U = r /\ Len(t) = n * U + r
  BY <1>1, DivMod
<1>3. \A a \in Nat \ {0}, e \in Nat : e <= Len(t) => SubSeq(s \o t, Len(s) + a, Len(s) + e) = SubSeq(t, a, e)
  BY PartsOfConcat
<1>4. AreUnits(Units(t, 0, U, n), t, U, n)
  <2>1. n * U \in Nat
    BY MulMono
  <2>2. n * U <= Len(t)
    BY <1>2, <2>1
  <2>. QED BY <2>2, UnitsOf
<1>5. ASSUME NEW k \in 1 .. n
      PROVE  SubSeq(s \o t, Len(s) + (k - 1) * U + 1, Len(s) + k * U)
               = SubSeq(t, 0 + (k - 1) * U + 1, 0 + k * U)
  <2>1. (k - 1) * U + 1 \in Nat \ {0} /\ k * U \in Nat /\ k * U <= Len(t)
    BY <1>4, Zenon DEF AreUnits
  <2>2. SubSeq(s \o t, Len(s) + ((k - 1) * U + 1), Len(s) + k * U) = SubSeq(t, (k - 1) * U + 1, k * U)
    BY <1>3, <2>1, Zenon
  <2>3. (k - 1) * U \in Nat
    BY MulMono
  <2>4. /\ Len(s) + ((k - 1) * U + 1) = Len(s) + (k - 1) * U + 1
        /\ 0 + (k - 1) * U + 1 = (k - 1) * U + 1 /\ 0 + k * U = k * U
    BY <1>1, <2>1, <2>3
  <2>. QED BY <2>2, <2>4
<1>6. Units(s \o t, Len(s), U, n) = Units(t, 0, U, n)
  BY <1>5, Zenon DEF Units
<1>. QED BY <1>2, <1>6 DEF Whole

LEMMA haval_hashKeeps ==
  ASSUME NEW c, NEW text, Kept(c, HavalUnitSize, text), NEW bytes \in Bytes
  PROVE  Kept(haval_hash(c, bytes), HavalUnitSize, text \o bytes)
<1>. DEFINE U == HavalUnitSize
<1>1. U \in Nat \ {0}
  BY SignaturesAssumption
<1>. HIDE DEF U
<1>2. PICK b, r : KeptAs(c, U, text, b, r)
  BY DEF Kept, U
<1>3. Cut(text, U, b, r)
  BY <1>2 DEF KeptAs
<1>4. c.hashed = Whole(b, U) /\ SubSeq(c.in, 1, Len(r)) = r
  BY <1>2 DEF KeptAs
<1>5. /\ c.count = Len(text) /\ c.count \in Nat /\ c.in \in Bytes
      /\ c = [count |-> c.count, in |-> c.in, hashed |-> c.hashed]
  BY DEF Kept, IsContext
<1>6. text \in Bytes /\ b \in Bytes /\ r \in Bytes
  BY <1>3 DEF Cut
<1>7. Len(r) \in 0 .. U - 1 /\ Len(text) % U = Len(r)
  BY <1>1, <1>3, CutFacts
<1>8. c.count % U = Len(r)
  BY <1>5, <1>7
<1>. DEFINE fill == U - Len(r)
            n    == (Len(bytes) - fill) \div U
            d    == haval_hash(c, bytes)
<1>9. d = IF Len(r) + Len(bytes) >= U
          THEN [count  |-> c.count + Len(bytes),
                in     |-> SubSeq(bytes, fill + n * U + 1, Len(bytes)),
                hashed |-> c.hashed \o <<r \o SubSeq(bytes, 1, fill)>> \o Units(bytes, fill, U, n)]
          ELSE [count |-> c.count + Len(bytes), in |-> r \o bytes, hashed |-> c.hashed]
  BY <1>4, <1>8, Zenon DEF haval_hash, U
<1>. HIDE DEF d
<1>10. Len(bytes) \in Nat /\ fill \in 1 .. U
  BY <1>1, <1>7, LenProperties DEF Bytes
<1>11. d.count = c.count + Len(bytes) /\ d = [count |-> d.count, in |-> d.in, hashed |-> d.hashed]
  BY <1>9, Zenon
<1>12. d.count = Len(text \o bytes) /\ d.count \in Nat
  BY <1>5, <1>6, <1>10, <1>11, ConcatProperties DEF Bytes
<1>13. CASE ~(Len(r) + Len(bytes) >= U)
  <2>1. d.in = r \o bytes /\ d.hashed = c.hashed
    BY <1>9, <1>13
  <2>2. r \o bytes \in Bytes /\ Len(r \o bytes) = Len(r) + Len(bytes)
    BY <1>6, ConcatProperties DEF Bytes
  <2>3. Cut(r \o bytes, U, <<>>, r \o bytes)
    <3>1. <<>> \in Bytes /\ Len(<<>>) = 0 /\ <<>> \o (r \o bytes) = r \o bytes
      BY <2>2, EmptySeq, ConcatEmptySeq DEF Bytes
    <3>2. 0 % U = 0
      BY <1>1
    <3>3. Len(r \o bytes) < U
      BY <1>1, <1>7, <1>10, <1>13, <2>2
    <3>. QED BY <2>2, <3>1, <3>2, <3>3 DEF Cut
  <2>4. b \o <<>> = b
    BY <1>6, ConcatEmptySeq DEF Bytes
  <2>5. Cut(text \o bytes, U, b, r \o bytes)
    <3>1. Cut(text \o bytes, U, b \o <<>>, r \o bytes)
      BY <1>1, <1>3, <2>3, CutGrows
    <3>. QED BY <2>4, <3>1
  <2>6. SubSeq(r \o bytes, 1, Len(r \o bytes)) = r \o bytes /\ Len(r \o bytes) <= Len(r \o bytes)
    BY <2>2, SubSeqFull, LenProperties DEF Bytes
  <2>7. KeptAs(d, U, text \o bytes, b, r \o bytes)
    BY <1>4, <2>1, <2>5, <2>6 DEF KeptAs
  <2>8. IsContext(d)
    BY <1>11, <1>12, <2>1, <2>2 DEF IsContext
  <2>9. Kept(d, U, text \o bytes)
    BY <1>12, <2>7, <2>8 DEF Kept
  <2>. QED BY <2>9 DEF d, U
<1>14. CASE Len(r) + Len(bytes) >= U
  <2>. DEFINE b1 == SubSeq(bytes, 1, fill)
              m1 == SubSeq(bytes, fill + 1, Len(bytes))
  <2>1. /\ d.in = SubSeq(bytes, fill + n * U + 1, Len(bytes))
        /\ d.hashed = c.hashed \o <<r \o b1>> \o Units(bytes, fill, U, n)
    BY <1>9, <1>14
  <2>2. fill \in 0 .. Len(bytes)
    BY <1>1, <1>7, <1>10, <1>14
  <2>3. /\ b1 \in Bytes /\ Len(b1) = fill /\ m1 \in Bytes /\ Len(m1) = Len(bytes) - fill /\ bytes = b1 \o m1
    BY <2>2, SplitAt
  <2>. HIDE DEF b1, m1
  <2>4. n = Len(m1) \div U
    BY <2>3
  <2>5. Units(bytes, fill, U, n) = Whole(m1, U)
    <3>1. Units(b1 \o m1, Len(b1), U, Len(m1) \div U) = Whole(m1, U)
      BY <1>1, <2>3, UnitsAfter
    <3>. QED BY <2>3, <2>4, <3>1
  <2>6. PICK b2, r2 \in Bytes : Cut(m1, U, b2, r2) /\ r2 = SubSeq(m1, (Len(m1) \div U) * U + 1, Len(m1))
    BY <1>1, <2>3, Cutting
  <2>. HIDE DEF n
  <2>7. d.in = r2
    <3>1. Len(m1) \in Nat /\ n \in Nat /\ n * U \in Nat
      <4>1. Len(m1) \in Nat
        BY <2>3, LenProperties DEF Bytes
      <4>2. Len(m1) \div U \in Nat
        BY <1>1, <4>1
      <4>3. n \in Nat
        BY <2>4, <4>2
      <4>. QED BY <1>1, <4>1, <4>3, MulMono
    <3>2. ASSUME NEW a \in Nat \ {0}, NEW e \in Nat, e <= Len(m1)
          PROVE  SubSeq(b1 \o m1, Len(b1) + a, Len(b1) + e) = SubSeq(m1, a, e)
      <4>1. b1 \in Bytes /\ m1 \in Bytes
        BY <2>3
      <4>. QED BY <3>2, <4>1, EndOfConcat
    <3>3. n * U + 1 \in Nat \ {0} /\ Len(m1) <= Len(m1)
      BY <3>1
    <3>4. SubSeq(b1 \o m1, Len(b1) + (n * U + 1), Len(b1) + Len(m1)) = SubSeq(m1, n * U + 1, Len(m1))
      BY <3>1, <3>2, <3>3, Zenon
    <3>5. Len(b1) + (n * U + 1) = fill + n * U + 1 /\ Len(b1) + Len(m1) = Len(bytes)
      BY <1>10, <2>3, <3>1
    <3>. QED BY <2>1, <2>3, <2>4, <2>6, <3>4, <3>5
  <2>8. r \o b1 \in Bytes /\ Len(r \o b1) = U
    <3>1. r \o b1 \in Bytes /\ Len(r \o b1) = Len(r) + Len(b1)
      BY <1>6, <2>3, ConcatProperties DEF Bytes
    <3>. QED BY <1>1, <1>7, <2>3, <3>1
  <2>. DEFINE u == r \o b1
  <2>17. u \in Bytes /\ Len(u) = U
    BY <2>8
  <2>. HIDE DEF u
  <2>9. Cut(u, U, u, <<>>)
    <3>1. <<>> \in Bytes /\ Len(<<>>) = 0 /\ u \o <<>> = u
      BY <2>17, EmptySeq, ConcatEmptySeq DEF Bytes
    <3>2. Len(u) % U = 0 /\ 0 < U
      BY <1>1, <2>17
    <3>. QED BY <2>17, <3>1, <3>2 DEF Cut
  <2>10. Cut(u \o m1, U, u \o b2, r2) /\ Whole(u \o b2, U) = Whole(u, U) \o Whole(b2, U)
    <3>1. <<>> \o m1 = m1
      BY <2>3, ConcatEmptySeq DEF Bytes
    <3>2. Cut(<<>> \o m1, U, b2, r2)
      BY <2>6, <3>1
    <3>3. m1 \in Bytes
      BY <2>3
    <3>. DEFINE none == <<>>
    <3>4. Cut(u, U, u, none) /\ Cut(none \o m1, U, b2, r2)
      BY <2>9, <3>2
    <3>. HIDE DEF none
    <3>. QED BY <1>1, <3>3, <3>4, CutGrows
  <2>11. u \o m1 = r \o bytes
    <3>1. r \in Bytes /\ b1 \in Bytes /\ m1 \in Bytes
      BY <1>6, <2>3
    <3>2. (r \o b1) \o m1 = r \o (b1 \o m1)
      BY <3>1, Regroup, SMTT(30)
    <3>. QED BY <2>3, <3>2 DEF u
  <2>12. /\ Cut(text \o bytes, U, b \o (u \o b2), r2)
         /\ Whole(b \o (u \o b2), U) = Whole(b, U) \o Whole(u \o b2, U)
    <3>1. Cut(r \o bytes, U, u \o b2, r2)
      BY <2>10, <2>11
    <3>. QED BY <1>1, <1>3, <3>1, CutGrows
  <2>13. d.hashed = Whole(b \o (u \o b2), U)
    <3>1. /\ Whole(u, U) = <<u>> /\ Whole(u, U) \in Seq(Bytes)
          /\ Whole(b, U) \in Seq(Bytes) /\ Whole(m1, U) \in Seq(Bytes)
      BY <1>1, <1>6, <2>3, <2>17, WholeOf
    <3>2. Whole(m1, U) = Whole(b2, U)
      BY <1>1, <2>6, CutFacts
    <3>3. (Whole(b, U) \o <<u>>) \o Whole(m1, U) = Whole(b, U) \o (<<u>> \o Whole(m1, U))
      BY <3>1, ConcatAssociative
    <3>. QED BY <1>4, <2>1, <2>5, <2>10, <2>12, <3>1, <3>2, <3>3 DEF u
  <2>14. KeptAs(d, U, text \o bytes, b \o (u \o b2), r2)
    <3>1. SubSeq(r2, 1, Len(r2)) = r2 /\ Len(r2) <= Len(r2)
      BY <2>6, SubSeqFull, LenProperties, SMTT(30) DEF Bytes
    <3>. QED BY <2>7, <2>12, <2>13, <3>1 DEF KeptAs
  <2>15. IsContext(d)
    BY <1>11, <1>12, <2>6, <2>7 DEF IsContext
  <2>16. Kept(d, U, text \o bytes)
    BY <1>12, <2>14, <2>15 DEF Kept
  <2>. QED BY <2>16 DEF d, U
<1>. QED BY <1>13, <1>14

-----------------------------------------------------------------------------
(* The pieces the end of a text is made of are texts.                       *)
LEMMA PiecesTyped ==
  /\ <<>> \in Bytes /\ Len(<<>>) = 0
  /\ \A n \in Nat : Padding(n) \in Bytes /\ Len(Padding(n)) = n
  /\ \A n \in Nat : Length(n) \in Bytes /\ Len(Length(n)) = 1
  /\ \A n \in Nat : LET t == <<"version">> \o Length(n) IN t \in Bytes /\ Len(t) = 2
<1>1. ASSUME NEW n \in Nat
      PROVE  Padding(n) \in Bytes /\ Len(Padding(n)) = n
  <2>1. Padding(n) \in [1 .. n -> Symbol]
    <3>1. "80" \in Symbol /\ "00" \in Symbol
      BY Zenon DEF Symbol
    <3>. QED BY <3>1 DEF Padding
  <2>2. Padding(n) \in Seq(Symbol)
    BY <2>1, SeqDef
  <2>3. DOMAIN Padding(n) = 1 .. n /\ DOMAIN Padding(n) = 1 .. Len(Padding(n)) /\ Len(Padding(n)) \in Nat
    BY <2>1, <2>2, LenProperties
  <2>. QED BY <2>2, <2>3 DEF Bytes
<1>2. ASSUME NEW n \in Nat
      PROVE  Length(n) \in Bytes /\ Len(Length(n)) = 1
  <2>1. ToString(n) \in Symbol
    BY Zenon DEF Symbol
  <2>. QED BY <2>1 DEF Length, Bytes
<1>3. ASSUME NEW n \in Nat
      PROVE  <<"version">> \o Length(n) \in Bytes /\ Len(<<"version">> \o Length(n)) = 2
  <2>1. <<"version">> \in Seq(Symbol) /\ Len(<<"version">>) = 1
    <3>1. "version" \in Symbol
      BY Zenon DEF Symbol
    <3>. QED BY <3>1
  <2>2. Length(n) \in Seq(Symbol) /\ Len(Length(n)) = 1
    BY <1>2 DEF Bytes
  <2>3. /\ <<"version">> \o Length(n) \in Seq(Symbol)
        /\ Len(<<"version">> \o Length(n)) = Len(<<"version">>) + Len(Length(n))
    BY <2>1, <2>2, ConcatProperties
  <2>. QED BY <2>1, <2>2, <2>3 DEF Bytes
<1>4. <<>> \in Bytes /\ Len(<<>>) = 0
  BY EmptySeq DEF Bytes
<1>. QED BY <1>1, <1>2, <1>3, <1>4, Zenon

(* A context that was used for another text starts with none.               *)
LEMMA StartedKeeps ==
  ASSUME NEW c, IsContext(c), NEW U \in Nat \ {0}
  PROVE  IsContext(Started(c)) /\ Kept(Started(c), U, <<>>)
<1>. DEFINE d == Started(c)
<1>1. d = [count |-> 0, in |-> c.in, hashed |-> <<>>]
  BY DEF Started
<1>. HIDE DEF d
<1>2. c.in \in Bytes
  BY DEF IsContext
<1>3. d.count = 0 /\ d.in = c.in /\ d.hashed = <<>>
  BY <1>1
<1>4. IsContext(d)
  BY <1>1, <1>2, <1>3 DEF IsContext
<1>5. Cut(<<>>, U, <<>>, <<>>)
  <2>1. <<>> \o <<>> = <<>> /\ <<>> \in Bytes /\ Len(<<>>) = 0
    BY PiecesTyped, ConcatEmptySeq DEF Bytes
  <2>2. 0 % U = 0 /\ 0 < U
    OBVIOUS
  <2>. QED BY <2>1, <2>2 DEF Cut
<1>6. Len(<<>>) <= Len(d.in) /\ SubSeq(d.in, 1, Len(<<>>)) = <<>>
  <2>1. Len(<<>>) = 0 /\ Len(c.in) \in Nat
    BY <1>2, LenProperties, PiecesTyped DEF Bytes
  <2>2. SubSeq(c.in, 1, 0) = <<>>
    BY SubSeqEmpty
  <2>. QED BY <1>3, <2>1, <2>2
<1>7. Whole(<<>>, U) = <<>>
  BY PiecesTyped, WholeOf
<1>8. KeptAs(d, U, <<>>, <<>>, <<>>)
  BY <1>3, <1>5, <1>6, <1>7 DEF KeptAs
<1>9. Kept(d, U, <<>>)
  BY <1>3, <1>4, <1>8, PiecesTyped DEF Kept
<1>. QED BY <1>4, <1>9 DEF d

Fills(r, z, U) == U \in Nat \ {0} /\ z \in Bytes /\ Len(r) + Len(z) = U

(* A unit that a text's rest and what follows it fill.                      *)
LEMMA LastUnit ==
  ASSUME NEW text, NEW b, NEW r, NEW z, NEW U, Cut(text, U, b, r), Fills(r, z, U)
  PROVE  Whole(text \o z, U) = Append(Whole(b, U), r \o z)
<1>0. U \in Nat \ {0} /\ z \in Bytes /\ Len(r) + Len(z) = U
  BY DEF Fills
<1>1. b \in Bytes /\ r \in Bytes
  BY DEF Cut
<1>. DEFINE u == r \o z
            none == <<>>
<1>2. u \in Bytes /\ Len(u) = U
  <2>1. u \in Bytes /\ Len(u) = Len(r) + Len(z)
    BY <1>0, <1>1, ConcatProperties DEF Bytes
  <2>. QED BY <1>0, <2>1
<1>. HIDE DEF u
<1>3. Cut(u, U, u, none)
  <2>1. none \in Bytes /\ Len(none) = 0 /\ u \o none = u
    BY <1>2, EmptySeq, ConcatEmptySeq DEF Bytes
  <2>2. Len(u) % U = 0 /\ 0 < U
    BY <1>0, <1>2
  <2>. QED BY <1>2, <2>1, <2>2 DEF Cut
<1>. HIDE DEF none
<1>4. Cut(text \o z, U, b \o u, none) /\ Whole(b \o u, U) = Whole(b, U) \o Whole(u, U)
  <2>1. Cut(r \o z, U, u, none)
    BY <1>3 DEF u
  <2>. QED BY <1>0, <2>1, CutGrows
<1>5. Whole(text \o z, U) = Whole(b \o u, U)
  <2>. DEFINE tz == text \o z
              bu == b \o u
  <2>1. Cut(tz, U, bu, none)
    BY <1>4
  <2>. HIDE DEF tz, bu
  <2>2. Whole(tz, U) = Whole(bu, U)
    BY <1>0, <2>1, CutFacts
  <2>. QED BY <2>2 DEF tz, bu
<1>6. Whole(u, U) = <<u>>
  BY <1>0, <1>2, WholeOf
<1>7. Whole(b, U) \o <<u>> = Append(Whole(b, U), u)
  <2>1. Whole(b, U) \in Seq(Bytes)
    BY <1>0, <1>1, WholeOf
  <2>. QED BY <1>2, <2>1, AppendIsConcat
<1>. QED BY <1>4, <1>5, <1>6, <1>7 DEF u, none

(* The padding of a text is the only one there is.                          *)
LEMMA PaddedIs ==
  ASSUME NEW U \in Nat \ {0}, NEW text \in Bytes, NEW trailer \in Bytes, NEW p \in 1 .. U,
         (Len(text) + p + Len(trailer)) % U = 0
  PROVE  Padded(text, U, trailer) = Whole((text \o Padding(p)) \o trailer, U)
<1>1. Len(text) \in Nat /\ Len(trailer) \in Nat
  BY LenProperties DEF Bytes
<1>2. ASSUME NEW n \in 1 .. U, (Len(text) + n + Len(trailer)) % U = 0
      PROVE  n = p
  <2>. DEFINE a == Len(text) + n + Len(trailer)
              e == Len(text) + p + Len(trailer)
  <2>1. a \in Nat /\ e \in Nat /\ a - e = n - p
    BY <1>1
  <2>2. a % U = 0 /\ e % U = 0
    BY <1>2
  <2>. HIDE DEF a, e
  <2>3. PICK i \in Nat : a = i * U
    <3>1. PICK q \in Nat, k \in 0 .. U - 1 : a \div U = q /\ a % U = k /\ a = q * U + k
      BY <2>1, DivMod
    <3>2. a = q * U
      BY <2>2, <3>1, MulMono
    <3>. QED BY <3>2
  <2>4. PICK j \in Nat : e = j * U
    <3>1. PICK q \in Nat, k \in 0 .. U - 1 : e \div U = q /\ e % U = k /\ e = q * U + k
      BY <2>1, DivMod
    <3>2. e = q * U
      BY <2>2, <3>1, MulMono
    <3>. QED BY <3>2
  <2>5. ASSUME NEW x \in Nat, NEW y \in Nat, x < y
        PROVE  y * U >= x * U + U
    <3>1. (x + 1) * U <= y * U
      BY <2>5, MulMono
    <3>2. (x + 1) * U = x * U + U
      OBVIOUS
    <3>. QED BY <3>1, <3>2
  <2>6. ~(i < j)
    <3>1. SUFFICES ASSUME i < j PROVE FALSE
      OBVIOUS
    <3>2. e >= a + U
      BY <2>3, <2>4, <2>5, <3>1
    <3>. QED BY <2>1, <3>2
  <2>7. ~(j < i)
    <3>1. SUFFICES ASSUME j < i PROVE FALSE
      OBVIOUS
    <3>2. a >= e + U
      BY <2>3, <2>4, <2>5, <3>1
    <3>. QED BY <2>1, <3>2
  <2>8. i = j
    BY <2>6, <2>7
  <2>. QED BY <2>1, <2>3, <2>4, <2>8
<1>3. p = CHOOSE n \in 1 .. U : (Len(text) + n + Len(trailer)) % U = 0
  BY <1>2, Zenon
<1>. QED BY <1>3, Zenon DEF Padded, Whole

(* What the hash functions give in the end is the padded text.              *)
LEMMA MD5FinalDigests ==
  ASSUME NEW c, NEW text \in Bytes, Kept(c, UnitSize, text)
  PROVE  IsContext(MD5Final(c)) /\ MD5Final(c).hashed = Padded(text, UnitSize, Length(Len(text)))
<1>. DEFINE U   == UnitSize
            mdi == c.count % U
            p   == (IF mdi < U - 1 THEN U - 1 ELSE U + (U - 1)) - mdi
            pad == Padding(p)
            e   == MD5Update(c, pad)
            l   == Length(c.count)
            d   == MD5Final(c)
<1>1. U \in Nat \ {0} /\ U > 1
  BY SignaturesAssumption
<1>2. c.count = Len(text) /\ c.count \in Nat
  BY DEF Kept, IsContext
<1>3. d = [e EXCEPT !.hashed = Append(@, SubSeq(e.in, 1, U - 1) \o l)]
  BY Zenon DEF MD5Final
<1>4. p \in 1 .. U /\ (Len(text) + p) % U = U - 1 /\ (Len(text) + p + 1) % U = 0
  <2>1. mdi = Len(text) % U
    BY <1>2
  <2>2. Len(text) \in Nat /\ mdi \in Nat
    BY <1>1, <1>2
  <2>. HIDE DEF U, mdi
  <2>3. p = Filling(mdi, U, 1)
    BY <1>1, <2>2 DEF Filling
  <2>. HIDE DEF p
  <2>4. U \in Nat \ {0} /\ 1 \in Nat /\ 1 > 0 /\ 1 < U
    BY <1>1
  <2>5. p = Filling(Len(text) % U, U, 1)
    BY <2>1, <2>3
  <2>. QED BY <2>2, <2>4, <2>5, FillingFills
<1>. HIDE DEF p
<1>5. pad \in Bytes /\ Len(pad) = p /\ l \in Bytes /\ Len(l) = 1
  BY <1>2, <1>4, PiecesTyped
<1>6. Kept(e, U, text \o pad)
  BY <1>5, MD5UpdateKeeps
<1>. HIDE DEF U, mdi, pad, e, l, d
<1>7. PICK b, r : KeptAs(e, U, text \o pad, b, r)
  BY <1>6 DEF Kept
<1>8. Cut(text \o pad, U, b, r)
  BY <1>7 DEF KeptAs
<1>9. SubSeq(e.in, 1, Len(r)) = r /\ e.hashed = Whole(b, U)
  BY <1>7 DEF KeptAs
<1>10. text \o pad \in Bytes /\ Len(text \o pad) = Len(text) + p
  BY <1>5, ConcatProperties DEF Bytes
<1>11. Len(r) = U - 1
  <2>. DEFINE tp == text \o pad
  <2>2. U \in Nat \ {0} /\ Cut(tp, U, b, r)
    BY <1>1, <1>8
  <2>. HIDE DEF tp
  <2>3. Len(tp) % U = Len(r)
    BY <2>2, CutFacts
  <2>1. Len(text \o pad) % U = Len(r)
    BY <2>3 DEF tp
  <2>. QED BY <1>4, <1>10, <2>1
<1>12. Whole((text \o pad) \o l, U) = Append(Whole(b, U), r \o l)
  <2>. DEFINE tp == text \o pad
  <2>1. Fills(r, l, U)
    BY <1>1, <1>5, <1>11 DEF Fills
  <2>3. Cut(tp, U, b, r)
    BY <1>8
  <2>. HIDE DEF tp
  <2>4. Whole(tp \o l, U) = Append(Whole(b, U), r \o l)
    BY <2>1, <2>3, LastUnit
  <2>. QED BY <2>4 DEF tp
<1>13. Padded(text, U, l) = Whole((text \o pad) \o l, U)
  <2>1. (Len(text) + p + Len(l)) % U = 0
    BY <1>4, <1>5
  <2>. QED BY <1>1, <1>4, <1>5, <2>1, PaddedIs DEF pad
<1>14. IsContext(e)
  BY <1>6 DEF Kept
<1>15. /\ d = [count |-> e.count, in |-> e.in, hashed |-> Append(e.hashed, SubSeq(e.in, 1, U - 1) \o l)]
  <2>1. e = [count |-> e.count, in |-> e.in, hashed |-> e.hashed]
    BY <1>14 DEF IsContext
  <2>. QED BY <1>3, <2>1
<1>16. d.hashed = Append(e.hashed, r \o l)
  BY <1>9, <1>11, <1>15
<1>18. IsContext(d)
  BY <1>14, <1>15 DEF IsContext
<1>19. d.hashed = Padded(text, U, Length(Len(text)))
  BY <1>2, <1>9, <1>12, <1>13, <1>16 DEF l
<1>. QED BY <1>18, <1>19 DEF d, U

LEMMA haval_endDigests ==
  ASSUME NEW c, NEW text \in Bytes, Kept(c, HavalUnitSize, text)
  PROVE  /\ IsContext(haval_end(c))
         /\ haval_end(c).hashed = Padded(text, HavalUnitSize, <<"version">> \o Length(Len(text)))
<1>. DEFINE U    == HavalUnitSize
            rmd  == c.count % U
            p    == (IF rmd < U - 2 THEN U - 2 ELSE U + (U - 2)) - rmd
            pad  == Padding(p)
            e    == haval_hash(c, pad)
            tail == <<"version">> \o Length(c.count)
            f    == haval_hash(e, tail)
            d    == haval_end(c)
<1>1. U \in Nat \ {0} /\ U > 2
  BY SignaturesAssumption
<1>2. c.count = Len(text) /\ c.count \in Nat
  BY DEF Kept, IsContext
<1>3. d = [Fresh EXCEPT !.hashed = f.hashed]
  BY Zenon DEF haval_end
<1>4. p \in 1 .. U /\ (Len(text) + p + 2) % U = 0
  <2>1. rmd = Len(text) % U
    BY <1>2
  <2>2. Len(text) \in Nat /\ rmd \in Nat
    BY <1>1, <1>2
  <2>. HIDE DEF U, rmd
  <2>3. p = Filling(rmd, U, 2)
    BY <1>1, <2>2 DEF Filling
  <2>. HIDE DEF p
  <2>. QED BY <1>1, <2>1, <2>2, <2>3, FillingFills
<1>. HIDE DEF p
<1>5. pad \in Bytes /\ Len(pad) = p /\ tail \in Bytes /\ Len(tail) = 2
  BY <1>2, <1>4, PiecesTyped
<1>6. Kept(e, U, text \o pad)
  BY <1>5, haval_hashKeeps
<1>7. Kept(f, U, (text \o pad) \o tail)
  BY <1>5, <1>6, haval_hashKeeps
<1>. HIDE DEF U, rmd, pad, e, f, d, tail
<1>8. Len((text \o pad) \o tail) = Len(text) + p + 2
  <2>1. text \o pad \in Bytes /\ Len(text \o pad) = Len(text) + p
    BY <1>5, ConcatProperties DEF Bytes
  <2>. DEFINE tp == text \o pad
  <2>2. tp \in Seq(Symbol) /\ Len(tp) = Len(text) + p /\ tail \in Seq(Symbol)
    BY <1>5, <2>1 DEF Bytes
  <2>. HIDE DEF tp
  <2>3. Len(tp \o tail) = Len(tp) + Len(tail)
    BY <2>2, ConcatProperties
  <2>4. Len(tp \o tail) = Len(text) + p + 2
    BY <1>2, <1>4, <1>5, <2>2, <2>3
  <2>. QED BY <2>4 DEF tp
<1>9. f.hashed = Whole((text \o pad) \o tail, U)
  <2>1. PICK b, r : KeptAs(f, U, (text \o pad) \o tail, b, r)
    BY <1>7 DEF Kept
  <2>2. Cut((text \o pad) \o tail, U, b, r)
    BY <2>1 DEF KeptAs
  <2>3. b = (text \o pad) \o tail
    <3>1. Len((text \o pad) \o tail) % U = 0
      BY <1>4, <1>8
    <3>. QED BY <1>1, <2>2, <3>1, NoRest
  <2>. QED BY <2>1, <2>3 DEF KeptAs
<1>10. Padded(text, U, tail) = Whole((text \o pad) \o tail, U)
  BY <1>1, <1>4, <1>5, PaddedIs DEF pad
<1>11. d = [count |-> 0, in |-> <<>>, hashed |-> f.hashed]
  BY <1>3 DEF Fresh
<1>12. IsContext(d)
  BY <1>11, PiecesTyped DEF IsContext
<1>13. d.hashed = Padded(text, U, <<"version">> \o Length(Len(text)))
  BY <1>2, <1>9, <1>10, <1>11 DEF tail
<1>. QED BY <1>12, <1>13 DEF d, U

Zeros(n) == [i \in 1 .. n |-> "00"]

(* The padding is a bit and zeros, in as many parts as one likes.           *)
LEMMA ZerosFacts ==
  /\ \A n \in Nat : Zeros(n) \in Bytes /\ Len(Zeros(n)) = n
  /\ \A n \in Nat : Padding(1) \o Zeros(n) = Padding(n + 1)
  /\ \A n \in Nat : Zeros(n) \o Zeros(1) = Zeros(n + 1)
<1>1. ASSUME NEW n \in Nat
      PROVE  Zeros(n) \in Bytes /\ Len(Zeros(n)) = n /\ \A i \in 1 .. n : Zeros(n)[i] = "00"
  <2>1. Zeros(n) \in [1 .. n -> Symbol]
    <3>1. "00" \in Symbol
      BY Zenon DEF Symbol
    <3>. QED BY <3>1 DEF Zeros
  <2>2. Zeros(n) \in Seq(Symbol)
    BY <2>1, SeqDef
  <2>3. DOMAIN Zeros(n) = 1 .. n /\ DOMAIN Zeros(n) = 1 .. Len(Zeros(n)) /\ Len(Zeros(n)) \in Nat
    BY <2>1, <2>2, LenProperties
  <2>4. \A i \in 1 .. n : Zeros(n)[i] = "00"
    BY DEF Zeros
  <2>. QED BY <2>2, <2>3, <2>4 DEF Bytes
<1>2. ASSUME NEW n \in Nat
      PROVE  /\ Padding(n) \in Bytes /\ Len(Padding(n)) = n
             /\ \A i \in 1 .. n : Padding(n)[i] = IF i = 1 THEN "80" ELSE "00"
  <2>1. \A i \in 1 .. n : Padding(n)[i] = IF i = 1 THEN "80" ELSE "00"
    BY DEF Padding
  <2>. QED BY <2>1, PiecesTyped
<1>3. ASSUME NEW n \in Nat
      PROVE  Padding(1) \o Zeros(n) = Padding(n + 1)
  <2>. DEFINE s == Padding(1)
              t == Zeros(n)
              u == Padding(n + 1)
  <2>1. s \in Seq(Symbol) /\ Len(s) = 1 /\ s[1] = "80"
    <3>1. 1 \in Nat /\ 1 \in 1 .. 1
      OBVIOUS
    <3>2. s \in Bytes /\ Len(s) = 1 /\ s[1] = IF 1 = 1 THEN "80" ELSE "00"
      BY <1>2, <3>1, Zenon
    <3>. QED BY <3>2 DEF Bytes
  <2>2. t \in Seq(Symbol) /\ Len(t) = n /\ \A i \in 1 .. n : t[i] = "00"
    BY <1>1 DEF Bytes
  <2>3. u \in Seq(Symbol) /\ Len(u) = n + 1 /\ \A i \in 1 .. n + 1 : u[i] = IF i = 1 THEN "80" ELSE "00"
    <3>1. n + 1 \in Nat
      OBVIOUS
    <3>. QED BY <1>2, <3>1 DEF Bytes
  <2>. HIDE DEF s, t, u
  <2>4. s \o t \in Seq(Symbol) /\ Len(s \o t) = n + 1
        /\ \A i \in 1 .. n + 1 : (s \o t)[i] = IF i <= 1 THEN s[i] ELSE t[i - 1]
    <3>1. /\ s \o t \in Seq(Symbol) /\ Len(s \o t) = Len(s) + Len(t)
          /\ \A i \in 1 .. Len(s) + Len(t) : (s \o t)[i] = IF i <= Len(s) THEN s[i] ELSE t[i - Len(s)]
      BY <2>1, <2>2, ConcatProperties
    <3>2. Len(s) + Len(t) = n + 1 /\ Len(s) = 1
      BY <2>1, <2>2
    <3>. QED BY <3>1, <3>2
  <2>5. \A i \in 1 .. n + 1 : (s \o t)[i] = u[i]
    <3>1. TAKE i \in 1 .. n + 1
    <3>2. CASE i = 1
      BY <2>1, <2>3, <2>4, <3>2
    <3>3. CASE i # 1
      <4>1. i - 1 \in 1 .. n /\ ~(i <= 1)
        BY <3>3
      <4>. QED BY <2>2, <2>3, <2>4, <3>3, <4>1
    <3>. QED BY <3>2, <3>3
  <2>6. s \o t = u
    BY <2>3, <2>4, <2>5, SeqEqual
  <2>. QED BY <2>6 DEF s, t, u
<1>4. ASSUME NEW n \in Nat
      PROVE  Zeros(n) \o Zeros(1) = Zeros(n + 1)
  <2>. DEFINE s == Zeros(n)
              t == Zeros(1)
              u == Zeros(n + 1)
  <2>1. s \in Seq(Symbol) /\ Len(s) = n /\ \A i \in 1 .. n : s[i] = "00"
    BY <1>1 DEF Bytes
  <2>2. t \in Seq(Symbol) /\ Len(t) = 1 /\ t[1] = "00"
    <3>1. 1 \in Nat /\ 1 \in 1 .. 1
      OBVIOUS
    <3>2. t \in Bytes /\ Len(t) = 1 /\ t[1] = "00"
      BY <1>1, <3>1, Zenon
    <3>. QED BY <3>2 DEF Bytes
  <2>3. u \in Seq(Symbol) /\ Len(u) = n + 1 /\ \A i \in 1 .. n + 1 : u[i] = "00"
    <3>1. n + 1 \in Nat
      OBVIOUS
    <3>. QED BY <1>1, <3>1 DEF Bytes
  <2>. HIDE DEF s, t, u
  <2>4. s \o t \in Seq(Symbol) /\ Len(s \o t) = n + 1
        /\ \A i \in 1 .. n + 1 : (s \o t)[i] = IF i <= n THEN s[i] ELSE t[i - n]
    <3>1. /\ s \o t \in Seq(Symbol) /\ Len(s \o t) = Len(s) + Len(t)
          /\ \A i \in 1 .. Len(s) + Len(t) : (s \o t)[i] = IF i <= Len(s) THEN s[i] ELSE t[i - Len(s)]
      BY <2>1, <2>2, ConcatProperties
    <3>2. Len(s) + Len(t) = n + 1 /\ Len(s) = n
      BY <2>1, <2>2
    <3>. QED BY <3>1, <3>2
  <2>5. \A i \in 1 .. n + 1 : (s \o t)[i] = u[i]
    <3>1. TAKE i \in 1 .. n + 1
    <3>2. CASE i <= n
      BY <2>1, <2>3, <2>4, <3>2
    <3>3. CASE ~(i <= n)
      <4>1. i - n = 1
        BY <3>3
      <4>. QED BY <2>2, <2>3, <2>4, <3>3, <4>1
    <3>. QED BY <3>2, <3>3
  <2>6. s \o t = u
    BY <2>3, <2>4, <2>5, SeqEqual
  <2>. QED BY <2>6 DEF s, t, u
<1>. QED BY <1>1, <1>3, <1>4, Zenon

LEMMA WholeCut ==
  ASSUME NEW s \in Bytes, NEW U \in Nat \ {0}, Len(s) % U = 0
  PROVE  Cut(s, U, s, <<>>)
<1>1. <<>> \in Bytes /\ Len(<<>>) = 0 /\ s \o <<>> = s
  BY PiecesTyped, ConcatEmptySeq DEF Bytes
<1>2. 0 < U
  OBVIOUS
<1>. QED BY <1>1, <1>2 DEF Cut

LEMMA shsFinalDigests ==
  ASSUME NEW c, NEW text \in Bytes, Kept(c, UnitSize, text)
  PROVE  IsContext(shsFinal(c)) /\ shsFinal(c).hashed = Padded(text, UnitSize, Length(Len(text)))
<1>. DEFINE U    == UnitSize
            l    == Length(c.count)
            one  == Padding(1)
            in   == SubSeq(c.in, 1, c.count % U) \o one
            full == in \o Zeros(U - Len(in))
            last == IF Len(in) > U - 1 THEN <<full, Zeros(U - 1) \o l>> ELSE <<SubSeq(full, 1, U - 1) \o l>>
            d    == shsFinal(c)
<1>1. U \in Nat \ {0} /\ U > 1
  BY SignaturesAssumption
<1>2. c.count = Len(text) /\ IsContext(c) /\ c.count \in Nat
  BY DEF Kept, IsContext
<1>3. d = [c EXCEPT !.hashed = @ \o last]
  BY Zenon DEF shsFinal, Zeros
<1>. HIDE DEF d, last
<1>4. c = [count |-> c.count, in |-> c.in, hashed |-> c.hashed]
  BY <1>2 DEF IsContext
<1>5. d = [count |-> c.count, in |-> c.in, hashed |-> c.hashed \o last]
  BY <1>3, <1>4
<1>6. IsContext(d)
  BY <1>2, <1>5 DEF IsContext
<1>7. PICK b, r : KeptAs(c, U, text, b, r)
  BY DEF Kept
<1>. HIDE DEF U
<1>8. Cut(text, U, b, r)
  BY <1>7 DEF KeptAs
<1>9. SubSeq(c.in, 1, Len(r)) = r /\ c.hashed = Whole(b, U)
  BY <1>7 DEF KeptAs
<1>10. Len(text) % U = Len(r) /\ Len(r) \in 0 .. U - 1
  <2>1. U \in Nat \ {0}
    BY <1>1
  <2>. QED BY <1>8, <2>1, CutFacts
<1>11. in = r \o one
  BY <1>2, <1>9, <1>10
<1>12. b \in Bytes /\ r \in Bytes
  BY <1>8 DEF Cut
<1>13. one \in Bytes /\ Len(one) = 1 /\ l \in Bytes /\ Len(l) = 1
  BY <1>2, PiecesTyped
<1>. HIDE DEF in, one, l
<1>14. in \in Bytes /\ Len(in) = Len(r) + 1
  BY <1>11, <1>12, <1>13, Joined
<1>15. Whole(b, U) \in Seq(Bytes)
  BY <1>1, <1>12, WholeOf
<1>. DEFINE p == Filling(Len(r), U, 1)
            pad == Padding(p)
<1>16. p \in 1 .. U /\ (Len(text) + p + Len(l)) % U = 0
  <2>1. U \in Nat \ {0} /\ 1 \in Nat /\ 1 > 0 /\ 1 < U /\ Len(text) \in Nat
    BY <1>1, <1>2
  <2>. DEFINE q == Filling(Len(text) % U, U, 1)
  <2>2. q \in 1 .. U /\ (Len(text) + q + 1) % U = 0
    BY <2>1, FillingFills
  <2>3. p = q
    BY <1>10
  <2>. HIDE DEF p, q
  <2>. QED BY <1>13, <2>2, <2>3
<1>17. p = IF Len(r) < U - 1 THEN (U - 1) - Len(r) ELSE U
  BY <1>1, <1>10 DEF Filling
<1>. HIDE DEF p
<1>18. pad \in Bytes /\ Len(pad) = p
  BY <1>16, PiecesTyped
<1>19. Padded(text, U, l) = Whole((text \o pad) \o l, U)
  BY <1>1, <1>13, <1>16, PaddedIs
<1>. HIDE DEF pad
<1>20. CASE Len(r) < U - 1
  <2>. DEFINE k == (U - 2) - Len(r)
  <2>1. k \in Nat /\ p = k + 1 /\ U - Len(in) = k + 1 /\ ~(Len(in) > U - 1) /\ Len(in) + k = U - 1
    BY <1>1, <1>10, <1>14, <1>17, <1>20
  <2>. HIDE DEF k
  <2>2. pad = one \o Zeros(k) /\ full = in \o (Zeros(k) \o Zeros(1)) /\ Zeros(k) \in Bytes /\ Len(Zeros(k)) = k
        /\ Zeros(1) \in Bytes
    BY <2>1, ZerosFacts DEF pad, one
  <2>3. in \o Zeros(k) \in Bytes /\ Len(in \o Zeros(k)) = U - 1
    BY <1>14, <2>1, <2>2, Joined
  <2>4. SubSeq(full, 1, U - 1) = in \o Zeros(k)
    <3>. DEFINE s == in \o Zeros(k)
                z1 == Zeros(1)
    <3>1. full = s \o z1
      BY <1>14, <2>2, Regroup
    <3>2. s \in Bytes /\ z1 \in Bytes /\ Len(s) = U - 1
      BY <2>2, <2>3
    <3>. HIDE DEF s, z1
    <3>3. SubSeq(s \o z1, 1, Len(s)) = s
      BY <3>2, PartsOfConcat
    <3>. QED BY <3>1, <3>2, <3>3 DEF s
  <2>5. in \o Zeros(k) = r \o pad
    BY <1>11, <1>12, <1>13, <2>2, Regroup
  <2>6. last = <<(r \o pad) \o l>>
    BY <2>1, <2>4, <2>5 DEF last
  <2>7. Fills(r, pad \o l, U)
    <3>1. pad \o l \in Bytes /\ Len(pad \o l) = Len(pad) + Len(l)
      BY <1>13, <1>18, Joined
    <3>. QED BY <1>1, <1>10, <1>13, <1>17, <1>18, <1>20, <3>1 DEF Fills
  <2>8. Whole(text \o (pad \o l), U) = Append(Whole(b, U), r \o (pad \o l))
    <3>. DEFINE z == pad \o l
    <3>1. Fills(r, z, U)
      BY <2>7
    <3>. HIDE DEF z
    <3>2. Whole(text \o z, U) = Append(Whole(b, U), r \o z)
      BY <1>8, <3>1, LastUnit
    <3>. QED BY <3>2 DEF z
  <2>9. (text \o pad) \o l = text \o (pad \o l) /\ (r \o pad) \o l = r \o (pad \o l)
    <3>1. (text \o pad) \o l = text \o (pad \o l)
      BY <1>13, <1>18, Regroup
    <3>2. r \in Bytes /\ pad \in Bytes /\ l \in Bytes
      BY <1>12, <1>13, <1>18
    <3>3. (r \o pad) \o l = r \o (pad \o l)
      BY <3>2, Regroup, SMTT(30)
    <3>. QED BY <3>1, <3>3
  <2>10. Whole(b, U) \o <<(r \o pad) \o l>> = Append(Whole(b, U), (r \o pad) \o l)
    <3>1. (r \o pad) \o l \in Bytes
      BY <1>12, <1>13, <1>18, Joined
    <3>. QED BY <1>15, <3>1, AppendIsConcat
  <2>11. d.hashed = Whole(b, U) \o <<(r \o pad) \o l>>
    BY <1>5, <1>9, <2>6
  <2>12. d.hashed = Padded(text, U, l)
    BY <1>19, <2>8, <2>9, <2>10, <2>11
  <2>. QED BY <1>2, <1>6, <2>12 DEF d, U, l
<1>21. CASE ~(Len(r) < U - 1)
  <2>. DEFINE z == Zeros(U - 1)
  <2>1. /\ Len(r) = U - 1 /\ p = U /\ Len(in) = U /\ Len(in) > U - 1
        /\ U - Len(in) = 0 /\ U - 1 \in Nat /\ p = (U - 1) + 1
    BY <1>1, <1>10, <1>14, <1>17, <1>21
  <2>2. z \in Bytes /\ Len(z) = U - 1 /\ pad = one \o z
    BY <2>1, ZerosFacts DEF pad, one
  <2>. HIDE DEF z
  <2>3. full = in
    <3>1. Zeros(0) = <<>>
      BY ZerosFacts, EmptySeq DEF Bytes
    <3>. QED BY <1>14, <2>1, <3>1, ConcatEmptySeq DEF Bytes
  <2>4. last = <<in, z \o l>>
    BY <2>1, <2>3 DEF last, z
  <2>5. Whole(text \o one, U) = Append(Whole(b, U), in)
    <3>1. Fills(r, one, U)
      BY <1>1, <1>13, <2>1 DEF Fills
    <3>2. Whole(text \o one, U) = Append(Whole(b, U), r \o one)
      BY <1>8, <3>1, LastUnit
    <3>. QED BY <1>11, <3>2
  <2>6. text \o one \in Bytes /\ Len(text \o one) = Len(text) + 1
    BY <1>13, Joined
  <2>7. Len(text \o one) % U = 0
    <3>1. Len(text) % U = U - 1 /\ Len(text) \in Nat
      BY <1>2, <1>10, <2>1
    <3>2. (Len(text) + 1) % U = 0
      BY <1>1, <3>1, NextUnit
    <3>. QED BY <2>6, <3>2
  <2>8. z \o l \in Bytes /\ Len(z \o l) = U
    <3>1. z \o l \in Bytes /\ Len(z \o l) = Len(z) + Len(l)
      BY <1>13, <2>2, Joined
    <3>. QED BY <1>1, <1>13, <2>2, <3>1
  <2>9. Whole((text \o one) \o (z \o l), U) = Append(Whole(text \o one, U), z \o l)
    <3>. DEFINE t == text \o one
                y == z \o l
                none == <<>>
    <3>1. Cut(t, U, t, none)
      BY <1>1, <2>6, <2>7, WholeCut
    <3>2. Fills(none, y, U)
      BY <1>1, <2>8, PiecesTyped DEF Fills
    <3>3. none \o y = y
      BY <2>8, ConcatEmptySeq DEF Bytes
    <3>. HIDE DEF t, y, none
    <3>4. Whole(t \o y, U) = Append(Whole(t, U), none \o y)
      BY <3>1, <3>2, LastUnit
    <3>. QED BY <3>3, <3>4 DEF t, y
  <2>10. (text \o pad) \o l = (text \o one) \o (z \o l)
    <3>1. text \o (one \o z) = (text \o one) \o z
      BY <1>13, <2>2, Regroup
    <3>2. ((text \o one) \o z) \o l = (text \o one) \o (z \o l)
      <4>. DEFINE t == text \o one
      <4>1. t \in Bytes
        BY <2>6
      <4>. HIDE DEF t
      <4>2. (t \o z) \o l = t \o (z \o l)
        BY <1>13, <2>2, <4>1, Regroup
      <4>. QED BY <4>2 DEF t
    <3>. QED BY <2>2, <3>1, <3>2
  <2>11. Whole(b, U) \o <<in, z \o l>> = Append(Append(Whole(b, U), in), z \o l)
    <3>. DEFINE w == Whole(b, U)
                y == z \o l
    <3>1. w \in Seq(Bytes) /\ in \in Bytes /\ y \in Bytes
      BY <1>14, <1>15, <2>8
    <3>. HIDE DEF w, y
    <3>2. <<in>> \in Seq(Bytes) /\ <<y>> \in Seq(Bytes) /\ <<in, y>> = <<in>> \o <<y>>
      BY <3>1
    <3>3. w \o (<<in>> \o <<y>>) = (w \o <<in>>) \o <<y>>
      BY <3>1, <3>2, ConcatAssociative
    <3>4. w \o <<in>> = Append(w, in)
      BY <3>1, AppendIsConcat
    <3>5. Append(w, in) \in Seq(Bytes)
      BY <3>1, AppendProperties
    <3>6. Append(w, in) \o <<y>> = Append(Append(w, in), y)
      BY <3>1, <3>5, AppendIsConcat
    <3>. QED BY <3>2, <3>3, <3>4, <3>6 DEF w, y
  <2>12. d.hashed = Whole(b, U) \o <<in, z \o l>>
    BY <1>5, <1>9, <2>4
  <2>13. d.hashed = Padded(text, U, l)
    BY <1>19, <2>5, <2>9, <2>10, <2>11, <2>12
  <2>. QED BY <1>2, <1>6, <2>13 DEF d, U, l
<1>. QED BY <1>20, <1>21

-----------------------------------------------------------------------------
(* A signature that has been given a text.                                  *)
Follows(a, c, text) ==
  /\ IsContext(c)
  /\ a = "CRC32" => c.count = Len(text) /\ c.hashed = text
  /\ a \in {"MD5", "SHA"} => Kept(c, UnitSize, text)
  /\ a = "HAVAL" => Kept(c, HavalUnitSize, text)

LEMMA KeptIsContext ==
  ASSUME NEW c, NEW U, NEW text, Kept(c, U, text)
  PROVE  IsContext(c)
BY DEF Kept

LEMMA StartFollows ==
  ASSUME NEW a \in Algorithms, NEW c, IsContext(c)
  PROVE  Follows(a, Started(c), <<>>)
<1>1. IsContext(Started(c)) /\ Kept(Started(c), UnitSize, <<>>) /\ Kept(Started(c), HavalUnitSize, <<>>)
  BY StartedKeeps, SignaturesAssumption
<1>2. Started(c).count = 0 /\ Started(c).hashed = <<>>
  BY DEF Started
<1>. QED BY <1>1, <1>2, PiecesTyped DEF Follows

(* Only the last piece of a text may end within a unit.                     *)
LEMMA UpdateFollows ==
  ASSUME NEW a \in Algorithms, NEW c, NEW text \in Bytes, Follows(a, c, text),
         Len(text) % UnitSize = 0, NEW bytes \in Bytes
  PROVE  Follows(a, Update(a, c, bytes), text \o bytes)
<1>1. CASE a = "CRC32"
  <2>. DEFINE d == crcUpdate(c, bytes)
  <2>1. d = [count |-> c.count + Len(bytes), in |-> c.in, hashed |-> c.hashed \o bytes]
    BY DEF crcUpdate
  <2>. HIDE DEF d
  <2>2. IsContext(c) /\ c.count = Len(text) /\ c.hashed = text
    BY <1>1 DEF Follows
  <2>3. d.count = Len(text \o bytes) /\ d.hashed = text \o bytes /\ d.in = c.in
    <3>1. Len(text \o bytes) = Len(text) + Len(bytes)
      BY Joined
    <3>2. d.count = c.count + Len(bytes) /\ d.in = c.in /\ d.hashed = c.hashed \o bytes
      BY <2>1
    <3>. QED BY <2>2, <3>1, <3>2
  <2>4. d.count \in Nat
    BY <2>3, Joined
  <2>5. IsContext(d)
    BY <2>1, <2>2, <2>3, <2>4 DEF IsContext
  <2>6. Update(a, c, bytes) = d
    BY <1>1 DEF Update, d
  <2>. QED BY <1>1, <2>3, <2>5, <2>6 DEF Follows
<1>2. CASE a = "MD5"
  <2>1. Kept(MD5Update(c, bytes), UnitSize, text \o bytes)
    BY <1>2, MD5UpdateKeeps DEF Follows
  <2>2. Update(a, c, bytes) = MD5Update(c, bytes)
    BY <1>2 DEF Update
  <2>. QED BY <1>2, <2>1, <2>2, KeptIsContext DEF Follows
<1>3. CASE a = "SHA"
  <2>1. Kept(shsUpdate(c, bytes), UnitSize, text \o bytes)
    BY <1>3, shsUpdateKeeps DEF Follows
  <2>2. Update(a, c, bytes) = shsUpdate(c, bytes)
    BY <1>3 DEF Update
  <2>. QED BY <1>3, <2>1, <2>2, KeptIsContext DEF Follows
<1>4. CASE a = "HAVAL"
  <2>1. Kept(haval_hash(c, bytes), HavalUnitSize, text \o bytes)
    BY <1>4, haval_hashKeeps DEF Follows
  <2>2. Update(a, c, bytes) = haval_hash(c, bytes)
    BY <1>4 DEF Update
  <2>. QED BY <1>4, <2>1, <2>2, KeptIsContext DEF Follows
<1>. QED BY <1>1, <1>2, <1>3, <1>4 DEF Algorithms

LEMMA FinitDigests ==
  ASSUME NEW a \in Algorithms, NEW c, NEW text \in Bytes, Follows(a, c, text)
  PROVE  IsContext(Finit(a, c)) /\ Finit(a, c).hashed = DigestOf(a, text)
<1>1. CASE a = "CRC32"
  <2>1. IsContext(c) /\ c.count = Len(text) /\ c.hashed = text
    BY <1>1 DEF Follows
  <2>2. c = [count |-> c.count, in |-> c.in, hashed |-> c.hashed] /\ c.count \in Nat /\ c.in \in Bytes
    BY <2>1 DEF IsContext
  <2>3. c.count = 0 <=> text = <<>>
    BY <2>1, EmptySeq DEF Bytes
  <2>4. DigestOf(a, text) = text \o IF text = <<>> THEN <<>> ELSE Length(Len(text))
    BY <1>1 DEF DigestOf
  <2>5. Finit(a, c) = crcFinit(c)
    BY <1>1 DEF Finit
  <2>6. CASE text = <<>>
    <3>1. Finit(a, c) = c
      BY <2>3, <2>5, <2>6 DEF crcFinit
    <3>2. DigestOf(a, text) = text
      BY <2>4, <2>6, ConcatEmptySeq DEF Bytes
    <3>. QED BY <2>1, <3>1, <3>2
  <2>7. CASE text # <<>>
    <3>1. Finit(a, c) = [c EXCEPT !.hashed = @ \o Length(c.count)]
      BY <2>3, <2>5, <2>7 DEF crcFinit
    <3>. DEFINE d == Finit(a, c)
    <3>2. d = [count |-> c.count, in |-> c.in, hashed |-> c.hashed \o Length(c.count)]
      BY <2>2, <3>1
    <3>. HIDE DEF d
    <3>3. IsContext(d) /\ d.hashed = text \o Length(Len(text))
      BY <2>1, <2>2, <3>2 DEF IsContext
    <3>. QED BY <2>4, <2>7, <3>3 DEF d
  <2>. QED BY <2>6, <2>7
<1>2. CASE a = "MD5"
  <2>1. IsContext(MD5Final(c)) /\ MD5Final(c).hashed = Padded(text, UnitSize, Length(Len(text)))
    BY <1>2, MD5FinalDigests DEF Follows
  <2>2. Finit(a, c) = MD5Final(c) /\ DigestOf(a, text) = Padded(text, UnitSize, Length(Len(text)))
    BY <1>2 DEF Finit, DigestOf
  <2>. QED BY <2>1, <2>2
<1>3. CASE a = "SHA"
  <2>1. IsContext(shsFinal(c)) /\ shsFinal(c).hashed = Padded(text, UnitSize, Length(Len(text)))
    BY <1>3, shsFinalDigests DEF Follows
  <2>2. Finit(a, c) = shsFinal(c) /\ DigestOf(a, text) = Padded(text, UnitSize, Length(Len(text)))
    BY <1>3 DEF Finit, DigestOf
  <2>. QED BY <2>1, <2>2
<1>4. CASE a = "HAVAL"
  <2>1. /\ IsContext(haval_end(c))
        /\ haval_end(c).hashed = Padded(text, HavalUnitSize, <<"version">> \o Length(Len(text)))
    BY <1>4, haval_endDigests DEF Follows
  <2>2. /\ Finit(a, c) = haval_end(c)
        /\ DigestOf(a, text) = Padded(text, HavalUnitSize, <<"version">> \o Length(Len(text)))
    BY <1>4 DEF Finit, DigestOf
  <2>. QED BY <2>1, <2>2
<1>. QED BY <1>1, <1>2, <1>3, <1>4 DEF Algorithms

(* The texts that others write.                                             *)
LEMMA TextsTyped ==
  ASSUME NEW n \in Nat, NEW x \in {"o", "n", "x"}
  PROVE  [i \in 1 .. n |-> x] \in Bytes /\ Len([i \in 1 .. n |-> x]) = n
<1>. DEFINE t == [i \in 1 .. n |-> x]
<1>1. x \in Symbol
  BY Zenon DEF Symbol
<1>2. t \in [1 .. n -> Symbol]
  BY <1>1
<1>3. t \in Seq(Symbol)
  BY <1>2, SeqDef
<1>4. DOMAIN t = 1 .. n /\ DOMAIN t = 1 .. Len(t) /\ Len(t) \in Nat
  BY <1>2, <1>3, LenProperties
<1>. QED BY <1>3, <1>4 DEF Bytes

(* What a signature was used for before leaves a context.                   *)
LEMMA UsedIsContext ==
  ASSUME NEW a \in Algorithms
  PROVE  IsContext(Fresh) /\ IsContext(Used(a))
<1>1. IsContext(Fresh) /\ Started(Fresh) = Fresh
  BY PiecesTyped DEF IsContext, Fresh, Started
<1>2. Follows(a, Fresh, <<>>)
  BY <1>1, StartFollows
<1>. DEFINE x == [i \in 1 .. UnitSize + 1 |-> "x"]
<1>3. x \in Bytes
  <2>1. UnitSize + 1 \in Nat /\ "x" \in {"o", "n", "x"}
    BY SignaturesAssumption
  <2>. QED BY <2>1, TextsTyped
<1>. HIDE DEF x
<1>4. <<>> \o x = x /\ <<>> \in Bytes /\ Len(<<>>) % UnitSize = 0
  BY <1>3, PiecesTyped, ConcatEmptySeq, SignaturesAssumption DEF Bytes
<1>. DEFINE u == Update(a, Fresh, x)
<1>5. Follows(a, u, x)
  <2>1. Follows(a, Update(a, Fresh, x), <<>> \o x)
    BY <1>2, <1>3, <1>4, UpdateFollows
  <2>. QED BY <1>4, <2>1
<1>. HIDE DEF u
<1>6. IsContext(Finit(a, u))
  BY <1>3, <1>5, FinitDigests
<1>. QED BY <1>1, <1>6 DEF Used, u, x

-----------------------------------------------------------------------------
(* What one read adds.                                                      *)
Block == SUGGESTED_BLOCK_SIZE

ReadEnd(n, size, bounded) == IF bounded /\ n + Block > size THEN size ELSE n + Block
Piece(text, n, size, bounded) ==
  SubSeq(text, n + 1, IF ReadEnd(n, size, bounded) < Len(text) THEN ReadEnd(n, size, bounded) ELSE Len(text))

(* A piece is no longer than a block, whatever was done to the file.        *)
LEMMA PieceTyped ==
  ASSUME NEW text \in Bytes, NEW n \in Nat, NEW size \in Nat, NEW bounded \in BOOLEAN
  PROVE  /\ Piece(text, n, size, bounded) \in Bytes
         /\ Len(Piece(text, n, size, bounded)) \in 0 .. Block
<1>. DEFINE end == ReadEnd(n, size, bounded)
            lim == IF end < Len(text) THEN end ELSE Len(text)
            p   == Piece(text, n, size, bounded)
<1>1. Block \in Nat \ {0} /\ Len(text) \in Nat
  BY SignaturesAssumption, LenProperties DEF Block, Bytes
<1>2. end \in Nat /\ end <= n + Block
  BY <1>1 DEF ReadEnd
<1>. HIDE DEF end
<1>3. lim \in Nat /\ lim <= Len(text) /\ lim <= n + Block
  BY <1>1, <1>2
<1>4. p = SubSeq(text, n + 1, lim)
  BY DEF Piece, end
<1>. HIDE DEF lim, p
<1>5. IsPart(p, text, n + 1, lim)
  BY <1>3, <1>4, PartOf
<1>. QED BY <1>1, <1>3, <1>5 DEF IsPart, p

(* A piece goes on with the text and, when it is short, it is the last.     *)
ReadSoFar(text, part, size, bounded) ==
  /\ text \in Bytes /\ part \in Bytes /\ size \in Nat /\ size <= Len(text) /\ bounded \in BOOLEAN
  /\ Len(part) <= Len(text) /\ part = SubSeq(text, 1, Len(part))
  /\ bounded => Len(part) <= size

LEMMA PieceGoesOn ==
  ASSUME NEW text, NEW part, NEW size, NEW bounded, ReadSoFar(text, part, size, bounded)
  PROVE  LET p == Piece(text, Len(part), size, bounded)
         IN /\ ReadSoFar(text, part \o p, size, bounded)
            /\ Len(p) < Block => Len(part \o p) = IF bounded THEN size ELSE Len(text)
<1>. DEFINE n   == Len(part)
            end == ReadEnd(n, size, bounded)
            lim == IF end < Len(text) THEN end ELSE Len(text)
            p   == Piece(text, n, size, bounded)
<1>1. /\ text \in Bytes /\ part \in Bytes /\ size \in Nat /\ size <= Len(text) /\ bounded \in BOOLEAN
      /\ n <= Len(text) /\ (bounded => n <= size)
  BY DEF ReadSoFar
<1>2. part = SubSeq(text, 1, n)
  BY DEF ReadSoFar
<1>3. Block \in Nat \ {0} /\ Len(text) \in Nat /\ n \in Nat
  BY <1>1, SignaturesAssumption, LenProperties DEF Block, Bytes
<1>4. p = SubSeq(text, n + 1, lim)
  BY DEF Piece
<1>. HIDE DEF n, p
<1>5. end \in Nat /\ end >= n /\ end <= n + Block /\ (bounded => end <= size)
      /\ (end = n + Block \/ (bounded /\ end = size))
  <2>1. end = IF bounded /\ n + Block > size THEN size ELSE n + Block
    BY Zenon DEF ReadEnd
  <2>. HIDE DEF end
  <2>2. size \in Nat /\ Block \in Nat \ {0} /\ n \in Nat /\ (bounded => n <= size) /\ n + Block \in Nat
    BY <1>1, <1>3
  <2>3. CASE bounded /\ n + Block > size
    BY <2>1, <2>2, <2>3
  <2>4. CASE ~(bounded /\ n + Block > size)
    <3>1. end = n + Block
      BY <2>1, <2>4
    <3>2. ~bounded \/ n + Block <= size
      BY <2>2, <2>4
    <3>3. end \in Nat /\ end >= n /\ end <= n + Block
      BY <2>2, <3>1
    <3>4. bounded => end <= size
      BY <3>1, <3>2, Zenon
    <3>. QED BY <3>1, <3>3, <3>4, Zenon
  <2>. QED BY <2>3, <2>4
<1>. HIDE DEF end
<1>6. lim \in n .. Len(text) /\ (bounded => lim <= size)
      /\ (lim = n + Block \/ lim = IF bounded THEN size ELSE Len(text))
  BY <1>1, <1>3, <1>5
<1>. HIDE DEF lim
<1>7. part \o p = SubSeq(text, 1, lim)
  <2>1. 1 \in 1 .. Len(text) + 1 /\ n \in 1 - 1 .. Len(text) /\ lim \in n .. Len(text)
    BY <1>1, <1>3, <1>6
  <2>2. SubSeq(text, 1, n) \o SubSeq(text, n + 1, lim) = SubSeq(text, 1, lim)
    BY <1>1, <2>1, ConcatAdjacentSubSeq DEF Bytes
  <2>. QED BY <1>2, <1>4, <2>2
<1>8. IsPart(part \o p, text, 1, lim)
  BY <1>1, <1>3, <1>6, <1>7, PartOf
<1>9. part \o p \in Bytes /\ Len(part \o p) = lim
  BY <1>3, <1>6, <1>8 DEF IsPart
<1>10. IsPart(p, text, n + 1, lim)
  BY <1>1, <1>3, <1>4, <1>6, PartOf
<1>11. Len(p) = lim - n
  BY <1>3, <1>6, <1>10 DEF IsPart
<1>12. ReadSoFar(text, part \o p, size, bounded)
  BY <1>1, <1>6, <1>7, <1>9 DEF ReadSoFar
<1>13. ASSUME Len(p) < Block
       PROVE  lim = IF bounded THEN size ELSE Len(text)
  BY <1>3, <1>6, <1>11, <1>13
<1>. QED BY <1>9, <1>12, <1>13 DEF p, n

-----------------------------------------------------------------------------
(* What holds while the properties of an object are calculated.             *)
HashTypes ==
  /\ file = [type |-> file.type, text |-> file.text]
  /\ file.type \in {"file", "link"} /\ file.text \in Bytes
  /\ type \in {"file", "link"} /\ direct \in BOOLEAN /\ bufferSize \in Nat
  /\ at \in {"stat", "hash", "init", "read", "done"}
  /\ archive.size \in Nat /\ archive.text \in Bytes /\ taken \in Bytes
  /\ failed \in BOOLEAN /\ still \in BOOLEAN /\ grown \in BOOLEAN
  /\ \A a \in Algorithms : IsContext(context[a])

(* How far VisitFSObject is.                                                *)
Progress ==
  /\ at # "done" => ~failed
  /\ at \in {"stat", "hash", "init"} => taken = <<>> /\ defined = {}
  /\ at \in {"stat", "hash"} => ~grown
  /\ at = "stat" => stat = -1
  /\ at = "read" => defined = Hashes

(* The signatures follow what was read, in whole blocks so far.             *)
Hashing ==
  at = "read" => /\ Len(taken) % Block = 0
                 /\ \A a \in Hashes : Follows(a, context[a], taken)

Untouched == still => type = file.type /\ stat \in {-1, Len(file.text)}

(* A file that only grew since it was opened is read from its start.        *)
ReadsFile ==
  grown => /\ type = "file" /\ file.type = "file"
           /\ ReadSoFar(file.text, taken, archive.size, ~direct)
           /\ still => archive.size = Len(file.text)

Opened == at \in {"init", "read"} \/ Hashed

ReadsLink ==
  Opened /\ type = "link" =>
    /\ ReadSoFar(archive.text, taken, archive.size, TRUE) /\ archive.size = Len(archive.text)
    /\ still => archive.text = file.text

OpensFile == Opened /\ still /\ type = "file" => grown

HashInv == /\ HashTypes /\ Progress /\ Hashing /\ Untouched /\ ReadsFile /\ ReadsLink /\ OpensFile
           /\ DigestsAsRead /\ EntryWasThere

(* The initial states, and each step.                                       *)
LEMMA HashInitOK == HashInit => HashInv
<1>. SUFFICES ASSUME HashInit PROVE HashInv
  OBVIOUS
<1>1. PICK n \in Lengths, t \in {"file", "link"} : file = [type |-> t, text |-> [i \in 1 .. n |-> "o"]]
  BY DEF HashInit
<1>2. n \in Nat
  BY SignaturesAssumption
<1>3. file.text \in Bytes
  <2>1. "o" \in {"o", "n", "x"}
    OBVIOUS
  <2>. QED BY <1>1, <1>2, <2>1, TextsTyped
<1>4. \A a \in Algorithms : IsContext(context[a])
  BY UsedIsContext DEF HashInit
<1>5. HashTypes
  <2>1. /\ file = [type |-> file.type, text |-> file.text] /\ file.type \in {"file", "link"}
        /\ type = file.type
    BY <1>1 DEF HashInit
  <2>2. /\ direct \in BOOLEAN /\ bufferSize \in Nat
        /\ at \in {"stat", "hash", "init", "read", "done"}
        /\ archive.size \in Nat /\ archive.text \in Bytes /\ taken \in Bytes
        /\ failed \in BOOLEAN /\ still \in BOOLEAN /\ grown \in BOOLEAN
    BY PiecesTyped, SignaturesAssumption DEF HashInit, Closed
  <2>. QED BY <1>3, <1>4, <2>1, <2>2, Zenon DEF HashTypes
<1>. QED BY <1>5 DEF HashInit, HashInv, Progress, Hashing, Untouched, ReadsFile, ReadsLink, OpensFile, Opened,
            Hashed, HashFinished, DigestsAsRead, EntryWasThere

(* An error ends the entry, whatever was read.                              *)
LEMMA FailedOK ==
  ASSUME HashInv, at # "done", Failed, UNCHANGED <<file, type, propsToCheck, direct, stat, taken, context, still>>,
         UNCHANGED <<bufferSize, archive, grown>>
  PROVE  HashInv'
<1>1. at' = "done" /\ failed' = TRUE /\ defined' = defined \ Hashes
  BY DEF Failed
<1>2. Hashes' = Hashes
  BY DEF Hashes
<1>3. defined' = {}
  BY <1>1 DEF HashInv, Progress, HashTypes
<1>4. HashTypes'
  BY <1>1 DEF HashInv, HashTypes
<1>5. Untouched'
  BY DEF HashInv, Untouched
<1>6. ReadsFile'
  BY DEF HashInv, ReadsFile
<1>7. ~Hashed' /\ ~Opened'
  BY <1>1 DEF Hashed, Opened
<1>8. DigestsAsRead' /\ EntryWasThere' /\ ReadsLink' /\ OpensFile'
  BY <1>1, <1>3, <1>7 DEF DigestsAsRead, EntryWasThere, ReadsLink, OpensFile
<1>9. Progress' /\ Hashing'
  BY <1>1 DEF Progress, Hashing
<1>. QED BY <1>4, <1>5, <1>6, <1>8, <1>9 DEF HashInv

LEMMA DoStatOK == HashInv /\ DoStat => HashInv'
<1>. SUFFICES ASSUME HashInv, DoStat PROVE HashInv'
  OBVIOUS
<1>1. at = "stat" /\ UNCHANGED <<file, type, propsToCheck, direct, bufferSize, archive, taken, context, still, grown>>
  BY DEF DoStat
<1>2. CASE Failed
  <2>1. CASE UNCHANGED stat
    BY <1>1, <1>2, <2>1, FailedOK
  <2>2. CASE stat' # stat
    BY <1>2, <2>2 DEF DoStat, Failed
  <2>. QED BY <2>1, <2>2
<1>3. CASE ~Failed
  <2>1. at' = "hash" /\ stat' \in {stat, Len(file.text)} /\ UNCHANGED <<failed, defined>>
    BY <1>3 DEF DoStat
  <2>2. HashTypes' /\ Progress' /\ Hashing'
    BY <1>1, <2>1 DEF HashInv, HashTypes, Progress, Hashing
  <2>3. Untouched'
    BY <1>1, <2>1 DEF HashInv, Untouched
  <2>4. ReadsFile' /\ ~Hashed' /\ ~Opened' /\ DigestsAsRead'
    BY <1>1, <2>1 DEF HashInv, Progress, ReadsFile, Hashed, Opened, HashFinished, DigestsAsRead
  <2>. QED BY <2>2, <2>3, <2>4 DEF HashInv, ReadsLink, OpensFile, EntryWasThere
<1>. QED BY <1>2, <1>3

LEMMA NothingToHashOK == HashInv /\ NothingToHash => HashInv'
<1>. SUFFICES ASSUME HashInv, NothingToHash PROVE HashInv'
  OBVIOUS
<1>1. /\ at = "hash" /\ Hashes = {} /\ at' = "done"
      /\ UNCHANGED <<file, type, propsToCheck, direct, stat, bufferSize, archive, taken, context, defined,
                     failed, still, grown>>
  BY DEF NothingToHash
<1>2. Hashes' = {}
  BY <1>1 DEF Hashes
<1>3. ~failed /\ defined = {} /\ ~grown
  BY <1>1 DEF HashInv, Progress
<1>4. HashTypes' /\ Untouched'
  BY <1>1 DEF HashInv, HashTypes, Untouched
<1>5. ~Hashed' /\ ~Opened' /\ Progress' /\ Hashing' /\ ReadsFile'
  BY <1>1, <1>2, <1>3 DEF Hashed, Opened, Progress, Hashing, ReadsFile
<1>6. DigestsAsRead'
  BY <1>1, <1>2, <1>3, <1>5 DEF DigestsAsRead
<1>. QED BY <1>4, <1>5, <1>6 DEF HashInv, ReadsLink, OpensFile, EntryWasThere

(* Nothing has been read of what was opened.                                *)
LEMMA NothingRead ==
  ASSUME NEW text \in Bytes, NEW bounded \in BOOLEAN
  PROVE  ReadSoFar(text, <<>>, Len(text), bounded)
<1>1. Len(text) \in Nat /\ <<>> \in Bytes /\ Len(<<>>) = 0
  BY PiecesTyped, LenProperties DEF Bytes
<1>2. SubSeq(text, 1, 0) = <<>>
  BY SubSeqEmpty DEF Bytes
<1>. QED BY <1>1, <1>2 DEF ReadSoFar

LEMMA GetSymLinkStrOK == HashInv /\ GetSymLinkStr => HashInv'
<1>. SUFFICES ASSUME HashInv, GetSymLinkStr PROVE HashInv'
  OBVIOUS
<1>. DEFINE rtn == IF Len(file.text) < bufferSize THEN Len(file.text) ELSE bufferSize
<1>1. /\ at = "hash" /\ type = "link"
      /\ UNCHANGED <<file, type, propsToCheck, direct, stat, taken, context, still, grown>>
  BY DEF GetSymLinkStr
<1>2. \/ /\ bufferSize' = 2 * bufferSize /\ UNCHANGED <<at, archive, failed, defined>>
      \/ Failed /\ UNCHANGED <<bufferSize, archive>>
      \/ /\ rtn < bufferSize /\ archive' = [size |-> rtn, text |-> SubSeq(file.text, 1, rtn)]
         /\ at' = "init" /\ UNCHANGED <<bufferSize, failed, defined>>
  BY DEF GetSymLinkStr
<1>3. /\ file.text \in Bytes /\ Len(file.text) \in Nat /\ bufferSize \in Nat
      /\ ~grown /\ ~failed /\ defined = {} /\ taken = <<>>
  BY <1>1, LenProperties DEF HashInv, HashTypes, Progress, Bytes
<1>4. Hashes' = Hashes
  BY <1>1 DEF Hashes
<1>5. CASE bufferSize' = 2 * bufferSize /\ UNCHANGED <<at, archive, failed, defined>>
  <2>1. HashTypes'
    <3>1. bufferSize' \in Nat
      BY <1>3, <1>5
    <3>. QED BY <1>1, <1>5, <3>1 DEF HashInv, HashTypes
  <2>2. Progress' /\ Hashing' /\ Untouched' /\ ReadsFile'
    BY <1>1, <1>3, <1>4, <1>5 DEF HashInv, Progress, Hashing, Untouched, ReadsFile
  <2>3. at' = "hash" /\ ~Hashed' /\ ~Opened' /\ DigestsAsRead'
    BY <1>1, <1>5 DEF Hashed, Opened, HashFinished, DigestsAsRead
  <2>. QED BY <2>1, <2>2, <2>3 DEF HashInv, ReadsLink, OpensFile, EntryWasThere
<1>6. CASE Failed /\ UNCHANGED <<bufferSize, archive>>
  BY <1>1, <1>6, FailedOK
<1>7. CASE /\ rtn < bufferSize /\ archive' = [size |-> rtn, text |-> SubSeq(file.text, 1, rtn)]
           /\ at' = "init" /\ UNCHANGED <<bufferSize, failed, defined>>
  <2>1. rtn = Len(file.text)
    BY <1>3, <1>7
  <2>2. SubSeq(file.text, 1, Len(file.text)) = file.text
    BY <1>3, SubSeqFull DEF Bytes
  <2>3. archive' = [size |-> Len(file.text), text |-> file.text]
    BY <1>7, <2>1, <2>2
  <2>4. archive'.size = Len(file.text) /\ archive'.text = file.text
    BY <2>3
  <2>5. HashTypes'
    BY <1>1, <1>3, <1>7, <2>4 DEF HashInv, HashTypes
  <2>6. Progress' /\ Hashing' /\ Untouched' /\ ReadsFile' /\ OpensFile'
    BY <1>1, <1>3, <1>4, <1>7 DEF HashInv, Progress, Hashing, Untouched, ReadsFile, OpensFile
  <2>7. ~Hashed' /\ DigestsAsRead'
    BY <1>7 DEF Hashed, HashFinished, DigestsAsRead
  <2>8. ReadsLink'
    <3>1. ReadSoFar(file.text, <<>>, Len(file.text), TRUE)
      BY <1>3, NothingRead
    <3>. QED BY <1>1, <1>3, <2>4, <3>1 DEF ReadsLink
  <2>. QED BY <2>5, <2>6, <2>7, <2>8 DEF HashInv, EntryWasThere
<1>. QED BY <1>2, <1>5, <1>6, <1>7

LEMMA DoOpenOK == HashInv /\ DoOpen => HashInv'
<1>. SUFFICES ASSUME HashInv, DoOpen PROVE HashInv'
  OBVIOUS
<1>1. /\ at = "hash" /\ type = "file"
      /\ UNCHANGED <<file, type, propsToCheck, direct, stat, bufferSize, taken, context, still>>
  BY DEF DoOpen
<1>2. /\ file.text \in Bytes /\ Len(file.text) \in Nat /\ file.type \in {"file", "link"} /\ direct \in BOOLEAN
      /\ ~grown /\ ~failed /\ defined = {} /\ taken = <<>> /\ grown \in BOOLEAN
  BY <1>1, LenProperties DEF HashInv, HashTypes, Progress, Bytes
<1>3. CASE Failed /\ UNCHANGED <<archive, grown>>
  BY <1>1, <1>3, FailedOK
<1>4. CASE ~(Failed /\ UNCHANGED <<archive, grown>>)
  <2>1. /\ at' = "init" /\ UNCHANGED <<failed, defined>>
        /\ IF file.type = "link"
           THEN archive' = [size |-> Len(Elsewhere), text |-> Elsewhere] /\ UNCHANGED grown
           ELSE archive' = [size |-> Len(file.text), text |-> <<>>] /\ grown' = TRUE
    BY <1>4 DEF DoOpen
  <2>2. Elsewhere \in Bytes
    <3>1. STRING \subseteq Symbol
      BY Zenon DEF Symbol
    <3>2. Elsewhere \in Seq(STRING)
      BY SignaturesAssumption
    <3>3. PICK n \in Nat : Elsewhere \in [1 .. n -> STRING]
      BY <3>2, SeqDef
    <3>4. Elsewhere \in [1 .. n -> Symbol]
      BY <3>1, <3>3
    <3>. QED BY <3>4, SeqDef DEF Bytes
  <2>3. Len(Elsewhere) \in Nat /\ <<>> \in Bytes
    BY <2>2, PiecesTyped, LenProperties DEF Bytes
  <2>4. archive'.size \in Nat /\ archive'.text \in Bytes /\ grown' \in BOOLEAN
    <3>1. CASE file.type = "link"
      <4>1. archive' = [size |-> Len(Elsewhere), text |-> Elsewhere] /\ grown' = grown
        BY <2>1, <3>1
      <4>. QED BY <1>2, <2>2, <2>3, <4>1
    <3>2. CASE file.type # "link"
      <4>1. archive' = [size |-> Len(file.text), text |-> <<>>] /\ grown' = TRUE
        BY <2>1, <3>2
      <4>. QED BY <1>2, <2>3, <4>1
    <3>. QED BY <3>1, <3>2
  <2>5. HashTypes'
    BY <1>1, <2>1, <2>4 DEF HashInv, HashTypes
  <2>6. Progress' /\ Hashing' /\ Untouched' /\ ReadsLink'
    BY <1>1, <1>2, <2>1 DEF HashInv, Progress, Hashing, Untouched, ReadsLink
  <2>7. ~Hashed' /\ DigestsAsRead'
    BY <2>1 DEF Hashed, HashFinished, DigestsAsRead
  <2>8. ReadsFile'
    <3>1. ASSUME grown' PROVE file.type = "file" /\ archive'.size = Len(file.text)
      <4>1. file.type # "link"
        BY <1>2, <2>1, <3>1
      <4>2. archive' = [size |-> Len(file.text), text |-> <<>>]
        BY <2>1, <4>1
      <4>. QED BY <1>2, <4>1, <4>2
    <3>2. (~direct) \in BOOLEAN
      BY <1>2
    <3>3. ReadSoFar(file.text, <<>>, Len(file.text), ~direct)
      BY <1>2, <3>2, NothingRead
    <3>. QED BY <1>1, <1>2, <3>1, <3>3 DEF ReadsFile
  <2>9. OpensFile'
    <3>1. ASSUME still PROVE grown'
      BY <1>1, <2>1, <3>1 DEF HashInv, Untouched
    <3>. QED BY <1>1, <3>1 DEF OpensFile
  <2>. QED BY <2>5, <2>6, <2>7, <2>8, <2>9 DEF HashInv, EntryWasThere
<1>. QED BY <1>3, <1>4

LEMMA InitSignaturesOK == HashInv /\ InitSignatures => HashInv'
<1>. SUFFICES ASSUME HashInv, InitSignatures PROVE HashInv'
  OBVIOUS
<1>1. /\ at = "init" /\ at' = "read" /\ defined' = Hashes
      /\ UNCHANGED <<file, type, propsToCheck, direct, stat, bufferSize, archive, taken, failed, still, grown>>
  BY DEF InitSignatures
<1>2. context' = [a \in Algorithms |-> IF a \in Hashes THEN Started(context[a]) ELSE context[a]]
  BY DEF InitSignatures
<1>3. Hashes' = Hashes /\ Hashes \subseteq Algorithms
  BY <1>1 DEF Hashes
<1>4. taken = <<>>
  BY <1>1 DEF HashInv, Progress
<1>5. \A a \in Hashes : Follows(a, context'[a], taken)
  <2>1. TAKE a \in Hashes
  <2>2. a \in Algorithms /\ context'[a] = Started(context[a]) /\ IsContext(context[a])
    BY <1>2, <1>3 DEF HashInv, HashTypes
  <2>. QED BY <1>4, <2>2, StartFollows
<1>6. \A a \in Algorithms : IsContext(context'[a])
  <2>1. TAKE a \in Algorithms
  <2>2. CASE a \in Hashes
    BY <1>5, <2>2 DEF Follows
  <2>3. CASE a \notin Hashes
    <3>1. context'[a] = context[a]
      BY <1>2, <2>3
    <3>. QED BY <3>1 DEF HashInv, HashTypes
  <2>. QED BY <2>2, <2>3
<1>7. HashTypes'
  BY <1>1, <1>6 DEF HashInv, HashTypes
<1>8. Hashing'
  <2>1. Len(taken) = 0 /\ 0 % Block = 0
    BY <1>4, PiecesTyped, SignaturesAssumption DEF Block
  <2>. QED BY <1>1, <1>3, <1>5, <2>1 DEF Hashing
<1>9. Progress' /\ Untouched' /\ ReadsFile' /\ OpensFile'
  BY <1>1, <1>3 DEF HashInv, Progress, Untouched, ReadsFile, OpensFile, Opened
<1>10. ReadsLink'
  BY <1>1 DEF HashInv, ReadsLink, Opened
<1>11. ~Hashed' /\ DigestsAsRead'
  BY <1>1 DEF Hashed, HashFinished, DigestsAsRead
<1>. QED BY <1>7, <1>8, <1>9, <1>10, <1>11 DEF HashInv, EntryWasThere

LEMMA ReadFailsOK == HashInv /\ ReadFails => HashInv'
BY FailedOK DEF ReadFails

(* Whole blocks are whole units.                                            *)
LEMMA WholeBlocks ==
  ASSUME NEW n \in Nat, n % Block = 0
  PROVE  n % UnitSize = 0 /\ (n + Block) % Block = 0
<1>. DEFINE U == UnitSize
<1>1. U \in Nat \ {0} /\ Block \in Nat \ {0} /\ Block % U = 0
  BY SignaturesAssumption DEF Block
<1>. HIDE DEF U
<1>2. PICK k \in Nat, r \in 0 .. Block - 1 : n \div Block = k /\ n % Block = r /\ n = k * Block + r
  BY <1>1, DivMod
<1>3. PICK j \in Nat, s \in 0 .. U - 1 : Block \div U = j /\ Block % U = s /\ Block = j * U + s
  BY <1>1, DivMod
<1>4. n = k * Block /\ Block = j * U
  BY <1>1, <1>2, <1>3
<1>5. n = (k * j) * U
  <2>1. k * (j * U) = (k * j) * U
    BY <1>1
  <2>. QED BY <1>4, <2>1
<1>6. k * j \in Nat
  OBVIOUS
<1>7. n % U = 0
  <2>. DEFINE m == k * j
  <2>1. m \in Nat /\ n = m * U + 0 /\ 0 \in 0 .. U - 1
    BY <1>1, <1>5, <1>6
  <2>. HIDE DEF m
  <2>. QED BY <1>1, <2>1, DivUnique
<1>8. (n + Block) % Block = 0
  <2>1. Block % Block = 0
    BY <1>1
  <2>. QED BY <1>1, <2>1, ModSum
<1>. QED BY <1>7, <1>8 DEF U

LEMMA HashBlockOK == HashInv /\ HashBlock => HashInv'
<1>. SUFFICES ASSUME HashInv, HashBlock PROVE HashInv'
  OBVIOUS
<1>. DEFINE piece == Read(Block)
            last  == Len(piece) < Block
<1>1. /\ at = "read" /\ taken' = taken \o piece /\ at' = IF last THEN "done" ELSE at
      /\ UNCHANGED <<file, type, propsToCheck, direct, stat, bufferSize, archive, defined, failed, still, grown>>
  BY DEF HashBlock, Block
<1>2. context' = [a \in Algorithms |->
                    IF a \notin Hashes THEN context[a]
                    ELSE IF last THEN Finit(a, Update(a, context[a], piece))
                    ELSE Update(a, context[a], piece)]
  BY DEF HashBlock, Block
<1>3. Hashes' = Hashes /\ Hashes \subseteq Algorithms
  BY <1>1 DEF Hashes
<1>4. /\ file.text \in Bytes /\ archive.text \in Bytes /\ archive.size \in Nat /\ taken \in Bytes
      /\ type \in {"file", "link"} /\ direct \in BOOLEAN
  BY DEF HashInv, HashTypes
<1>5. piece = Piece(Content, Len(taken), archive.size, Bounded)
  BY DEF Read, UpTo, Piece, ReadEnd
<1>6. Content \in Bytes /\ Bounded \in BOOLEAN /\ Len(taken) \in Nat
  BY <1>4, LenProperties DEF Content, Bounded, Bytes
<1>7. piece \in Bytes /\ Len(piece) \in 0 .. Block
  BY <1>4, <1>5, <1>6, PieceTyped
<1>. HIDE DEF piece
<1>8. ~failed /\ defined = Hashes
  BY <1>1 DEF HashInv, Progress
<1>9. taken' \in Bytes /\ Len(taken') = Len(taken) + Len(piece)
  BY <1>1, <1>4, <1>7, Joined
<1>10. \A a \in Hashes : Follows(a, Update(a, context[a], piece), taken')
  <2>1. TAKE a \in Hashes
  <2>2. a \in Algorithms /\ Follows(a, context[a], taken)
    BY <1>1, <1>3 DEF HashInv, Hashing
  <2>3. Len(taken) % UnitSize = 0
    <3>1. Len(taken) % Block = 0
      BY <1>1 DEF HashInv, Hashing
    <3>. QED BY <1>6, <3>1, WholeBlocks
  <2>. QED BY <1>1, <1>4, <1>7, <2>2, <2>3, UpdateFollows
<1>11. ASSUME grown
       PROVE  /\ ReadSoFar(file.text, taken', archive.size, ~direct)
              /\ last => Len(taken') = IF ~direct THEN archive.size ELSE Len(file.text)
  <2>. DEFINE bounded == ~direct
  <2>1. /\ type = "file" /\ file.type = "file"
        /\ ReadSoFar(file.text, taken, archive.size, bounded)
    BY <1>11 DEF HashInv, ReadsFile
  <2>2. Content = file.text /\ Bounded = bounded
    BY <1>4, <2>1 DEF Content, Bounded
  <2>3. piece = Piece(file.text, Len(taken), archive.size, bounded)
    BY <1>5, <2>2
  <2>. HIDE DEF bounded
  <2>4. /\ ReadSoFar(file.text, taken \o piece, archive.size, bounded)
        /\ Len(piece) < Block => Len(taken \o piece) = IF bounded THEN archive.size ELSE Len(file.text)
    BY <2>1, <2>3, PieceGoesOn
  <2>. QED BY <1>1, <2>4 DEF bounded
<1>12. ASSUME type = "link"
       PROVE  /\ ReadSoFar(archive.text, taken', archive.size, TRUE)
              /\ last => Len(taken') = archive.size
  <2>. DEFINE bounded == TRUE
  <2>1. ReadSoFar(archive.text, taken, archive.size, bounded)
    BY <1>1, <1>12 DEF HashInv, ReadsLink, Opened
  <2>2. Content = archive.text /\ Bounded = bounded
    BY <1>12 DEF Content, Bounded
  <2>3. piece = Piece(archive.text, Len(taken), archive.size, bounded)
    BY <1>5, <2>2
  <2>. HIDE DEF bounded
  <2>4. /\ ReadSoFar(archive.text, taken \o piece, archive.size, bounded)
        /\ Len(piece) < Block => Len(taken \o piece) = IF bounded THEN archive.size ELSE Len(archive.text)
    BY <2>1, <2>3, PieceGoesOn
  <2>. QED BY <1>1, <2>4 DEF bounded
<1>13. ReadsFile'
  <2>1. ASSUME grown
        PROVE  type = "file" /\ file.type = "file" /\ (still => archive.size = Len(file.text))
    BY <2>1 DEF HashInv, ReadsFile
  <2>. QED BY <1>1, <1>11, <2>1 DEF ReadsFile
<1>14. ReadsLink'
  <2>1. ASSUME type = "link"
        PROVE  archive.size = Len(archive.text) /\ (still => archive.text = file.text)
    BY <1>1, <2>1 DEF HashInv, ReadsLink, Opened
  <2>. QED BY <1>1, <1>12, <2>1 DEF ReadsLink
<1>15. still /\ type = "file" => grown
  BY <1>1 DEF HashInv, OpensFile, Opened
<1>16. Progress' /\ Untouched' /\ OpensFile'
  BY <1>1, <1>3, <1>8, <1>15 DEF HashInv, Progress, Untouched, OpensFile
<1>17. CASE ~last
  <2>1. at' = "read" /\ Len(piece) = Block
    <3>1. Block \in Nat
      BY SignaturesAssumption DEF Block
    <3>. QED BY <1>1, <1>7, <1>17, <3>1
  <2>2. \A a \in Hashes : Follows(a, context'[a], taken')
    BY <1>2, <1>3, <1>10, <1>17
  <2>3. Hashing'
    <3>1. Len(taken') % Block = 0
      <4>1. Len(taken) % Block = 0
        BY <1>1 DEF HashInv, Hashing
      <4>. QED BY <1>6, <1>9, <2>1, <4>1, WholeBlocks
    <3>. QED BY <1>3, <2>2, <3>1 DEF Hashing
  <2>4. \A a \in Algorithms : IsContext(context'[a])
    <3>1. TAKE a \in Algorithms
    <3>2. CASE a \in Hashes
      BY <2>2, <3>2 DEF Follows
    <3>3. CASE a \notin Hashes
      <4>1. context'[a] = context[a]
        BY <1>2, <3>3
      <4>. QED BY <4>1 DEF HashInv, HashTypes
    <3>. QED BY <3>2, <3>3
  <2>5. HashTypes'
    BY <1>1, <1>9, <2>1, <2>4 DEF HashInv, HashTypes
  <2>6. ~Hashed' /\ DigestsAsRead'
    BY <2>1 DEF Hashed, HashFinished, DigestsAsRead
  <2>. QED BY <1>13, <1>14, <1>16, <2>3, <2>5, <2>6 DEF HashInv, EntryWasThere
<1>18. CASE last
  <2>1. at' = "done"
    BY <1>1, <1>18
  <2>2. \A a \in Hashes : IsContext(context'[a]) /\ context'[a].hashed = DigestOf(a, taken')
    <3>1. TAKE a \in Hashes
    <3>. DEFINE u == Update(a, context[a], piece)
    <3>2. a \in Algorithms /\ Follows(a, u, taken')
      BY <1>3, <1>10
    <3>3. context'[a] = Finit(a, u)
      BY <1>2, <1>18, <3>2
    <3>. HIDE DEF u
    <3>. QED BY <1>9, <3>2, <3>3, FinitDigests
  <2>3. \A a \in Algorithms : IsContext(context'[a])
    <3>1. TAKE a \in Algorithms
    <3>2. CASE a \in Hashes
      BY <2>2, <3>2
    <3>3. CASE a \notin Hashes
      <4>1. context'[a] = context[a]
        BY <1>2, <3>3
      <4>. QED BY <4>1 DEF HashInv, HashTypes
    <3>. QED BY <3>2, <3>3
  <2>4. HashTypes'
    BY <1>1, <1>9, <2>1, <2>3 DEF HashInv, HashTypes
  <2>5. DigestsAsRead' /\ Hashing'
    BY <1>1, <1>3, <1>8, <2>1, <2>2 DEF DigestsAsRead, Hashing
  <2>6. ASSUME still
        PROVE  taken' = file.text /\ type = file.type /\ stat \in {-1, Len(taken')}
    <3>1. type = file.type /\ stat \in {-1, Len(file.text)}
      BY <2>6 DEF HashInv, Untouched
    <3>2. taken' = file.text
      <4>1. CASE type = "file"
        <5>1. /\ grown /\ archive.size = Len(file.text)
          BY <1>15, <2>6, <4>1 DEF HashInv, ReadsFile
        <5>2. Len(taken') = Len(file.text) /\ taken' = SubSeq(file.text, 1, Len(taken'))
          BY <1>11, <1>18, <5>1 DEF ReadSoFar
        <5>. QED BY <1>4, <5>2, SubSeqFull DEF Bytes
      <4>2. CASE type = "link"
        <5>1. archive.size = Len(archive.text) /\ archive.text = file.text
          BY <1>1, <2>6, <4>2 DEF HashInv, ReadsLink, Opened
        <5>2. Len(taken') = Len(file.text) /\ taken' = SubSeq(file.text, 1, Len(taken'))
          BY <1>12, <1>18, <4>2, <5>1 DEF ReadSoFar
        <5>. QED BY <1>4, <5>2, SubSeqFull DEF Bytes
      <4>. QED BY <1>4, <4>1, <4>2
    <3>. QED BY <3>1, <3>2
  <2>7. ASSUME grown
        PROVE  /\ IsPrefix(taken', file.text)
               /\ IF direct THEN Len(taken') >= archive.size ELSE Len(taken') = archive.size
    <3>1. /\ Len(taken') <= Len(file.text) /\ taken' = SubSeq(file.text, 1, Len(taken'))
          /\ archive.size <= Len(file.text)
      BY <1>11, <2>7 DEF ReadSoFar
    <3>2. Len(taken') = IF ~direct THEN archive.size ELSE Len(file.text)
      BY <1>11, <1>18, <2>7
    <3>3. IF direct THEN Len(taken') >= archive.size ELSE Len(taken') = archive.size
      BY <1>4, <3>1, <3>2
    <3>4. IsPrefix(taken', file.text)
      <4>1. SubSeq(taken', 1, Len(taken')) = taken'
        BY <1>9, SubSeqFull DEF Bytes
      <4>. QED BY <3>1, <4>1 DEF IsPrefix
    <3>. QED BY <3>3, <3>4
  <2>8. EntryWasThere'
    BY <1>1, <2>6, <2>7 DEF EntryWasThere
  <2>. QED BY <1>13, <1>14, <1>16, <2>4, <2>5, <2>8 DEF HashInv
<1>. QED BY <1>17, <1>18

(* What was read is still the start of a text that grew.                    *)
LEMMA AppendGoesOn ==
  ASSUME NEW text, NEW more \in Bytes, NEW part, NEW size, NEW bounded, ReadSoFar(text, part, size, bounded)
  PROVE  ReadSoFar(text \o more, part, size, bounded)
<1>. DEFINE n == Len(part)
<1>1. /\ text \in Bytes /\ part \in Bytes /\ size \in Nat /\ size <= Len(text) /\ bounded \in BOOLEAN
      /\ n <= Len(text) /\ part = SubSeq(text, 1, n) /\ (bounded => n <= size)
  BY DEF ReadSoFar
<1>2. text \o more \in Bytes /\ Len(text \o more) = Len(text) + Len(more) /\ Len(text) \in Nat /\ Len(more) \in Nat
  BY <1>1, Joined
<1>3. n \in Nat
  BY <1>1, LenProperties DEF Bytes
<1>4. SubSeq(text \o more, 1, n) = SubSeq(text, 1, n)
  BY <1>1, <1>3, PartsOfConcat
<1>5. size <= Len(text \o more) /\ n <= Len(text \o more)
  BY <1>1, <1>2, <1>3
<1>. QED BY <1>1, <1>2, <1>4, <1>5 DEF ReadSoFar

(* Another's write leaves alone what was calculated.                        *)
LEMMA DisturbedOK ==
  ASSUME HashInv, TouchObject, file' = [type |-> file'.type, text |-> file'.text],
         file'.type \in {"file", "link"}, file'.text \in Bytes, grown' \in BOOLEAN,
         at \in {"stat", "hash"} => ~grown', ReadsFile'
  PROVE  HashInv'
<1>1. /\ at # "done" /\ still' = FALSE
      /\ UNCHANGED <<type, propsToCheck, direct, at, stat, bufferSize, archive, taken, context, defined, failed>>
  BY DEF TouchObject
<1>2. Hashes' = Hashes
  BY <1>1 DEF Hashes
<1>3. HashTypes'
  BY <1>1 DEF HashInv, HashTypes
<1>4. Progress' /\ Hashing'
  BY <1>1, <1>2 DEF HashInv, Progress, Hashing
<1>5. Untouched' /\ OpensFile' /\ ~Hashed' /\ DigestsAsRead'
  BY <1>1 DEF Untouched, OpensFile, Hashed, HashFinished, DigestsAsRead
<1>6. ReadsLink'
  <2>1. at \in {"init", "read"} /\ type = "link"
        => ReadSoFar(archive.text, taken, archive.size, TRUE) /\ archive.size = Len(archive.text)
    BY DEF HashInv, ReadsLink, Opened
  <2>2. ~still' /\ (Opened' => at \in {"init", "read"})
    BY <1>1, <1>5 DEF Opened
  <2>. QED BY <1>1, <2>1, <2>2 DEF ReadsLink
<1>. QED BY <1>3, <1>4, <1>5, <1>6 DEF HashInv, EntryWasThere

LEMMA HashDisturbedOK == HashInv /\ HashDisturbed => HashInv'
<1>. SUFFICES ASSUME HashInv, HashDisturbed PROVE HashInv'
  OBVIOUS
<1>1. /\ file = [type |-> file.type, text |-> file.text] /\ file.text \in Bytes
      /\ file.type \in {"file", "link"} /\ grown \in BOOLEAN
      /\ (at \in {"stat", "hash"} => ~grown)
  BY DEF HashInv, HashTypes, Progress
<1>2. \A n \in Lengths : [i \in 1 .. n |-> "n"] \in Bytes
  <2>1. TAKE n \in Lengths
  <2>2. n \in Nat /\ "n" \in {"o", "n", "x"}
    BY SignaturesAssumption
  <2>. QED BY <2>2, TextsTyped
<1>3. CASE AppendTo
  <2>. DEFINE more == [i \in 1 .. 1 |-> "n"]
  <2>1. TouchObject /\ file' = [file EXCEPT !.text = Append(file.text, "n")] /\ grown' = grown
    BY <1>3 DEF AppendTo
  <2>2. more \in Bytes /\ more = <<"n">>
    <3>1. 1 \in Nat /\ "n" \in {"o", "n", "x"}
      OBVIOUS
    <3>2. more \in Bytes
      BY <3>1, TextsTyped
    <3>. QED BY <3>2
  <2>. HIDE DEF more
  <2>3. Append(file.text, "n") = file.text \o more
    <3>1. "n" \in Symbol
      BY Zenon DEF Symbol
    <3>. QED BY <1>1, <2>2, <3>1, AppendIsConcat DEF Bytes
  <2>4. file' = [type |-> file.type, text |-> file.text \o more]
    BY <1>1, <2>1, <2>3
  <2>5. file.text \o more \in Bytes
    BY <1>1, <2>2, Joined
  <2>6. ReadsFile'
    <3>1. ASSUME grown
          PROVE  /\ type = "file" /\ file.type = "file"
                 /\ ReadSoFar(file.text \o more, taken, archive.size, ~direct)
      <4>1. type = "file" /\ file.type = "file" /\ ReadSoFar(file.text, taken, archive.size, ~direct)
        BY <3>1 DEF HashInv, ReadsFile
      <4>. QED BY <2>2, <4>1, AppendGoesOn
    <3>2. file'.text = file.text \o more /\ file'.type = file.type
      BY <2>4
    <3>3. ~still' /\ type' = type /\ taken' = taken /\ archive' = archive /\ direct' = direct
      BY <2>1 DEF TouchObject
    <3>. QED BY <2>1, <3>1, <3>2, <3>3 DEF ReadsFile
  <2>7. /\ file' = [type |-> file'.type, text |-> file'.text]
        /\ file'.type \in {"file", "link"} /\ file'.text \in Bytes
    BY <1>1, <2>4, <2>5
  <2>. QED BY <1>1, <2>1, <2>6, <2>7, DisturbedOK
<1>4. CASE Overwrite
  <2>1. PICK n \in Lengths : file' = [file EXCEPT !.text = [i \in 1 .. n |-> "n"]]
    BY <1>4 DEF Overwrite
  <2>2. TouchObject /\ grown' = FALSE
    BY <1>4 DEF Overwrite
  <2>. DEFINE text == [i \in 1 .. n |-> "n"]
  <2>3. text \in Bytes
    BY <1>2
  <2>. HIDE DEF text
  <2>4. file' = [type |-> file.type, text |-> text]
    BY <1>1, <2>1 DEF text
  <2>5. ReadsFile'
    BY <2>2 DEF ReadsFile
  <2>. QED BY <1>1, <2>2, <2>3, <2>4, <2>5, DisturbedOK
<1>5. CASE Replace
  <2>1. PICK t \in {"file", "link"}, n \in Lengths \ {0} : file' = [type |-> t, text |-> [i \in 1 .. n |-> "n"]]
    BY <1>5 DEF Replace
  <2>2. TouchObject /\ grown' = grown /\ ~grown
    BY <1>1, <1>5 DEF Replace
  <2>. DEFINE text == [i \in 1 .. n |-> "n"]
  <2>3. text \in Bytes
    BY <1>2
  <2>. HIDE DEF text
  <2>4. file' = [type |-> t, text |-> text]
    BY <2>1 DEF text
  <2>5. ReadsFile'
    BY <2>2 DEF ReadsFile
  <2>. QED BY <1>1, <2>2, <2>3, <2>4, <2>5, DisturbedOK
<1>. QED BY <1>3, <1>4, <1>5 DEF HashDisturbed

LEMMA HashStays == HashInv /\ UNCHANGED hashVars => HashInv'
<1>. SUFFICES ASSUME HashInv, UNCHANGED hashVars PROVE HashInv'
  OBVIOUS
<1>1. /\ UNCHANGED <<file, type, propsToCheck, direct, at, stat, bufferSize, archive, taken, context>>
      /\ UNCHANGED <<defined, failed, still, grown>>
  BY DEF hashVars
<1>2. Hashes' = Hashes
  BY <1>1 DEF Hashes
<1>3. Hashed' = Hashed /\ Opened' = Opened
  BY <1>1, <1>2 DEF Hashed, HashFinished, Opened
<1>4. HashTypes' /\ Progress' /\ Hashing' /\ Untouched'
  BY <1>1, <1>2 DEF HashInv, HashTypes, Progress, Hashing, Untouched
<1>5. ReadsFile' /\ ReadsLink' /\ OpensFile'
  BY <1>1, <1>3 DEF HashInv, ReadsFile, ReadsLink, OpensFile
<1>6. DigestsAsRead'
  BY <1>1, <1>2, <1>3 DEF HashInv, DigestsAsRead, HashFinished
<1>7. EntryWasThere'
  BY <1>1, <1>3 DEF HashInv, EntryWasThere
<1>. QED BY <1>4, <1>5, <1>6, <1>7 DEF HashInv

(* In whatever blocks a text is read, whatever was done to the object while *)
(* its properties were calculated and whatever its signatures were used for *)
(* before, each of the digests of an entry is that of the one text that was *)
(* read, the entry has all of them or none, and it shows an object that     *)
(* nobody touched as it is.                                                 *)
THEOREM DigestsAreOfTheText == HashSpec => []DigestsOfText
<1>1. HashInv /\ [HashNext]_hashVars => HashInv'
  BY DoStatOK, NothingToHashOK, GetSymLinkStrOK, DoOpenOK, InitSignaturesOK, HashBlockOK, ReadFailsOK,
     HashDisturbedOK, HashStays DEF HashNext, HashStep
<1>2. HashInv => DigestsOfText
  BY DEF HashInv, DigestsOfText
<1>. QED BY HashInitOK, <1>1, <1>2, PTL DEF HashSpec
=============================================================================
