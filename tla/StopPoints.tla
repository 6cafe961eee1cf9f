----------------------------- MODULE StopPoints -----------------------------
(* cFCOSpecStopPointSet (fco/fcospechelper.cpp): the part of the tree a     *)
(* rule covers, from its start point down to its stop points.  The parser   *)
(* adds every start point and every excluded name of the policy that lies   *)
(* below a rule's start point as a stop point of the rule.                  *)
EXTENDS FcoSpec

CONSTANTS Name,      \* a name in a path
          Path,      \* names of objects, sequences; <<>> is above all
          Depths     \* recurse depths; RecurseInfinite is one of them

ASSUME PathAssumption == <<>> \in Path /\ Path \subseteq Seq(Name)
ASSUME DepthAssumption == RecurseInfinite \in Depths /\ Depths \subseteq Int

VARIABLES set,    \* the object: start point, stop points, recurse depth
          clone,  \* what Clone last returned
          added   \* every stop point that Add was given and did not refuse

vars == <<set, clone, added>>

-----------------------------------------------------------------------------
Init == /\ set = [start |-> <<>>, stops |-> {}, depth |-> RecurseInfinite]
        /\ clone = set
        /\ added = {}

Add(p) == /\ Above(set.start, p)
          /\ set' = [set EXCEPT !.stops = AddTo(@, p)]
          /\ added' = added \cup {p}
          /\ UNCHANGED clone

SetStartPoint(p) == /\ \A q \in set.stops : Above(p, q)
                    /\ set' = [set EXCEPT !.start = p]
                    /\ UNCHANGED <<clone, added>>

SetRecurseDepth(d) == /\ set' = [set EXCEPT !.depth = d]
                      /\ UNCHANGED <<clone, added>>

(* Variant: the depth of the copy is not set.                               *)
CloneUninitialized ==
  /\ clone' = [start |-> set.start, stops |-> set.stops, depth |-> 0]
  /\ UNCHANGED <<set, added>>
Clone == /\ clone' = [start |-> set.start, stops |-> set.stops, depth |-> RecurseInfinite]
         /\ UNCHANGED <<set, added>>

Next == \/ \E p \in Path : Add(p) \/ SetStartPoint(p)
        \/ \E d \in Depths : SetRecurseDepth(d)
        \/ Clone

Spec == Init /\ [][Next]_vars

-----------------------------------------------------------------------------
TypeOK == /\ set \in [start : Path, stops : SUBSET Path, depth : Depths]
          /\ clone \in [start : Path, stops : SUBSET Path, depth : Depths]
          /\ added \in SUBSET Path

(* "At any given time, all stop points are unrelated" (fcospechelper.h),    *)
(* and all are below the start point.                                       *)
StopsUnrelated == /\ \A p, q \in set.stops : AtOrAbove(p, q) => p = q
                  /\ \A p \in set.stops : Above(set.start, p)

(* Whatever order they were added in, and though some were dropped, the     *)
(* rule leaves out what is at or below a stop point it was given, and no    *)
(* more.                                                                    *)
StopsAsGiven ==
  \A p \in Path : ContainsFCO(set, p) <=>
    AtOrAbove(set.start, p) /\ \A q \in added : ~AtOrAbove(q, p)

(* What a walk down from the start point comes to that asks at every object *)
(* whether to stop.                                                         *)
Reached(s) == {p \in Path : /\ AtOrAbove(s.start, p)
                            /\ \A q \in Path : AtOrAbove(s.start, q) /\ AtOrAbove(q, p)
                                                 => ~ShouldStopDescent(s, q)}
Contained(s) == {p \in Path : ContainsFCO(s, p)}

(* A check that walks down, asking ShouldStopDescent, never comes to an     *)
(* object that the update of the policy, asking ContainsFCO, would say is   *)
(* not in the rule, and without a limit of the depth it comes to all.       *)
WalkStaysInside == /\ Reached(set) \subseteq Contained(set)
                   /\ set.depth = RecurseInfinite => Reached(set) = Contained(set)
=============================================================================
