------------------------------ MODULE FcoSpec ------------------------------
(* Rules (fco/fcospechelper.cpp) and how a policy text becomes a list of    *)
(* them (twparser/parserhelper.cpp).  A rule is a record of its start       *)
(* point, its recurse depth, its stop points and the properties it watches. *)
(* An object is in a rule when it is at or below the start point and not at *)
(* or below a stop point.                                                   *)
EXTENDS Integers, Sequences, SequencesExt, FiniteSets, FiniteSetsExt

RecurseInfinite == -1

(* p is at or above q: REL_EQUAL or REL_ABOVE.                              *)
AtOrAbove(p, q) == IsPrefix(p, q)
Above(p, q)     == AtOrAbove(p, q) /\ p # q

(* Variant: stop points below the new one are kept.                         *)
AddKeepingLower(stops, p) == IF \E q \in stops : AtOrAbove(q, p)
                             THEN stops ELSE stops \cup {p}
(* Variant: one that is above the new one is replaced.                      *)
AddReplacingHigher(stops, p) ==
  {q \in stops : ~AtOrAbove(p, q) /\ ~AtOrAbove(q, p)} \cup {p}
(* The stop point that is added, unless one at or above it is there; those  *)
(* below it are taken out.                                                  *)
AddTo(stops, p) == IF \E q \in stops : AtOrAbove(q, p)
                   THEN stops
                   ELSE {q \in stops : ~AtOrAbove(p, q)} \cup {p}

ContainsFCO(s, p) == AtOrAbove(s.start, p) /\ \A q \in s.stops : ~AtOrAbove(q, p)
(* Variant: with a limit of the depth, stop points are not looked up.       *)
StopAtDepthOnly(s, p) ==
  IF s.depth # RecurseInfinite THEN Len(p) - Len(s.start) > s.depth ELSE p \in s.stops
ShouldStopDescent(s, p) ==
  \/ s.depth # RecurseInfinite /\ Len(p) - Len(s.start) > s.depth
  \/ p \in s.stops

(* A rule whose recurse depth is zero has no stop points and another class  *)
(* of helper, cFCOSpecNoChildren: it contains its start point alone, and    *)
(* ShouldStopDescent, of depth zero, stops at everything below.             *)
SpecContainsFCO(s, p) == IF s.depth = 0 THEN p = s.start ELSE ContainsFCO(s, p)

-----------------------------------------------------------------------------
(* A policy: the rules that were parsed, a function from start points to    *)
(* what follows them in the text, and the names excluded with "!".  No name *)
(* occurs twice among the two.                                              *)
Policy(rules, omitted) == [rules |-> rules, omitted |-> omitted]

(* Variant: only what "!" excludes is made a stop point.                    *)
StopListOmittedOnly(policy) == policy.omitted
(* mStopList: every start point is entered in it too.                       *)
StopList(policy) == DOMAIN policy.rules \cup policy.omitted

(* What the parser lets through: names are not empty, and a depth that is   *)
(* not unlimited is not negative.                                           *)
PolicyAssumption(policy) ==
  /\ IsFiniteSet(StopList(policy)) /\ StopList(policy) \subseteq Seq(Int) \ {<<>>}
  /\ \A p \in DOMAIN policy.rules : policy.rules[p].depth \in Nat \cup {RecurseInfinite}

StopsOf(policy, start) ==
  FoldSet(LAMBDA p, stops : AddTo(stops, p), {}, {p \in StopList(policy) : Above(start, p)})

(* The rules of a policy: a rule has as stop points all the names of the    *)
(* stop list below its start point.  The type is watched by every rule.     *)
CreateFCOSpecs(policy) ==
  {[start |-> start,
    depth |-> policy.rules[start].depth,
    stops |-> IF policy.rules[start].depth = 0 THEN {} ELSE StopsOf(policy, start),
    props |-> policy.rules[start].props \cup {"type"}] : start \in DOMAIN policy.rules}

(* The objects a check of a rule comes to, among those that exist: walking  *)
(* down from the start point it leaves an object out, with all below it,    *)
(* when ShouldStopDescent says so.                                          *)
Reaches(s, p) == /\ AtOrAbove(s.start, p)
                 /\ \A n \in Len(s.start)..Len(p) : ~ShouldStopDescent(s, SubSeq(p, 1, n))
=============================================================================
