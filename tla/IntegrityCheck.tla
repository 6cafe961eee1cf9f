--------------------------- MODULE IntegrityCheck ---------------------------
(* cIntegrityCheck (tripwire/integritycheck.cpp): walks down the file       *)
(* system and the database together from the start point of every rule,     *)
(* merging the sorted names in each directory, and reports what was added,  *)
(* removed and changed.  Objects are looked at one after the other while    *)
(* the file system changes.  The flags of a policy update make the check    *)
(* rewrite the objects in the database as it goes.                          *)
EXTENDS FileSystem, FcoReport

CONSTANTS FileSystems,  \* what the file system was and is
          Policies,
          SamePolicy    \* the database was made under the policy of the check

ASSUME CheckAssumption == /\ \A f \in FileSystems : TreeAssumption(f)
                          /\ \A policy \in Policies : PolicyAssumption(policy)

VARIABLES specs,    \* the rules, mSpecList
          todo,     \* those still to be checked
          spec,     \* mpCurSpec
          db,       \* the database
          was,      \* the database at the beginning
          walk,     \* the directories being merged, innermost last: the name
                    \*   of each and the names still to come on either side
          opening,  \* the directory to descend into next: of length one or none
          report,   \* a set of entries
          errors    \* pairs of a rule's start point and the name of an object
                    \*   for which there is an error in the rule's error queue

vars == <<fs, faults, touched, specs, todo, spec, db, was, walk, opening, report, errors>>

Top      == walk[Len(walk)]
Idle     == walk = <<>> /\ opening = <<>>
Finished == todo = {} /\ Idle

Init == /\ fs \in FileSystems
        /\ faults = 0 /\ touched = {}
        /\ \E policy, oldPolicy \in Policies, before \in FileSystems :
             /\ SamePolicy => oldPolicy = policy
             /\ specs = CreateFCOSpecs(policy)
             /\ db = DbOf(Snapshot(before, CreateFCOSpecs(oldPolicy)))
        /\ was = db
        /\ todo = specs
        /\ spec \in specs
        /\ walk = <<>> /\ opening = <<>>
        /\ report = {} /\ errors = {}

-----------------------------------------------------------------------------
(* The object at p as the iterator fills it in.                             *)
Look(s, p, works) == IF works THEN InitializeTypeInfo(fs, s, p) ELSE InvalidObject
(* Variant: the error bucket of the iterator was not set.                   *)
LogNoError(s, p, fine) == errors' = errors
LogError(s, p, fine) == errors' = IF fine THEN errors ELSE errors \cup {<<s.start, p>>}

(* The sides into which the walk goes on below p.                           *)
Below(p, old, new) == IF old \/ new THEN <<[dir |-> p, old |-> old, new |-> new]>> ELSE <<>>

(* ProcessAddedFCO, ProcessRemovedFCO and ProcessChangedFCO for the object  *)
(* o at p, where the rule does not stop; an entry of the database that has  *)
(* no data makes an object that is there an added one.                      *)
ProcessAddedFCO(s, p, o) ==
  /\ report' = report \cup {Added(s, p, CalcProps(o, s.props))}
  /\ opening' = Below(p, FALSE, o.type = "dir")
  /\ UNCHANGED db

(* Variant: what is below an object that is gone is not looked for.         *)
ProcessRemovedFCOAlone(s, p) ==
  /\ report' = IF HasFCOData(db, p) THEN report \cup {Removed(s, p, db.data[p])} ELSE report
  /\ opening' = <<>>
  /\ UNCHANGED db
ProcessRemovedFCO(s, p) ==
  /\ report' = IF HasFCOData(db, p) THEN report \cup {Removed(s, p, db.data[p])} ELSE report
  /\ opening' = Below(p, CanDescend(db, p), FALSE)
  /\ UNCHANGED db

(* Variant: the report has the FCO as it was before it was adjusted.        *)
CompareCopyAndAdjust(s, p, new) ==
  LET old == db.data[p]
      differing == CompareFCOs(s, old, new)
  IN /\ report' = IF differing = {} THEN report
                  ELSE report \cup {Entry(s, "changed", p, old, new, differing)}
     /\ db' = SetFCOData(db, p, Adjusted(s, old, new))
(* The entry and the database share the FCO that is adjusted.               *)
CompareAndAdjust(s, p, new) ==
  LET old == db.data[p]
      differing == CompareFCOs(s, old, new)
      adjusted == Adjusted(s, old, new)
  IN /\ report' = IF differing = {} THEN report
                  ELSE report \cup {Entry(s, "changed", p, adjusted, new, differing)}
     /\ db' = SetFCOData(db, p, adjusted)

(* Variant: a directory that was replaced by a file is not descended into.  *)
ProcessChangedFCOAsIs(s, p, o) ==
  /\ IF HasFCOData(db, p) THEN CompareAndAdjust(s, p, CalcProps(o, s.props))
     ELSE report' = report \cup {Added(s, p, CalcProps(o, s.props))} /\ UNCHANGED db
  /\ opening' = IF o.type = "dir" THEN Below(p, CanDescend(db, p), TRUE) ELSE <<>>
ProcessChangedFCO(s, p, o) ==
  /\ IF HasFCOData(db, p) THEN CompareAndAdjust(s, p, CalcProps(o, s.props))
     ELSE report' = report \cup {Added(s, p, CalcProps(o, s.props))} /\ UNCHANGED db
  /\ opening' = Below(p, CanDescend(db, p), o.type = "dir")

-----------------------------------------------------------------------------
(* Execute: the start point of the next rule, in any order.  One that       *)
(* cannot be looked at is taken for removed.                                *)
ProcessSpec(s, works) ==
  LET p == s.start
      o == Look(s, p, works)
  IN /\ Idle /\ s \in todo
     /\ Call(works)
     /\ spec' = s /\ todo' = todo \ {s}
     /\ LogError(s, p, works /\ p \in DOMAIN fs)
     /\ IF o = InvalidObject
        THEN IF p \in Entries(db) THEN ProcessRemovedFCO(s, p)
                                  ELSE UNCHANGED <<db, report, opening>>
        ELSE IF p \in Entries(db) THEN ProcessChangedFCO(s, p, o) ELSE ProcessAddedFCO(s, p, o)
     /\ UNCHANGED <<specs, was, walk>>

(* ProcessDir begins: both sides descend, or one.                           *)
OpenDir(works) ==
  /\ opening # <<>>
  /\ Call(works)
  /\ LET p == opening[1].dir
         readable == works /\ IsDir(fs, p)
     IN /\ walk' = Append(walk,
             [dir |-> p,
              old |-> IF opening[1].old THEN Peers(Children(db, p)) ELSE <<>>,
              new |-> IF opening[1].new /\ readable THEN GetChildrenNames(fs, p) ELSE <<>>])
        /\ LogError(spec, p, readable \/ ~opening[1].new)
  /\ opening' = <<>>
  /\ UNCHANGED <<specs, todo, spec, db, was, report>>

Merging == opening = <<>> /\ walk # <<>>
OldName == Append(Top.dir, Head(Top.old))
NewName == Append(Top.dir, Head(Top.new))
(* The relationship of the two iterators; one that is done comes after all. *)
OldFirst == Top.old # <<>> /\ (Top.new # <<>> => Head(Top.old) < Head(Top.new))
NewFirst == Top.new # <<>> /\ (Top.old # <<>> => Head(Top.new) < Head(Top.old))
BothAt   == Top.old # <<>> /\ Top.new # <<>> /\ Head(Top.old) = Head(Top.new)

NextOld(w) == [w EXCEPT ![Len(w)].old = Tail(@)]
NextNew(w) == [w EXCEPT ![Len(w)].new = Tail(@)]

(* Below, each iterator is moved on before what is under the object is      *)
(* processed, as nothing asks where it is until that is done.               *)
(* Variant: the object of the file system is passed over, not the other.    *)
SkipNewObject == /\ Merging
                 /\ Top.new # <<>> /\ ~OldFirst /\ ShouldStopDescent(spec, NewName)
                 /\ walk' = NextNew(walk)
                 /\ UNCHANGED <<fs, faults, touched, specs, todo, spec, db, was, opening, report, errors>>
SkipObject == /\ Merging
              /\ \/ OldFirst /\ ShouldStopDescent(spec, OldName) /\ walk' = NextOld(walk)
                 \/ NewFirst /\ ShouldStopDescent(spec, NewName) /\ walk' = NextNew(walk)
                 \/ /\ BothAt /\ ShouldStopDescent(spec, NewName)
                    /\ walk' = NextOld(NextNew(walk))
              /\ UNCHANGED <<fs, faults, touched, specs, todo, spec, db, was, opening, report, errors>>

AddedObject(works) ==
  /\ Merging /\ NewFirst /\ ~ShouldStopDescent(spec, NewName)
  /\ Call(works)
  /\ walk' = NextNew(walk)
  /\ ProcessAddedFCO(spec, NewName, Look(spec, NewName, works))
  /\ LogError(spec, NewName, works /\ NewName \in DOMAIN fs)
  /\ UNCHANGED <<specs, todo, spec, was>>

RemovedObject ==
  /\ Merging /\ OldFirst /\ ~ShouldStopDescent(spec, OldName)
  /\ walk' = NextOld(walk)
  /\ ProcessRemovedFCO(spec, OldName)
  /\ UNCHANGED <<fs, faults, touched, specs, todo, spec, was, errors>>

ComparedObject(works) ==
  /\ Merging /\ BothAt /\ ~ShouldStopDescent(spec, NewName)
  /\ Call(works)
  /\ walk' = NextOld(NextNew(walk))
  /\ ProcessChangedFCO(spec, NewName, Look(spec, NewName, works))
  /\ LogError(spec, NewName, works /\ NewName \in DOMAIN fs)
  /\ UNCHANGED <<specs, todo, spec, was>>

LeaveDir == /\ Merging /\ Top.old = <<>> /\ Top.new = <<>>
            /\ walk' = Front(walk)
            /\ UNCHANGED <<fs, faults, touched, specs, todo, spec, db, was, opening, report, errors>>

Disturbed == /\ ~Finished /\ Disturb
             /\ UNCHANGED <<specs, todo, spec, db, was, walk, opening, report, errors>>

Step == \/ \E works \in BOOLEAN : \/ \E s \in todo : ProcessSpec(s, works)
                                  \/ OpenDir(works)
                                  \/ AddedObject(works)
                                  \/ ComparedObject(works)
        \/ RemovedObject
        \/ SkipObject
        \/ LeaveDir

Next == Step \/ Disturbed

Spec == Init /\ [][Next]_vars /\ WF_vars(Step)

-----------------------------------------------------------------------------
TypeOK == /\ IsTree(fs) /\ DOMAIN fs \subseteq Path
          /\ todo \subseteq specs /\ spec \in specs
          /\ Rooted(db) /\ Entries(db) = Entries(was) /\ db.arrays = was.arrays
          /\ \A e \in report : /\ e.kind \in {"added", "removed", "changed"}
                               /\ e.path \in Path
          /\ \A e \in errors : \E s \in specs : s.start = e[1] /\ Reaches(s, e[2])

(* The report says of every object that the rules reach how it differs from *)
(* the database, and nothing of one that does not.  What happens to other   *)
(* objects meanwhile makes no difference to that, unless an error was       *)
(* reported for a directory above it.                                       *)
UntouchedReported ==
  Finished => \A s \in specs, p \in Path :
    /\ Reaches(s, p) /\ p \notin touched
    /\ \A e \in Path : <<s.start, e>> \in errors /\ AtOrAbove(e, p)
                         => e \notin DOMAIN fs \cup touched
    => {e \in report : e.rule = s.start /\ e.path = p} = Expected(fs, was, s, p)

(* No object is reported twice, by one rule or by two, and each by a rule   *)
(* it is in: two entries for one object would make the update of the        *)
(* database from this report fail.                                          *)
ReportedOnce == /\ \A e, f \in report : e.path = f.path => e = f
                /\ \A e \in report : \E s \in specs : s.start = e.rule /\ Reaches(s, e.path)

(* Every difference is reported, and no difference more than once.          *)
ReportsRight == UntouchedReported /\ ReportedOnce

(* Whatever the file system does, an object of which nothing could be       *)
(* learnt is in the report only with an error beside it, or as a mount      *)
(* point.                                                                   *)
PhantomHasError ==
  \A e \in report : e.new # NoData /\ e.new["type"] = "invalid" =>
    <<e.rule, e.path>> \in errors \/ e.path \in Mounts

(* The check ends.                                                          *)
Ends == <>Finished
=============================================================================
